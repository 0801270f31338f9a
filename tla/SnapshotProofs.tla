--------------------------- MODULE SnapshotProofs ---------------------------
(***************************************************************************)
(* A recorded snapshot has its data behind it, its counts add up, and the  *)
(* tables read as of a slot the stream has passed show what the chain held *)
(* then: for any accounts, pages, batch size and scopes, whatever the      *)
(* chain and the stream do meanwhile.                                      *)
(***************************************************************************)
EXTENDS Snapshot, FiniteSetTheorems, WellFoundedInduction, TLAPS

USE DEF chain, stream, store, job, InsertFails, RecordFails

Decoded(a) == KindOf[a] \in Kinds /\ a \in Decodes

(* The rows of an account that its answer, at slot s, calls for.           *)
HasRows(a, s) ==
  StateAt(a, s) # 0 =>
    /\ Stored("account_updates", a, s)
    /\ Decoded(a) => Stored(KindOf[a], a, s)

(* The same in the middle of a page, when some rows are still to be sent.  *)
HasOrSends(a, s) ==
  StateAt(a, s) # 0 =>
    /\ a \in unsent["account_updates"] \/ Stored("account_updates", a, s)
    /\ Decoded(a) => a \in unsent[KindOf[a]] \/ Stored(KindOf[a], a, s)

JobOK ==
  /\ tip \in Nat /\ slot \in Nat /\ at \in [Accounts -> Nat]
  /\ pc \in {"idle", "fetch", "insert", "record"} /\ call \in Nat
  /\ pc # "idle" => scope \in {"known", "all"}
  /\ unsent \in [Tables -> SUBSET Accounts]
  /\ pc \in {"fetch", "insert"} => call \in 1..Calls(scope)
  /\ pc = "record" => call = Calls(scope) + 1

(* Every answer is of a completed slot, where nothing is written any more. *)
DatesOK ==
  /\ tip > 0
  /\ pc = "insert" => slot < tip
  /\ \A a \in Accounts : at[a] < tip

(* What earlier calls listed is stored; what this one did is on its way.   *)
PagesOK ==
  pc # "idle" /\ ~dry =>
    \A a \in Accounts : \A i \in 1..Calls(scope) : Matches(scope, i, a) =>
      /\ pc = "record" => HasRows(a, at[a])
      /\ pc # "record" /\ i < call => HasRows(a, at[a])
      /\ pc = "insert" /\ i = call => at[a] = slot /\ HasOrSends(a, slot)

BackInv == JobOK /\ DatesOK /\ PagesOK

-----------------------------------------------------------------------------
(* A completed slot does not change.                                       *)
LEMMA StateStays ==
  ASSUME NEW a \in Accounts, NEW s \in Nat, s < tip, tip \in Nat,
         [\E b \in Accounts, open \in BOOLEAN : Write(b, open)]_ledger
  PROVE  StateAt(a, s)' = StateAt(a, s)
<1>1. WritesTo(a, s)' = WritesTo(a, s)
  BY DEF Write, WritesTo
<1> QED
  BY <1>1 DEF StateAt

(* Rows are only added.                                                    *)
LEMMA StoredStays ==
  ASSUME NEW t, NEW a, NEW s, rows \subseteq rows', Stored(t, a, s)
  PROVE  Stored(t, a, s)'
  BY DEF Stored

LEMMA RowsGrow == [Next]_vars => rows \subseteq rows'
  BY DEF Next, Write, NewSlot, Streams, StreamLoses, Job, Start, Fetch, EndPage,
         EndsUnrecorded, RecordRun, RunFails, Insert, vars

LEMMA ChunkStores ==
  ASSUME NEW t, NEW chunk, NEW a \in chunk, Chunk(t, chunk) \subseteq rows'
  PROVE  \E r \in rows' : /\ r.table = t /\ r.account = a /\ r.slot = slot
                          /\ r.write_version = SNAPSHOT_WRITE_VERSION
<1>1. Row(t, a, slot, SNAPSHOT_WRITE_VERSION, StateAt(a, slot)) \in rows'
  BY DEF Chunk, DateOf
<1> QED
  BY <1>1 DEF Row

(* Every account in scope belongs to one of the calls.                     *)
LEMMA CallsCover ==
  ASSUME NEW a \in Accounts, NEW sc \in {"known", "all"}, InScope(sc, a)
  PROVE  \E i \in 1..Calls(sc) : Matches(sc, i, a)
<1> USE SnapshotAssumption
<1>1. CASE sc = "all"
  BY <1>1 DEF Calls, Matches
<1>2. CASE sc = "known"
  <2>1. CASE KindOf[a] = "Obligation"
    BY <1>2, <2>1 DEF Calls, Matches
  <2>2. CASE KindOf[a] = "Reserve"
    BY <1>2, <2>2 DEF Calls, Matches
  <2>3. CASE KindOf[a] = "LendingMarket"
    BY <1>2, <2>3 DEF Calls, Matches
  <2> QED
    BY <1>2, <2>1, <2>2, <2>3 DEF InScope, Kinds
<1> QED
  BY <1>1, <1>2

-----------------------------------------------------------------------------
LEMMA BackInit == Init => BackInv
  BY DEF Init, BackInv, JobOK, DatesOK, PagesOK, Zero

(* Steps of the chain and of the stream leave the job alone.               *)
LEMMA OthersKeep ==
  ASSUME BackInv, rows \subseteq rows', UNCHANGED <<job, started>>,
         tip' \in Nat, tip' >= tip,
         [\E b \in Accounts, open \in BOOLEAN : Write(b, open)]_ledger
  PROVE  BackInv'
<1> USE DEF BackInv, JobOK
<1>1. JobOK' /\ DatesOK'
  <2>1. JobOK'
    BY DEF Calls
  <2>2. tip \in Nat /\ \A x \in Nat : x < tip => x < tip'
    OBVIOUS
  <2>3. ASSUME NEW a \in Accounts
        PROVE  at'[a] < tip'
    BY <2>2, <2>3 DEF DatesOK
  <2>4. tip' > 0 /\ (pc' = "insert" => slot' < tip')
    BY <2>2 DEF DatesOK
  <2> QED
    BY <2>1, <2>3, <2>4 DEF DatesOK
<1>2. \A a \in Accounts : \A s \in Nat : s < tip =>
        /\ HasRows(a, s) => HasRows(a, s)'
        /\ HasOrSends(a, s) => HasOrSends(a, s)'
  BY StateStays, StoredStays DEF HasRows, HasOrSends
<1>3. PagesOK'
  BY <1>2 DEF PagesOK, DatesOK, Matches
<1> QED
  BY <1>1, <1>3

LEMMA FetchKeeps == BackInv /\ Fetch => BackInv'
<1> SUFFICES ASSUME BackInv, Fetch PROVE BackInv'
  OBVIOUS
<1> USE DEF BackInv
<1>1. PICK s \in 0..(tip - 1) : slot' = s /\
        LET listed == {a \in Accounts : Matches(scope, call, a) /\ StateAt(a, s) # 0}
            known  == {a \in listed : KindOf[a] \in Kinds}
        IN  /\ unsent' =
                 [t \in Tables |->
                    IF dry THEN {}
                    ELSE IF t = "account_updates" THEN listed
                    ELSE {a \in known \cap Decodes : KindOf[a] = t}]
            /\ at' = [a \in Accounts |-> IF Matches(scope, call, a) THEN s ELSE at[a]]
  BY DEF Fetch
<1>2. pc = "fetch" /\ pc' = "insert" /\ UNCHANGED <<chain, stream, store, scope, dry, call>>
  BY DEF Fetch
<1>3. s \in Nat /\ s < tip
  BY DEF JobOK
<1>4. JobOK'
  BY <1>1, <1>2, <1>3 DEF JobOK
<1>5. DatesOK'
  BY <1>1, <1>2, <1>3 DEF JobOK, DatesOK
<1>6. ASSUME NEW a \in Accounts, ~dry, Matches(scope, call, a), StateAt(a, s) # 0
      PROVE  a \in unsent'["account_updates"] /\ (Decoded(a) => a \in unsent'[KindOf[a]])
  BY <1>1, <1>6 DEF Decoded, Tables, Kinds
<1>7. ASSUME NEW a \in Accounts, NEW i \in 1..Calls(scope), Matches(scope, i, a), i < call
      PROVE  ~Matches(scope, call, a)
  <2>1. call \in 1..Calls(scope) /\ scope \in {"known", "all"}
    BY <1>2 DEF JobOK
  <2>2. PageOf[a] \in 1..Pages /\ Pages \in Nat
    BY SnapshotAssumption
  <2>3. CASE scope = "all"
    BY <1>7, <2>1, <2>3 DEF Calls
  <2>4. CASE scope = "known"
    BY <1>7, <2>1, <2>2, <2>4 DEF Calls, Matches
  <2> QED
    BY <2>1, <2>3, <2>4
<1>8. \A a \in Accounts : \A x \in Nat : StateAt(a, x)' = StateAt(a, x)
  BY <1>2 DEF StateAt, WritesTo
<1>9. PagesOK'
  <2> SUFFICES ASSUME ~dry, NEW a \in Accounts, NEW i \in 1..Calls(scope),
                      Matches(scope, i, a)
               PROVE  /\ i < call => HasRows(a, at[a])'
                      /\ i = call => at'[a] = slot' /\ HasOrSends(a, slot)'
    BY <1>2 DEF PagesOK, Matches
  <2>1. CASE i < call
    <3>1. at'[a] = at[a] /\ at[a] \in Nat
      BY <1>1, <1>7, <2>1 DEF JobOK
    <3>2. HasRows(a, at[a])
      BY <1>2, <2>1 DEF PagesOK
    <3> QED
      BY <1>2, <1>8, <2>1, <3>1, <3>2 DEF HasRows, Stored
  <2>2. CASE i = call
    BY <1>1, <1>2, <1>3, <1>6, <1>8, <2>2 DEF HasOrSends
  <2>3. CASE i > call
    BY <2>3 DEF JobOK
  <2> QED
    BY <2>1, <2>2, <2>3 DEF JobOK
<1> QED
  BY <1>4, <1>5, <1>9

LEMMA InsertKeeps ==
  ASSUME BackInv, NEW t \in Tables, NEW chunk \in SUBSET unsent[t], Insert(t, chunk)
  PROVE  BackInv'
<1> USE DEF BackInv
<1>1. /\ pc = "insert" /\ UNCHANGED <<chain, stream, pc, scope, dry, call, slot, at>>
      /\ rows' = rows \cup Chunk(t, chunk)
      /\ unsent' = [unsent EXCEPT ![t] = @ \ chunk]
  BY DEF Insert, Pending, Rest
<1>2. JobOK'
  BY <1>1 DEF JobOK, Calls
<1>3. DatesOK'
  BY <1>1 DEF DatesOK
<1>4. \A a \in Accounts : \A x \in Nat : StateAt(a, x)' = StateAt(a, x)
  BY <1>1 DEF StateAt, WritesTo
<1>5. ASSUME NEW u \in Tables, NEW a, a \in unsent[u] \/ Stored(u, a, slot)
      PROVE  a \in unsent'[u] \/ Stored(u, a, slot)'
  <2>1. CASE Stored(u, a, slot)
    BY <1>1, <2>1, StoredStays
  <2>2. CASE a \in unsent[u] /\ ~(u = t /\ a \in chunk)
    BY <1>1, <2>2 DEF JobOK
  <2>3. CASE u = t /\ a \in chunk
    <3>1. \E r \in rows' : /\ r.table = t /\ r.account = a /\ r.slot = slot
                           /\ r.write_version = SNAPSHOT_WRITE_VERSION
      BY <1>1, <2>3, ChunkStores
    <3> QED
      BY <1>1, <2>3, <3>1 DEF Stored, SNAPSHOT_WRITE_VERSION
  <2> QED
    BY <1>5, <2>1, <2>2, <2>3
<1>6. ASSUME NEW a \in Accounts, NEW x \in Nat, HasRows(a, x)
      PROVE  HasRows(a, x)'
  BY <1>1, <1>4, <1>6, StoredStays DEF HasRows
<1>7. ASSUME NEW a \in Accounts, HasOrSends(a, slot)
      PROVE  HasOrSends(a, slot)'
  BY <1>1, <1>4, <1>5, <1>7 DEF HasOrSends, Decoded, Tables, JobOK
<1>8. PagesOK'
  BY <1>1, <1>6, <1>7 DEF PagesOK, Matches, Calls, JobOK
<1> QED
  BY <1>2, <1>3, <1>8

LEMMA EndPageKeeps == BackInv /\ EndPage => BackInv'
<1> SUFFICES ASSUME BackInv, EndPage PROVE BackInv'
  OBVIOUS
<1> USE DEF BackInv
<1>1. /\ pc = "insert" /\ UNCHANGED <<chain, stream, store, scope, dry, unsent, at>>
      /\ call' = call + 1 /\ slot' = 0
      /\ pc' = IF call < Calls(scope) THEN "fetch" ELSE "record"
      /\ \A t \in Tables : unsent[t] = {}
  BY DEF EndPage
<1>2. scope \in {"known", "all"} /\ Calls(scope) \in Nat /\ call \in 1..Calls(scope)
  BY <1>1, SnapshotAssumption DEF JobOK, Calls
<1>3. JobOK'
  BY <1>1, <1>2 DEF JobOK, Calls
<1>4. DatesOK'
  BY <1>1, <1>2 DEF DatesOK
<1>5. \A a \in Accounts : \A x \in Nat : HasRows(a, x) => HasRows(a, x)'
  BY <1>1 DEF HasRows, Stored, StateAt, WritesTo
<1>6. ASSUME NEW a \in Accounts, HasOrSends(a, slot)
      PROVE  HasRows(a, slot)
  BY <1>1, <1>6 DEF HasOrSends, HasRows, Decoded, Tables
<1>7. PagesOK'
  <2> SUFFICES ASSUME ~dry, NEW a \in Accounts, NEW i \in 1..Calls(scope),
                      Matches(scope, i, a)
               PROVE  i < call + 1 => HasRows(a, at[a])'
    BY <1>1, <1>2 DEF PagesOK, Matches, Calls
  <2>1. CASE i < call
    BY <1>1, <1>5, <2>1 DEF PagesOK, JobOK
  <2>2. CASE i = call
    BY <1>1, <1>5, <1>6, <2>2 DEF PagesOK, JobOK
  <2> QED
    BY <1>2, <2>1, <2>2
<1> QED
  BY <1>3, <1>4, <1>7

(* A process that ends holds nothing, and promises nothing.                *)
LEMMA EndsKeeps == BackInv /\ Ends /\ UNCHANGED chain => BackInv'
  BY DEF Ends, BackInv, JobOK, DatesOK, PagesOK

LEMMA StartKeeps == BackInv /\ Start => BackInv'
<1> SUFFICES ASSUME BackInv, Start PROVE BackInv'
  OBVIOUS
<1> USE SnapshotAssumption DEF Start, BackInv
<1>1. scope' \in {"known", "all"} /\ 1 \in 1..Calls(scope')
  BY DEF Calls
<1>2. JobOK'
  BY <1>1 DEF JobOK, Calls
<1>3. DatesOK' /\ PagesOK'
  BY DEF DatesOK, PagesOK
<1> QED
  BY <1>2, <1>3

LEMMA BackStep == BackInv /\ [Next]_vars => BackInv'
<1> SUFFICES ASSUME BackInv, [Next]_vars PROVE BackInv'
  OBVIOUS
<1>1. CASE \E a \in Accounts, open \in BOOLEAN : Write(a, open)
  BY <1>1, OthersKeep DEF Write, BackInv, JobOK
<1>2. CASE NewSlot \/ Streams \/ StreamLoses \/ UNCHANGED vars
  BY <1>2, OthersKeep, RowsGrow
     DEF NewSlot, Streams, StreamLoses, vars, BackInv, JobOK
<1>3. CASE Job
  <2>1. CASE EndsUnrecorded \/ RecordRun \/ RunFails
    BY <2>1, EndsKeeps DEF EndsUnrecorded, RecordRun, RunFails
  <2> QED
    BY <1>3, <2>1, StartKeeps, FetchKeeps, EndPageKeeps, InsertKeeps DEF Job
<1> QED
  BY <1>1, <1>2, <1>3 DEF Next

-----------------------------------------------------------------------------
(* When a run is recorded, every account in scope has been through a page, *)
(* and has the rows its answer called for.                                 *)
LEMMA RecordIsBacked ==
  ASSUME BackInv, pc = "record", ~dry, Record, UNCHANGED <<chain, rows>>,
         NEW sp \in spans' \ spans, NEW a \in Accounts, InScope(sp.scope, a)
  PROVE  HasRows(a, sp.at[a])
<1>1. sp.scope = scope /\ sp.at = at
  BY DEF Record
<1>2. PICK i \in 1..Calls(scope) : Matches(scope, i, a)
  BY <1>1, CallsCover DEF BackInv, JobOK
<1> QED
  BY <1>1, <1>2 DEF BackInv, PagesOK

(* A recorded run is backed: whatever fails, is written or is lost         *)
(* meanwhile, the run row appears only when every account in scope that    *)
(* was there has its raw row and, if it decodes, its decoded row.          *)
THEOREM RunsAreBacked == Spec => RecordedRunIsBacked
<1> DEFINE Backed ==
      \A sp \in spans' \ spans : \A a \in Accounts :
        InScope(sp.scope, a) /\ StateAt(a, sp.at[a]) # 0 =>
          /\ Stored("account_updates", a, sp.at[a])
          /\ KindOf[a] \in Kinds /\ a \in Decodes => Stored(KindOf[a], a, sp.at[a])
<1>1. BackInv /\ [Next]_vars => [Backed]_vars
  <2> SUFFICES ASSUME BackInv, Next PROVE Backed
    BY DEF vars
  <2>1. CASE RecordRun
    BY <2>1, RecordIsBacked DEF RecordRun, HasRows, Decoded
  <2>2. CASE RunFails
    BY <2>2, RecordIsBacked DEF RunFails, HasRows, Decoded
  <2>3. CASE UNCHANGED spans
    BY <2>3
  <2> QED
    BY <2>1, <2>2, <2>3
       DEF Next, Write, NewSlot, Streams, StreamLoses, Job, Start, Fetch, EndPage,
           EndsUnrecorded, Insert
<1> QED
  BY <1>1, BackInit, BackStep, PTL DEF Spec, RecordedRunIsBacked

-----------------------------------------------------------------------------
(* Largest elements.                                                       *)

LEMMA LeastExists ==
  ASSUME NEW T \in SUBSET Nat, T # {} PROVE \E x \in T : \A y \in T : x <= y
<1>1. PICK x \in T : \A y \in T : ~ (<<y, x>> \in OpToRel(<, Nat))
  BY NatLessThanWellFounded, WFMin
<1>2. \A y \in T : ~ (y < x) BY <1>1 DEF OpToRel
<1> QED BY <1>2

LEMMA GreatestExists ==
  ASSUME NEW T \in SUBSET Nat, T # {}, NEW b \in Nat, \A x \in T : x <= b
  PROVE  \E x \in T : \A y \in T : y <= x
<1> DEFINE D == {b - x : x \in T}
<1>0. \A x \in T : x \in Nat /\ b - x \in Nat OBVIOUS
<1>1. D \in SUBSET Nat /\ D # {} BY <1>0
<1>2. PICK d \in D : \A e \in D : d <= e BY <1>1, LeastExists
<1>3. PICK x \in T : d = b - x BY <1>2
<1>4. \A y \in T : b - x <= b - y BY <1>2, <1>3
<1> QED BY <1>4

-----------------------------------------------------------------------------
(* The ledger: versions name writes and follow the slots.                  *)

Writes == [account : Accounts, slot : Nat, version : Nat, open : BOOLEAN]

LedgerOK ==
  /\ ledger \subseteq Writes /\ version \in Nat /\ version > 0 /\ tip \in Nat
  /\ \A w \in ledger : 2 <= w.version /\ w.version <= version /\ w.slot <= tip
  /\ \A v, w \in ledger :
       /\ v.version = w.version => v = w
       /\ v.version < w.version => v.slot <= w.slot

(* The last write up to a slot decides what the account holds there.       *)
LEMMA LastWrite ==
  ASSUME LedgerOK, NEW a, NEW s, WritesTo(a, s) # {}
  PROVE  \E w \in WritesTo(a, s) :
           /\ \A v \in WritesTo(a, s) : v.version <= w.version
           /\ StateAt(a, s) = IF w.open THEN w.version ELSE 0
<1> DEFINE W == WritesTo(a, s)
           IsLast(w) == \A v \in W : v.version <= w.version
           c == CHOOSE w \in W : IsLast(w)
<1>1. W \subseteq ledger BY DEF WritesTo
<1> DEFINE T == {w.version : w \in W}
<1>2. T \in SUBSET Nat /\ T # {} /\ \A x \in T : x <= version
  BY <1>1 DEF LedgerOK, Writes
<1>3. PICK x \in T : \A y \in T : y <= x
  BY <1>2, GreatestExists DEF LedgerOK
<1>4. \E w \in W : IsLast(w) BY <1>3
<1>5. c \in W /\ IsLast(c) BY <1>4
<1>6. StateAt(a, s) = IF c.open THEN c.version ELSE 0 BY DEF StateAt
<1> HIDE DEF c
<1> QED BY <1>5, <1>6

LEMMA StateType ==
  ASSUME LedgerOK, NEW a, NEW s PROVE StateAt(a, s) \in Nat
<1>1. CASE WritesTo(a, s) = {} BY <1>1 DEF StateAt
<1>2. CASE WritesTo(a, s) # {}
  BY <1>2, LastWrite DEF WritesTo, LedgerOK, Writes
<1> QED BY <1>1, <1>2

(* What is written between two slots is all that can tell them apart.      *)
LEMMA StateBetween ==
  ASSUME LedgerOK, NEW a, NEW r \in Nat, NEW s \in Nat, r <= s,
         \A w \in ledger : w.account = a /\ w.slot <= s => w.slot <= r
  PROVE  StateAt(a, r) = StateAt(a, s)
<1>1. WritesTo(a, r) = WritesTo(a, s) BY DEF WritesTo, LedgerOK, Writes
<1> QED BY <1>1 DEF StateAt

LEMMA LedgerStep ==
  ASSUME LedgerOK, [Next]_vars PROVE LedgerOK'
<1> USE DEF LedgerOK
<1>1. CASE \E a \in Accounts, open \in BOOLEAN : Write(a, open)
  <2>1. PICK a \in Accounts, open \in BOOLEAN : Write(a, open) BY <1>1
  <2> DEFINE new == [account |-> a, slot |-> tip, version |-> version + 1, open |-> open]
  <2>2. /\ ledger' = ledger \cup {new} /\ version' = version + 1 /\ tip' = tip
        /\ new \in Writes
    BY <2>1 DEF Write, Writes
  <2>3. new.version = version + 1 /\ new.slot = tip OBVIOUS
  <2> HIDE DEF new
  <2>4. \A w \in ledger : w.version \in Nat /\ w.version < new.version
    BY <2>3 DEF Writes
  <2>5. \A v, w \in ledger' :
          /\ v.version = w.version => v = w
          /\ v.version < w.version => v.slot <= w.slot
    BY <2>2, <2>3, <2>4
  <2>6. \A w \in ledger' : 2 <= w.version /\ w.version <= version' /\ w.slot <= tip'
    BY <2>2, <2>3, <2>4
  <2> QED BY <2>2, <2>5, <2>6
<1>2. CASE NewSlot
  <2>1. \A w \in ledger : w.slot \in Nat BY DEF Writes
  <2> QED BY <1>2, <2>1 DEF NewSlot
<1>3. CASE Streams \/ StreamLoses \/ Job \/ UNCHANGED vars
  BY <1>3 DEF Streams, StreamLoses, Job, Start, Fetch, EndPage, EndsUnrecorded,
              RecordRun, RunFails, Insert, vars
<1> QED BY <1>1, <1>2, <1>3 DEF Next

-----------------------------------------------------------------------------
(* Types.                                                                  *)

LEMMA CountsType ==
  ASSUME NEW listed \in SUBSET Accounts
  PROVE  /\ Cardinality(listed) \in Nat
         /\ \A s \in SUBSET listed : Cardinality(s) \in Nat
BY SnapshotAssumption, FS_Subset, FS_CardinalityType

LEMMA CountMore ==
  ASSUME NEW c \in Counts, NEW n \in Nat
  PROVE  [c EXCEPT !.rows_written = n] \in Counts
BY DEF Counts

LEMMA EndsType ==
  ASSUME Ends
  PROVE  /\ pc' = "idle" /\ scope' = "none" /\ dry' \in BOOLEAN
         /\ call' \in 1..(Calls(scope') + 1)
         /\ slot' \in Nat /\ unsent' \in [Tables -> SUBSET Accounts]
         /\ page' \in Counts /\ totals' \in Counts /\ at' \in [Accounts -> Nat]
<1>1. Zero \in Counts BY DEF Zero, Counts
<1>2. 1 \in 1..(Calls("none") + 1) BY DEF Calls
<1>3. unsent' \in [Tables -> SUBSET Accounts] /\ at' \in [Accounts -> Nat] BY DEF Ends
<1> QED BY <1>1, <1>2, <1>3 DEF Ends

RowType == [table : Tables, account : Accounts, slot : Nat, write_version : Nat,
            content : Nat]

LEMMA ChunkType ==
  ASSUME TypeOK, LedgerOK, NEW t \in Tables, NEW chunk \in SUBSET Accounts
  PROVE  Chunk(t, chunk) \subseteq RowType
BY StateType DEF Chunk, Row, DateOf, SNAPSHOT_WRITE_VERSION, RowType, TypeOK

StreamType == streamed \in 1..version /\ lost \subseteq 2..streamed /\ started \in Nat

JobType ==
  /\ pc \in {"idle", "fetch", "insert", "record"} /\ scope \in Scopes \cup {"none"}
  /\ dry \in BOOLEAN /\ call \in 1..(Calls(scope) + 1)
  /\ pc = "fetch" => call <= Calls(scope)
  /\ slot \in Nat /\ unsent \in [Tables -> SUBSET Accounts]
  /\ page \in Counts /\ totals \in Counts /\ at \in [Accounts -> Nat]

LEMMA TypeParts ==
  TypeOK <=> /\ ledger \subseteq Writes /\ tip \in Nat /\ version \in Nat
             /\ StreamType /\ rows \subseteq RowType /\ JobType
BY DEF TypeOK, StreamType, JobType, Writes, RowType

LEMMA StreamTypeStep ==
  ASSUME StreamType, version \in Nat, [Next]_vars PROVE StreamType'
<1> USE DEF StreamType
<1>1. CASE UNCHANGED <<streamed, lost>> /\ version' \in Nat /\ version' >= version
           /\ started' \in Nat
  BY <1>1
<1>2. CASE Streams \/ StreamLoses
  <2>1. /\ streamed < version /\ streamed' = streamed + 1 /\ version' = version
        /\ started' = started /\ (lost' = lost \/ lost' = lost \cup {streamed + 1})
    BY <1>2 DEF Streams, StreamLoses
  <2>2. streamed' \in 1..version' BY <2>1
  <2>3. 2..streamed \subseteq 2..streamed' /\ streamed + 1 \in 2..streamed' BY <2>1
  <2> QED BY <2>1, <2>2, <2>3
<1>3. CASE (\E a \in Accounts, open \in BOOLEAN : Write(a, open)) \/ NewSlot \/ UNCHANGED vars
  BY <1>1, <1>3 DEF Write, NewSlot, vars
<1>4. CASE Job
  BY <1>1, <1>4 DEF Job, Start, Fetch, EndPage, EndsUnrecorded, RecordRun, RunFails, Insert
<1> QED BY <1>2, <1>3, <1>4 DEF Next

LEMMA RowTypeStep ==
  ASSUME TypeOK, LedgerOK, [Next]_vars PROVE rows' \subseteq RowType
<1>0. rows \subseteq RowType BY DEF TypeOK, RowType
<1>1. CASE rows' = rows BY <1>0, <1>1
<1>2. ASSUME NEW t \in Tables, NEW chunk \in SUBSET unsent[t], rows' = rows \cup Chunk(t, chunk)
      PROVE  rows' \subseteq RowType
  <2>1. chunk \in SUBSET Accounts BY DEF TypeOK
  <2> QED BY <1>0, <1>2, <2>1, ChunkType
<1>3. CASE Streams
  <2>1. PICK w \in ledger :
          rows' = rows \cup
            (IF w.open
             THEN {Row("account_updates", w.account, w.slot, w.version, w.version)}
             ELSE {})
    BY <1>3 DEF Streams
  <2>2. w \in Writes BY DEF LedgerOK
  <2>3. Row("account_updates", w.account, w.slot, w.version, w.version) \in RowType
    BY <2>2 DEF Writes, Row, RowType, Tables
  <2> QED BY <1>0, <2>1, <2>3
<1>4. CASE RunFails
  <2>1. rows' = rows \/ \E t \in Tables : \E chunk \in SUBSET unsent[t] :
                           rows' = rows \cup Chunk(t, chunk)
    BY <1>4 DEF RunFails
  <2> QED BY <1>1, <1>2, <2>1
<1>5. ASSUME NEW t \in Tables, NEW chunk \in SUBSET unsent[t], Insert(t, chunk)
      PROVE  rows' \subseteq RowType
  BY <1>2, <1>5 DEF Insert
<1>6. CASE (\E a \in Accounts, open \in BOOLEAN : Write(a, open)) \/ NewSlot \/ StreamLoses
           \/ UNCHANGED vars
  BY <1>1, <1>6 DEF Write, NewSlot, StreamLoses, vars
<1>7. CASE Start \/ Fetch \/ EndPage \/ EndsUnrecorded \/ RecordRun
  BY <1>1, <1>7 DEF Start, Fetch, EndPage, EndsUnrecorded, RecordRun
<1> QED BY <1>3, <1>4, <1>5, <1>6, <1>7 DEF Next, Job

LEMMA JobTypeStep ==
  ASSUME TypeOK, BackInv, LedgerOK, [Next]_vars PROVE JobType'
<1> USE DEF JobType
<1>0. JobType /\ tip \in Nat BY TypeParts
<1>1. CASE UNCHANGED job
  BY <1>0, <1>1 DEF Calls
<1>2. CASE Ends BY <1>2, EndsType
<1>4. CASE Start
  <2>1. /\ scope' \in Scopes /\ dry' \in BOOLEAN /\ pc' = "fetch" /\ call' = 1
        /\ UNCHANGED <<slot, unsent, page, totals, at>>
    BY <1>4 DEF Start
  <2>2. 1 \in 1..Calls(scope') /\ Calls(scope') \in Nat
    BY SnapshotAssumption DEF Calls
  <2> QED BY <1>0, <2>1, <2>2
<1>5. CASE Fetch
  <2>1. PICK s \in 0..(tip - 1) :
          LET listed == {a \in Accounts : Matches(scope, call, a) /\ StateAt(a, s) # 0}
              known  == {a \in listed : KindOf[a] \in Kinds}
          IN  /\ slot' = s
              /\ unsent' =
                   [t \in Tables |->
                      IF dry THEN {}
                      ELSE IF t = "account_updates" THEN listed
                      ELSE {a \in known \cap Decodes : KindOf[a] = t}]
              /\ page' = [accounts |-> Cardinality(listed), rows_written |-> 0,
                          decode_failures |-> Cardinality(known \ Decodes),
                          max_slot |-> s]
              /\ at' = [a \in Accounts |-> IF Matches(scope, call, a) THEN s ELSE at[a]]
    BY <1>5 DEF Fetch
  <2>2. unsent' \in [Tables -> SUBSET Accounts] BY <2>1
  <2>3. page' \in Counts BY <1>0, <2>1, CountsType DEF Counts
  <2>4. slot' \in Nat /\ at' \in [Accounts -> Nat] BY <1>0, <2>1
  <2>5. pc' = "insert" /\ UNCHANGED <<scope, dry, call, totals>> BY <1>5 DEF Fetch
  <2> QED BY <1>0, <2>2, <2>3, <2>4, <2>5 DEF Calls
<1>6. CASE EndPage
  <2>1. call \in 1..Calls(scope) /\ Calls(scope) \in Nat
    BY <1>6, SnapshotAssumption DEF EndPage, BackInv, JobOK, Calls
  <2>2. totals' \in Counts /\ page' \in Counts
    BY <1>0, <1>6 DEF EndPage, Absorb, Counts, Zero
  <2>3. /\ scope' = scope /\ call' = call + 1 /\ slot' = 0
        /\ pc' = IF call < Calls(scope) THEN "fetch" ELSE "record"
        /\ UNCHANGED <<dry, unsent, at>>
    BY <1>6 DEF EndPage
  <2>4. call' \in 1..(Calls(scope') + 1) /\ (pc' = "fetch" => call' <= Calls(scope'))
    BY <2>1, <2>3
  <2> QED BY <1>0, <2>2, <2>3, <2>4
<1>9. ASSUME NEW t \in Tables, NEW chunk \in SUBSET unsent[t], Insert(t, chunk)
      PROVE  JobType'
  <2>1. /\ unsent' = [unsent EXCEPT ![t] = @ \ chunk]
        /\ pc = "insert" /\ UNCHANGED <<pc, scope, dry, call, slot, totals, at>>
    BY <1>9 DEF Insert, Rest, Pending
  <2>2. page' = [page EXCEPT !.rows_written = @ + Cardinality(chunk)]
    BY <1>9 DEF Insert
  <2>3. Cardinality(chunk) \in Nat BY <1>0, CountsType
  <2>4. page' \in Counts
    <3>1. page.rows_written + Cardinality(chunk) \in Nat BY <1>0, <2>3 DEF Counts
    <3> QED BY <1>0, <2>2, <3>1, CountMore, Zenon
  <2>5. unsent' \in [Tables -> SUBSET Accounts] BY <1>0, <2>1
  <2> QED BY <1>0, <2>1, <2>4, <2>5 DEF Calls
<1> QED BY <1>1, <1>2, <1>4, <1>5, <1>6, <1>9
        DEF Next, Write, NewSlot, Streams, StreamLoses, vars, Job, EndsUnrecorded,
            RecordRun, RunFails

LEMMA TypeStep ==
  ASSUME TypeOK, BackInv, LedgerOK, [Next]_vars PROVE TypeOK'
<1>1. StreamType' /\ rows' \subseteq RowType /\ JobType'
  BY TypeParts, StreamTypeStep, RowTypeStep, JobTypeStep
<1>2. ledger' \subseteq Writes /\ tip' \in Nat /\ version' \in Nat
  BY LedgerStep DEF LedgerOK
<1> QED BY <1>1, <1>2 DEF TypeOK, StreamType, JobType, Writes, RowType

LEMMA TypeInit == Init => TypeOK /\ LedgerOK
<1> SUFFICES ASSUME Init PROVE TypeOK /\ LedgerOK
  OBVIOUS
<1>1. LedgerOK BY DEF Init, LedgerOK
<1>2. Zero \in Counts BY DEF Zero, Counts
<1>3. StreamType BY DEF Init, StreamType
<1>4. JobType
  <2>1. /\ pc = "idle" /\ scope = "none" /\ dry = FALSE /\ call = 1 /\ slot = 0
        /\ page \in Counts /\ totals \in Counts
    BY <1>2 DEF Init
  <2>2. unsent \in [Tables -> SUBSET Accounts] BY DEF Init
  <2>3. at \in [Accounts -> Nat] BY DEF Init
  <2>4. 1 \in 1..(Calls("none") + 1) BY DEF Calls
  <2> QED BY <2>1, <2>2, <2>3, <2>4 DEF JobType
<1>5. ledger \subseteq Writes /\ tip \in Nat /\ version \in Nat /\ rows \subseteq RowType
  BY DEF Init
<1> QED BY <1>1, <1>3, <1>4, <1>5, TypeParts

(* Every variable keeps its type, and a call that is still to be made      *)
(* exists.                                                                 *)
THEOREM TypeCorrect == Spec => []TypeOK
<1>1. BackInv /\ LedgerOK /\ TypeOK /\ [Next]_vars =>
        (BackInv /\ LedgerOK /\ TypeOK)'
  BY BackStep, LedgerStep, TypeStep
<1> QED BY <1>1, BackInit, TypeInit, PTL DEF Spec

-----------------------------------------------------------------------------
(* A run of the known kinds: two rows are due for an account that decodes, *)
(* one for an account that does not, and what is not inserted yet is still *)
(* to be sent.                                                             *)
Left == Cardinality(unsent["account_updates"]) + Cardinality(unsent["Obligation"])
          + Cardinality(unsent["Reserve"]) + Cardinality(unsent["LendingMarket"])

SumOK ==
  /\ RunsAddUp
  /\ pc = "idle" => totals = Zero
  /\ pc # "idle" /\ scope = "known" /\ ~dry =>
       /\ totals.rows_written = 2 * totals.accounts - totals.decode_failures
       /\ pc = "insert" =>
            page.rows_written + Left = 2 * page.accounts - page.decode_failures

LEMMA TwoParts ==
  ASSUME NEW A \in SUBSET Accounts, NEW B \in SUBSET Accounts, A \cap B = {}
  PROVE  /\ Cardinality(A \cup B) = Cardinality(A) + Cardinality(B)
         /\ Cardinality(A) \in Nat /\ Cardinality(B) \in Nat
<1>1. IsFiniteSet(A) /\ IsFiniteSet(B)
  BY SnapshotAssumption, FS_Subset
<1>2. Cardinality(A) \in Nat /\ Cardinality(B) \in Nat
  BY <1>1, FS_CardinalityType
<1>3. Cardinality(A \cap B) = 0
  BY FS_EmptySet
<1>4. Cardinality(A \cup B) = Cardinality(A) + Cardinality(B) - Cardinality(A \cap B)
  BY <1>1, FS_Union
<1> QED
  BY <1>2, <1>3, <1>4

(* The rows of a page are one per account and one more per decoded one.    *)
LEMMA PageAddsUp ==
  ASSUME NEW listed \in SUBSET Accounts, \A a \in listed : KindOf[a] \in Kinds
  PROVE  LET D(t) == {a \in listed \cap Decodes : KindOf[a] = t}
         IN  Cardinality(listed) + Cardinality(D("Obligation")) + Cardinality(D("Reserve"))
               + Cardinality(D("LendingMarket"))
             = 2 * Cardinality(listed) - Cardinality(listed \ Decodes)
<1> DEFINE D(t) == {a \in listed \cap Decodes : KindOf[a] = t}
           good == listed \cap Decodes
           bad == listed \ Decodes
           O == D("Obligation")
           R == D("Reserve")
           M == D("LendingMarket")
           RM == R \cup M
<1>a. /\ good \in SUBSET Accounts /\ bad \in SUBSET Accounts
      /\ listed = good \cup bad /\ good \cap bad = {}
  OBVIOUS
<1>b. /\ O \in SUBSET Accounts /\ RM \in SUBSET Accounts
      /\ good = O \cup RM /\ O \cap RM = {}
  BY DEF Kinds
<1>c. /\ R \in SUBSET Accounts /\ M \in SUBSET Accounts
      /\ RM = R \cup M /\ R \cap M = {}
  OBVIOUS
<1> HIDE DEF good, bad, O, R, M, RM
<1>2. /\ Cardinality(listed) = Cardinality(good) + Cardinality(bad)
      /\ Cardinality(good) \in Nat /\ Cardinality(bad) \in Nat
  BY <1>a, TwoParts
<1>3. Cardinality(good) = Cardinality(O) + Cardinality(RM) /\ Cardinality(O) \in Nat
  BY <1>b, TwoParts
<1>4. /\ Cardinality(RM) = Cardinality(R) + Cardinality(M)
      /\ Cardinality(R) \in Nat /\ Cardinality(M) \in Nat
  BY <1>c, TwoParts
<1>5. Cardinality(listed) + Cardinality(O) + Cardinality(R) + Cardinality(M)
      = 2 * Cardinality(listed) - Cardinality(bad)
  BY <1>2, <1>3, <1>4
<1> QED
  BY <1>5 DEF O, R, M, bad

LEMMA RecordAddsUp ==
  ASSUME SumOK, pc = "record", ~dry, Record PROVE RunsAddUp'
<1>1. ASSUME NEW r \in runs', r.scope = "known", r \notin runs
      PROVE  r.rows_written = 2 * r.accounts - r.decode_failures
  BY <1>1 DEF Record, SumOK
<1> QED
  BY <1>1 DEF Record, SumOK, RunsAddUp

LEMMA SumStep ==
  ASSUME SumOK, TypeOK, [Next]_vars PROVE SumOK'
<1>1. CASE UNCHANGED job /\ runs' = runs
  BY <1>1 DEF SumOK, RunsAddUp, Left, Zero
<1>2. CASE Ends /\ RunsAddUp'
  BY <1>2 DEF Ends, SumOK
<1>3. CASE Start
  <2>1. pc = "idle" /\ pc' = "fetch" /\ totals' = totals /\ runs' = runs
    BY <1>3 DEF Start
  <2>2. totals'.rows_written = 2 * totals'.accounts - totals'.decode_failures
    BY <2>1 DEF SumOK, Zero
  <2> QED
    BY <2>1, <2>2 DEF SumOK, RunsAddUp
<1>4. CASE Fetch
  <2> DEFINE listed(s) == {a \in Accounts : Matches(scope, call, a) /\ StateAt(a, s) # 0}
  <2>1. PICK s \in 0..(tip - 1) :
          LET known  == {a \in listed(s) : KindOf[a] \in Kinds}
          IN  /\ unsent' =
                   [t \in Tables |->
                      IF dry THEN {}
                      ELSE IF t = "account_updates" THEN listed(s)
                      ELSE {a \in known \cap Decodes : KindOf[a] = t}]
              /\ page' = [accounts |-> Cardinality(listed(s)), rows_written |-> 0,
                          decode_failures |-> Cardinality(known \ Decodes),
                          max_slot |-> s]
    BY <1>4 DEF Fetch
  <2>2. /\ pc = "fetch" /\ pc' = "insert"
        /\ UNCHANGED <<scope, dry, totals, runs>>
    BY <1>4 DEF Fetch
  <2> SUFFICES ASSUME scope = "known", ~dry
               PROVE  page'.rows_written + Left' = 2 * page'.accounts - page'.decode_failures
    BY <2>2 DEF SumOK, RunsAddUp
  <2> DEFINE l == listed(s)
  <2>3. l \in SUBSET Accounts /\ \A a \in l : KindOf[a] \in Kinds
    BY DEF Matches, Kinds
  <2>4. {a \in l : KindOf[a] \in Kinds} = l
    BY <2>3
  <2>5. /\ unsent'["account_updates"] = l
        /\ \A t \in Kinds : unsent'[t] = {a \in l \cap Decodes : KindOf[a] = t}
        /\ page'.rows_written = 0 /\ page'.accounts = Cardinality(l)
        /\ page'.decode_failures = Cardinality(l \ Decodes)
    BY <2>1, <2>4 DEF Tables, Kinds
  <2> HIDE DEF l
  <2>6. Left' = 2 * Cardinality(l) - Cardinality(l \ Decodes)
    BY <2>3, <2>5, PageAddsUp DEF Left, Kinds
  <2>7. Cardinality(l) \in Nat /\ Cardinality(l \ Decodes) \in Nat
    BY <2>3, CountsType
  <2> QED
    BY <2>5, <2>6, <2>7
<1>5. CASE EndPage
  <2>1. /\ pc = "insert" /\ pc' # "idle" /\ pc' # "insert"
        /\ \A t \in Tables : unsent[t] = {}
        /\ UNCHANGED <<scope, dry, runs>>
        /\ totals'.rows_written = totals.rows_written + page.rows_written
        /\ totals'.accounts = totals.accounts + page.accounts
        /\ totals'.decode_failures = totals.decode_failures + page.decode_failures
    BY <1>5 DEF EndPage, Absorb
  <2>2. Left = 0
    BY <2>1, FS_EmptySet DEF Left, Tables, Kinds
  <2>3. totals \in Counts /\ page \in Counts
    BY DEF TypeOK
  <2> QED
    BY <2>1, <2>2, <2>3 DEF SumOK, RunsAddUp, Counts
<1>6. ASSUME NEW t \in Tables, NEW chunk \in SUBSET unsent[t], Insert(t, chunk)
      PROVE  SumOK'
  <2>1. /\ pc = "insert" /\ UNCHANGED <<pc, scope, dry, totals, runs>>
        /\ unsent' = [unsent EXCEPT ![t] = @ \ chunk]
        /\ page' = [page EXCEPT !.rows_written = @ + Cardinality(chunk)]
    BY <1>6 DEF Insert, Rest, Pending
  <2>2. unsent \in [Tables -> SUBSET Accounts] /\ page \in Counts
    BY DEF TypeOK
  <2>3. /\ page'.rows_written = page.rows_written + Cardinality(chunk)
        /\ page'.accounts = page.accounts /\ page'.decode_failures = page.decode_failures
    BY <2>1, <2>2, Zenon DEF Counts
  <2>4. /\ chunk \in SUBSET Accounts /\ unsent[t] \ chunk \in SUBSET Accounts
        /\ unsent[t] = chunk \cup (unsent[t] \ chunk)
        /\ chunk \cap (unsent[t] \ chunk) = {}
    BY <2>2
  <2>5. /\ Cardinality(unsent[t]) = Cardinality(chunk) + Cardinality(unsent[t] \ chunk)
        /\ Cardinality(chunk) \in Nat /\ Cardinality(unsent[t] \ chunk) \in Nat
    BY <2>4, TwoParts
  <2>6. \A u \in Tables : Cardinality(unsent[u]) \in Nat
    BY <2>2, CountsType
  <2>7. Left' + Cardinality(chunk) = Left /\ Left' \in Int /\ Left \in Int
    BY <2>1, <2>2, <2>5, <2>6 DEF Left, Tables, Kinds
  <2> QED
    BY <2>1, <2>2, <2>3, <2>5, <2>7 DEF SumOK, RunsAddUp, Counts
<1>7. CASE EndsUnrecorded \/ RecordRun \/ RunFails
  <2>1. Ends
    BY <1>7 DEF EndsUnrecorded, RecordRun, RunFails
  <2>2. runs' = runs \/ (pc = "record" /\ ~dry /\ Record)
    BY <1>7 DEF EndsUnrecorded, RecordRun, RunFails
  <2> QED
    BY <1>2, <2>1, <2>2, RecordAddsUp DEF SumOK, RunsAddUp
<1> QED
  BY <1>1, <1>3, <1>4, <1>5, <1>6, <1>7
     DEF Next, Write, NewSlot, Streams, StreamLoses, vars, Job

(* The counts of a recorded run of the known kinds add up, however its     *)
(* pages were cut into inserts, and for any accounts and any decoder.      *)
THEOREM RunCountsAddUp == Spec => []RunsAddUp
<1>1. Init => SumOK
  BY DEF Init, SumOK, RunsAddUp
<1>2. BackInv /\ LedgerOK /\ TypeOK /\ SumOK /\ [Next]_vars =>
        (BackInv /\ LedgerOK /\ TypeOK /\ SumOK)'
  BY BackStep, LedgerStep, TypeStep, SumStep
<1>3. SumOK => RunsAddUp
  BY DEF SumOK
<1> QED
  BY <1>1, <1>2, <1>3, BackInit, TypeInit, PTL DEF Spec

-----------------------------------------------------------------------------
(* Every raw row is either an answer of a completed slot or one write.     *)
RowIsTrue(r) ==
  \/ /\ r.write_version = SNAPSHOT_WRITE_VERSION /\ r.slot < tip
     /\ r.content = StateAt(r.account, r.slot)
  \/ \E w \in ledger : /\ w.open /\ w.account = r.account /\ w.slot = r.slot
                       /\ w.version = r.write_version /\ w.version = r.content

RowsOK == \A r \in rows : r.table = "account_updates" => RowIsTrue(r)

RowOf(w) == Row("account_updates", w.account, w.slot, w.version, w.version)

(* What the stream has dealt with is stored, or counted as lost.           *)
StreamedOK ==
  \A w \in ledger : w.open /\ w.version <= streamed /\ w.version \notin lost =>
                      RowOf(w) \in rows

(* The runs recorded so far are backed still.                              *)
SpansOK ==
  \A sp \in spans : \A a \in Accounts :
    /\ sp.at[a] \in Nat /\ sp.at[a] < tip
    /\ InScope(sp.scope, a) => HasRows(a, sp.at[a])

AsOfInv == RowsOK /\ StreamedOK /\ SpansOK

LEMMA ChainStep ==
  ASSUME BackInv, LedgerOK, [Next]_vars
  PROVE  /\ [\E b \in Accounts, open \in BOOLEAN : Write(b, open)]_ledger
         /\ ledger \subseteq ledger' /\ tip \in Nat /\ tip' \in Nat /\ tip <= tip'
<1>1. CASE \E a \in Accounts, open \in BOOLEAN : Write(a, open)
  BY <1>1 DEF Write, LedgerOK
<1>2. CASE NewSlot
  BY <1>2 DEF NewSlot, LedgerOK
<1>3. CASE Streams \/ StreamLoses \/ Job \/ UNCHANGED vars
  BY <1>3 DEF Streams, StreamLoses, Job, Start, Fetch, EndPage, EndsUnrecorded,
              RecordRun, RunFails, Insert, vars, LedgerOK
<1> QED
  BY <1>1, <1>2, <1>3 DEF Next

LEMMA NewRowIsTrue ==
  ASSUME BackInv, TypeOK, LedgerOK, [Next]_vars, NEW r \in rows' \ rows,
         r.table = "account_updates"
  PROVE  RowIsTrue(r)
<1>1. ASSUME NEW t \in Tables, NEW chunk \in SUBSET unsent[t], pc = "insert",
             rows' = rows \cup Chunk(t, chunk)
      PROVE  RowIsTrue(r)
  <2>1. PICK a \in chunk : r = Row(t, a, slot, SNAPSHOT_WRITE_VERSION, StateAt(a, slot))
    BY <1>1 DEF Chunk, DateOf
  <2> QED
    BY <1>1, <2>1 DEF Row, RowIsTrue, BackInv, DatesOK
<1>2. CASE Streams
  <2>1. PICK w \in ledger : w.open /\ r = RowOf(w)
    BY <1>2 DEF Streams, RowOf
  <2> QED
    BY <2>1 DEF RowOf, Row, RowIsTrue
<1>3. CASE RunFails
  BY <1>1, <1>3 DEF RunFails, Pending
<1>4. ASSUME NEW t \in Tables, NEW chunk \in SUBSET unsent[t], Insert(t, chunk)
      PROVE  RowIsTrue(r)
  BY <1>1, <1>4 DEF Insert, Pending
<1>5. CASE rows' = rows
  BY <1>5
<1> QED
  BY <1>2, <1>3, <1>4, <1>5
     DEF Next, Write, NewSlot, StreamLoses, Job, Start, Fetch, EndPage,
         EndsUnrecorded, RecordRun, vars

LEMMA RowStaysTrue ==
  ASSUME BackInv, TypeOK, LedgerOK, [Next]_vars, NEW r \in RowType, RowIsTrue(r)
  PROVE  RowIsTrue(r)'
<1>0. r.account \in Accounts /\ r.slot \in Nat
  BY DEF RowType
<1>1. CASE r.write_version = SNAPSHOT_WRITE_VERSION /\ r.slot < tip
           /\ r.content = StateAt(r.account, r.slot)
  <2>1. StateAt(r.account, r.slot)' = StateAt(r.account, r.slot)
    BY <1>0, <1>1, ChainStep, StateStays
  <2> QED
    BY <1>0, <1>1, <2>1, ChainStep DEF RowIsTrue, SNAPSHOT_WRITE_VERSION
<1>2. CASE \E w \in ledger : /\ w.open /\ w.account = r.account /\ w.slot = r.slot
                             /\ w.version = r.write_version /\ w.version = r.content
  BY <1>2, ChainStep DEF RowIsTrue
<1> QED
  BY <1>1, <1>2 DEF RowIsTrue

LEMMA RowsStep ==
  ASSUME RowsOK, BackInv, TypeOK, LedgerOK, [Next]_vars PROVE RowsOK'
<1> SUFFICES ASSUME NEW r \in rows', r.table = "account_updates" PROVE RowIsTrue(r)'
  BY DEF RowsOK
<1>1. rows' \subseteq RowType
  BY RowTypeStep
<1>2. RowIsTrue(r)
  BY NewRowIsTrue DEF RowsOK
<1> QED
  BY <1>1, <1>2, RowStaysTrue

LEMMA StreamedStep ==
  ASSUME StreamedOK, TypeOK, LedgerOK, [Next]_vars PROVE StreamedOK'
<1>0. rows \subseteq rows' /\ streamed \in Nat /\ streamed <= version
      /\ version \in Nat /\ \A w \in ledger : w \in Writes
  BY RowsGrow DEF TypeOK, LedgerOK
<1>1. ASSUME UNCHANGED <<ledger, stream>> PROVE StreamedOK'
  BY <1>0, <1>1 DEF StreamedOK, RowOf
<1>2. ASSUME NEW a \in Accounts, NEW open \in BOOLEAN, Write(a, open) PROVE StreamedOK'
  <2>1. \A w \in ledger' : w \in ledger \/ w.version = version + 1
    BY <1>2 DEF Write
  <2>2. UNCHANGED stream
    BY <1>2 DEF Write
  <2> QED
    BY <1>0, <2>1, <2>2 DEF StreamedOK, RowOf
<1>3. CASE Streams
  <2>1. PICK w \in ledger : w.version = streamed + 1 /\ (w.open => RowOf(w) \in rows')
    BY <1>3 DEF Streams, RowOf
  <2>2. \A v \in ledger : v.version = streamed + 1 => v = w
    BY <2>1 DEF LedgerOK
  <2>3. \A v \in ledger : v.version <= streamed + 1 =>
                            v.version <= streamed \/ v.version = streamed + 1
    BY <1>0 DEF Writes
  <2>4. ledger' = ledger /\ streamed' = streamed + 1 /\ lost' = lost
    BY <1>3 DEF Streams
  <2> QED
    BY <1>0, <2>1, <2>2, <2>3, <2>4 DEF StreamedOK, RowOf
<1>4. CASE StreamLoses
  <2>3. \A v \in ledger : v.version <= streamed + 1 =>
                            v.version <= streamed \/ v.version = streamed + 1
    BY <1>0 DEF Writes
  <2> QED
    BY <1>0, <1>4, <2>3 DEF StreamLoses, StreamedOK, RowOf
<1> QED
  BY <1>1, <1>2, <1>3, <1>4
     DEF Next, NewSlot, Job, Start, Fetch, EndPage, EndsUnrecorded, RecordRun,
         RunFails, Insert, vars

LEMMA RowsHeld ==
  ASSUME BackInv, LedgerOK, [Next]_vars, NEW a \in Accounts, NEW x \in Nat, x < tip,
         HasRows(a, x)
  PROVE  HasRows(a, x)'
<1>1. StateAt(a, x)' = StateAt(a, x)
  BY ChainStep, StateStays
<1>2. rows \subseteq rows'
  BY RowsGrow
<1> QED
  BY <1>1, <1>2, StoredStays DEF HasRows

LEMMA SpansStep ==
  ASSUME SpansOK, BackInv, LedgerOK, [Next]_vars PROVE SpansOK'
<1> SUFFICES ASSUME NEW sp \in spans', NEW a \in Accounts
             PROVE  /\ sp.at[a] \in Nat /\ sp.at[a] < tip'
                    /\ InScope(sp.scope, a) => HasRows(a, sp.at[a])'
  BY DEF SpansOK, InScope
<1>1. /\ sp.at[a] \in Nat /\ sp.at[a] < tip
      /\ InScope(sp.scope, a) => HasRows(a, sp.at[a])
  <2>1. CASE sp \in spans
    BY <2>1 DEF SpansOK
  <2>2. CASE sp \notin spans
    <3>1. pc = "record" /\ ~dry /\ Record /\ UNCHANGED <<chain, rows>>
      BY <2>2 DEF Next, Write, NewSlot, Streams, StreamLoses, Job, Start, Fetch, EndPage,
                  EndsUnrecorded, RecordRun, RunFails, Insert, vars
    <3>2. InScope(sp.scope, a) => HasRows(a, sp.at[a])
      BY <2>2, <3>1, RecordIsBacked
    <3>3. sp.at = at
      BY <2>2, <3>1 DEF Record
    <3> QED
      BY <3>2, <3>3 DEF BackInv, JobOK, DatesOK
  <2> QED
    BY <2>1, <2>2
<1>2. tip \in Nat /\ tip' \in Nat /\ tip <= tip'
  BY ChainStep
<1>3. HasRows(a, sp.at[a]) => HasRows(a, sp.at[a])'
  <2> DEFINE x == sp.at[a]
  <2>1. x \in Nat /\ x < tip
    BY <1>1
  <2> HIDE DEF x
  <2>2. HasRows(a, x) => HasRows(a, x)'
    BY <2>1, RowsHeld
  <2>3. x' = x
    BY DEF x
  <2> QED
    BY <2>2, <2>3 DEF x
<1> QED
  BY <1>1, <1>2, <1>3

-----------------------------------------------------------------------------
(* A read as of a slot.                                                    *)

Above(r, q) ==
  \/ q.slot < r.slot
  \/ q.slot = r.slot /\ q.write_version <= r.write_version

(* There is a newest row when there is a row at all.                       *)
LEMMA NewestExists ==
  ASSUME TypeOK, NEW a, NEW s \in Nat, NEW b \in Nat, Visible(a, s) # {},
         \A r \in Visible(a, s) : r.write_version <= b
  PROVE  Newest(a, s) \in Visible(a, s)
         /\ \A q \in Visible(a, s) : Above(Newest(a, s), q)
<1> DEFINE V == Visible(a, s)
           S == {r.slot : r \in V}
<1>1. \A r \in V : r.slot \in Nat /\ r.write_version \in Nat /\ r.slot <= s
  BY DEF Visible, TypeOK
<1>2. S \in SUBSET Nat /\ S # {} /\ \A x \in S : x <= s
  BY <1>1
<1>3. PICK top \in S : \A x \in S : x <= top
  BY <1>2, GreatestExists
<1> DEFINE T == {r.write_version : r \in {q \in V : q.slot = top}}
<1>4. T \in SUBSET Nat /\ T # {} /\ \A x \in T : x <= b
  BY <1>1
<1>5. PICK wv \in T : \A x \in T : x <= wv
  BY <1>4, GreatestExists
<1>6. PICK r \in V : r.slot = top /\ r.write_version = wv
  OBVIOUS
<1>7. ASSUME NEW q \in V PROVE Above(r, q)
  <2>1. q.slot \in S /\ q.slot \in Nat /\ top \in Nat
    BY <1>1, <1>2
  <2>2. CASE q.slot = top
    BY <1>5, <1>6, <2>2 DEF Above
  <2>3. CASE q.slot # top
    BY <1>3, <1>6, <2>1, <2>3 DEF Above
  <2> QED
    BY <2>2, <2>3
<1>8. \E n \in V : \A q \in V : Above(n, q)
  BY <1>7
<1>9. Newest(a, s) = CHOOSE n \in V : \A q \in V : Above(n, q)
  BY DEF Newest, Above
<1> HIDE DEF V
<1> QED
  BY <1>8, <1>9 DEF V

(* At or after the last write there is a row to read: that of the write,   *)
(* or that of the snapshot when it was taken later.                        *)
LEMMA LastIsReached ==
  ASSUME LedgerOK, TypeOK, AsOfInv, NEW sp \in spans, NEW a \in Accounts,
         NEW s \in sp.at[a]..(tip - 1), InScope(sp.scope, a), DealtWith(s),
         ~LostSince(a, sp.at[a], s), NEW w \in WritesTo(a, s), w.open,
         \A v \in WritesTo(a, s) : v.version <= w.version,
         StateAt(a, s) # 0
  PROVE  \E q \in Visible(a, s) :
           w.slot < q.slot \/ (w.slot = q.slot /\ q.write_version = w.version)
<1> DEFINE p == sp.at[a]
<1>0. /\ p \in Nat /\ p <= s /\ s \in Nat /\ HasRows(a, p)
      /\ w \in ledger /\ w \in Writes /\ w.account = a /\ w.slot <= s
  BY DEF AsOfInv, SpansOK, WritesTo, LedgerOK
<1> HIDE DEF p
<1>1. CASE p <= w.slot
  <2>1. w.version <= streamed /\ w.version \notin lost
    BY <1>0, <1>1 DEF DealtWith, LostSince, p
  <2>2. RowOf(w) \in rows
    BY <1>0, <2>1 DEF AsOfInv, StreamedOK
  <2>3. RowOf(w) \in Visible(a, s)
    BY <1>0, <2>2 DEF RowOf, Row, Visible
  <2> QED
    BY <2>3 DEF RowOf, Row
<1>2. CASE w.slot < p
  <2>1. \A v \in ledger : v.account = a /\ v.slot <= s => v.slot <= p
    <3> SUFFICES ASSUME NEW v \in ledger, v.account = a, v.slot <= s
                 PROVE  v.slot <= p
      OBVIOUS
    <3>1. v \in WritesTo(a, s) /\ v \in Writes
      BY DEF WritesTo, LedgerOK
    <3>2. v.version <= w.version
      BY <3>1
    <3>3. v.slot <= w.slot
      BY <1>0, <3>1, <3>2 DEF LedgerOK, Writes
    <3> QED
      BY <1>0, <1>2, <3>1, <3>3 DEF Writes
  <2>2. StateAt(a, p) = StateAt(a, s)
    BY <1>0, <2>1, StateBetween
  <2>3. PICK q \in rows : q.table = "account_updates" /\ q.account = a /\ q.slot = p
    BY <1>0, <2>2 DEF HasRows, Stored
  <2> QED
    BY <1>0, <1>2, <2>3 DEF Visible
<1> QED
  BY <1>0, <1>1, <1>2 DEF Writes

LEMMA ReadAsOf ==
  ASSUME LedgerOK, TypeOK, AsOfInv, NEW sp \in spans, NEW a \in Accounts,
         NEW s \in sp.at[a]..(tip - 1), InScope(sp.scope, a), DealtWith(s),
         StateAt(a, s) # 0, ~LostSince(a, sp.at[a], s)
  PROVE  Visible(a, s) # {} /\ Newest(a, s).content = StateAt(a, s)
<1> DEFINE p == sp.at[a]
           n == Newest(a, s)
<1>0. p \in Nat /\ p <= s /\ s \in Nat /\ HasRows(a, p)
  BY DEF AsOfInv, SpansOK
<1> HIDE DEF p, n
<1>1. \A r \in Visible(a, s) : /\ r \in rows /\ r.account = a /\ r.slot <= s
                               /\ r.slot \in Nat /\ RowIsTrue(r)
  BY DEF Visible, AsOfInv, RowsOK, TypeOK
<1>2. \A r \in Visible(a, s) : r.write_version <= version
  BY <1>1 DEF RowIsTrue, LedgerOK, SNAPSHOT_WRITE_VERSION
<1>3. Visible(a, s) # {} => n \in Visible(a, s) /\ \A q \in Visible(a, s) : Above(n, q)
  BY <1>0, <1>2, NewestExists DEF n, LedgerOK
<1>4. CASE WritesTo(a, s) = {}
  <2>1. ASSUME NEW r \in Nat, r <= s PROVE StateAt(a, r) = StateAt(a, s)
    <3>1. \A w \in ledger : w.account = a /\ w.slot <= s => w.slot <= r
      BY <1>4 DEF WritesTo
    <3> QED
      BY <1>0, <2>1, <3>1, StateBetween
  <2>2. PICK q \in rows : q.table = "account_updates" /\ q.account = a /\ q.slot = p
    BY <1>0, <2>1 DEF HasRows, Stored
  <2>3. q \in Visible(a, s)
    BY <1>0, <2>2 DEF Visible
  <2>4. n \in Visible(a, s)
    BY <1>3, <2>3
  <2>5. n.content = StateAt(a, n.slot)
    BY <1>1, <1>4, <2>4 DEF RowIsTrue, WritesTo
  <2> QED
    BY <1>1, <2>1, <2>4, <2>5 DEF n
<1>5. CASE WritesTo(a, s) # {}
  <2>1. PICK w \in WritesTo(a, s) :
          /\ \A v \in WritesTo(a, s) : v.version <= w.version
          /\ StateAt(a, s) = IF w.open THEN w.version ELSE 0
    BY <1>5, LastWrite
  <2>2. w.open /\ StateAt(a, s) = w.version
    BY <2>1
  <2>3. w \in ledger /\ w \in Writes
    BY DEF WritesTo, LedgerOK
  <2>4. PICK q \in Visible(a, s) :
          w.slot < q.slot \/ (w.slot = q.slot /\ q.write_version = w.version)
    BY <2>1, <2>2, LastIsReached
  <2>5. n \in Visible(a, s) /\ Above(n, q) /\ RowIsTrue(n)
    BY <1>1, <1>3
  <2>6. w.slot < n.slot \/ (w.slot = n.slot /\ w.version <= n.write_version)
    BY <1>1, <2>3, <2>4, <2>5 DEF Above, Writes, TypeOK
  <2>7. CASE n.write_version = SNAPSHOT_WRITE_VERSION /\ n.content = StateAt(a, n.slot)
    <3>1. \A v \in ledger : v.account = a /\ v.slot <= s => v.slot <= n.slot
      <4> SUFFICES ASSUME NEW v \in ledger, v.account = a, v.slot <= s
                   PROVE  v.slot <= n.slot
        OBVIOUS
      <4>1. v \in WritesTo(a, s) /\ v \in Writes
        BY DEF WritesTo, LedgerOK
      <4>2. v.slot <= w.slot
        BY <2>1, <2>3, <4>1 DEF LedgerOK, Writes
      <4> QED
        BY <1>1, <2>3, <2>5, <2>6, <4>1, <4>2 DEF Writes
    <3>2. StateAt(a, n.slot) = StateAt(a, s)
      BY <1>0, <1>1, <2>5, <3>1, StateBetween
    <3> QED
      BY <2>5, <2>7, <3>2 DEF n
  <2>8. CASE \E v \in ledger : /\ v.open /\ v.account = n.account /\ v.slot = n.slot
                               /\ v.version = n.write_version /\ v.version = n.content
    <3>1. PICK v \in ledger : /\ v.account = a /\ v.slot = n.slot
                              /\ v.version = n.write_version /\ v.version = n.content
      BY <1>1, <2>5, <2>8
    <3>2. v \in WritesTo(a, s) /\ v \in Writes
      BY <1>1, <2>5, <3>1 DEF WritesTo, LedgerOK
    <3>3. v.version <= w.version
      BY <2>1, <3>2
    <3>4. v.version < w.version => v.slot <= w.slot
      BY <2>3, <3>1 DEF LedgerOK
    <3>5. v.version = w.version
      BY <2>3, <2>6, <3>1, <3>2, <3>3, <3>4 DEF Writes
    <3> QED
      BY <2>2, <2>5, <3>1, <3>5 DEF n
  <2> QED
    BY <1>1, <2>5, <2>7, <2>8 DEF RowIsTrue
<1> QED
  BY <1>4, <1>5

(* After a recorded run a read as of any slot that the stream has passed   *)
(* returns what each account in scope held at the end of that slot, in     *)
(* whatever order the two writers put their rows there.                    *)
THEOREM TableReadsAsOf == Spec => []ReadsAsOf
<1>1. Init => AsOfInv
  BY DEF Init, AsOfInv, RowsOK, StreamedOK, SpansOK
<1>2. BackInv /\ LedgerOK /\ TypeOK /\ AsOfInv /\ [Next]_vars =>
        (BackInv /\ LedgerOK /\ TypeOK /\ AsOfInv)'
  BY BackStep, LedgerStep, TypeStep, RowsStep, StreamedStep, SpansStep DEF AsOfInv
<1>3. LedgerOK /\ TypeOK /\ AsOfInv => ReadsAsOf
  BY ReadAsOf DEF ReadsAsOf
<1> QED
  BY <1>1, <1>2, <1>3, BackInit, TypeInit, PTL DEF Spec
=============================================================================
