------------------------------ MODULE Snapshot ------------------------------
(***************************************************************************)
(* The snapshot job (src/src/bin/snapshot.rs): it lists the accounts of    *)
(* the program over RPC, page by page, and stores each under the slot of   *)
(* the answer it came in, into the tables the stream writes as well; a run *)
(* row says afterwards that the snapshot is complete.  What the two        *)
(* writers promise together is that the table can be read as of any slot.  *)
(*                                                                         *)
(* Simplifications                                                         *)
(*  - The content of an account is the version of the write it comes from. *)
(*  - The stream stores a write as it delivers it, in ledger order, or     *)
(*    loses it; how is in Indexer.                                         *)
(*  - The owner of an obligation, and so its page, does not change.        *)
(*  - Whether an account decodes does not depend on its content.           *)
(*  - An answer has every account that matches, or it is an error.         *)
(***************************************************************************)
EXTENDS Integers, FiniteSets

CONSTANTS
  Accounts,
  KindOf,         \* account -> "Obligation", "Reserve", "LendingMarket", "other"
  PageOf,         \* account -> the byte of its owner that pages are cut by
  Idle,           \* the accounts that existed before the stream began
  Decodes,        \* the accounts whose payload the decoder accepts
  Pages,          \* OBLIGATION_PAGES
  INSERT_BATCH,
  Scopes,         \* values KLEND_SNAPSHOT_SCOPE is given
  MaxSlot, MaxWrites, MaxLost, MaxRuns   \* bounds of the model

Kinds == {"Obligation", "Reserve", "LendingMarket"}

ASSUME SnapshotAssumption ==
  /\ KindOf \in [Accounts -> Kinds \cup {"other"}] /\ PageOf \in [Accounts -> 1..Pages]
  /\ Idle \subseteq Accounts /\ Decodes \subseteq Accounts /\ IsFiniteSet(Accounts)
  /\ Pages \in Nat \ {0} /\ INSERT_BATCH \in Nat \ {0}
  /\ Scopes \subseteq {"known", "all"}
  /\ {MaxSlot, MaxWrites, MaxLost, MaxRuns} \subseteq Nat

VARIABLES
  \* the chain
  ledger,     \* writes: [account, slot, version, open]
  tip,        \* the slot being written
  version,    \* the newest version; version 1 is what was there at the start
  \* the stream
  streamed,   \* the newest version it has dealt with
  lost,       \* the versions it did not store
  \* ClickHouse
  rows,       \* [table, account, slot, write_version, content]
  runs,       \* snapshot_runs
  \* the job
  pc,         \* "idle", "fetch", "insert", "record"
  scope, dry,
  call,       \* which request
  slot,       \* of the answer
  unsent,     \* per table: accounts of the answer whose row is not inserted
  page,       \* what this page adds to the totals
  totals,
  \* observation only
  at,         \* per account, the slot of the answer that listed it
  spans,      \* the recorded runs, with their `at`
  started     \* runs begun

chain  == <<ledger, tip, version>>
stream == <<streamed, lost>>
store  == <<rows, runs, spans>>
job    == <<pc, scope, dry, call, slot, unsent, page, totals, at>>
vars   == <<chain, stream, store, job, started>>

-----------------------------------------------------------------------------
(* The chain, and what an account holds at the end of a slot: a version,   *)
(* or 0 when it is closed or not yet there.                                *)

WritesTo(a, s) == {w \in ledger : w.account = a /\ w.slot <= s}

StateAt(a, s) ==
  IF WritesTo(a, s) = {} THEN IF a \in Idle THEN 1 ELSE 0
  ELSE LET w == CHOOSE w \in WritesTo(a, s) :
                  \A v \in WritesTo(a, s) : v.version <= w.version
       IN  IF w.open THEN w.version ELSE 0

Write(a, open) ==
  /\ version <= MaxWrites
  /\ open \/ StateAt(a, tip) # 0
  /\ version' = version + 1
  /\ ledger' = ledger \cup
       {[account |-> a, slot |-> tip, version |-> version + 1, open |-> open]}
  /\ UNCHANGED <<tip, stream, store, job, started>>

NewSlot ==
  /\ tip < MaxSlot /\ tip' = tip + 1
  /\ UNCHANGED <<ledger, version, stream, store, job, started>>

-----------------------------------------------------------------------------
(* The stream.  A closed account has left the program, so its last write   *)
(* is not among the updates of the program's accounts.                     *)

Row(t, a, s, wv, c) ==
  [table |-> t, account |-> a, slot |-> s, write_version |-> wv, content |-> c]

Streams ==
  /\ streamed < version /\ streamed' = streamed + 1
  /\ \E w \in ledger :
       /\ w.version = streamed + 1
       /\ rows' = rows \cup
            (IF w.open
             THEN {Row("account_updates", w.account, w.slot, w.version, w.version)}
             ELSE {})
  /\ UNCHANGED <<chain, lost, runs, spans, job, started>>

StreamLoses ==
  /\ streamed < version /\ streamed' = streamed + 1
  /\ Cardinality(lost) < MaxLost /\ lost' = lost \cup {streamed + 1}
  /\ UNCHANGED <<chain, store, job, started>>

-----------------------------------------------------------------------------
(* The job.                                                                *)

Tables == {"account_updates"} \cup Kinds   \* a decoded table has its kind's name

SNAPSHOT_WRITE_VERSION == 0

Calls(sc) == IF sc = "known" THEN Pages + 2 ELSE 1

Matches(sc, i, a) ==
  \/ sc = "all"
  \/ KindOf[a] = "Obligation" /\ i = PageOf[a]
  \/ KindOf[a] = "Reserve" /\ i = Pages + 1
  \/ KindOf[a] = "LendingMarket" /\ i = Pages + 2

InScope(sc, a) == sc = "all" \/ KindOf[a] \in Kinds

Zero == [accounts |-> 0, rows_written |-> 0, decode_failures |-> 0, max_slot |-> 0]

(* The process ends, and what it held is gone.                             *)
Ends ==
  /\ pc' = "idle" /\ scope' = "none" /\ dry' = FALSE /\ call' = 1 /\ slot' = 0
  /\ unsent' = [t \in Tables |-> {}] /\ page' = Zero /\ totals' = Zero
  /\ at' = [a \in Accounts |-> 0]

Start ==
  /\ pc = "idle" /\ started < MaxRuns /\ started' = started + 1
  /\ pc' = "fetch" /\ call' = 1 /\ scope' \in Scopes /\ dry' \in BOOLEAN
  /\ UNCHANGED <<chain, stream, store, slot, unsent, page, totals, at>>

(* Nodes behind the endpoint need not be level: an answer is of any slot   *)
(* that is complete.                                                       *)
Fetch ==
  /\ pc = "fetch" /\ pc' = "insert"
  /\ \E s \in 0..(tip - 1) :
       LET listed == {a \in Accounts : Matches(scope, call, a) /\ StateAt(a, s) # 0}
           known  == {a \in listed : KindOf[a] \in Kinds}
       IN  /\ slot' = s
           /\ unsent' =
                [t \in Tables |->
                   IF dry THEN {}
                   ELSE IF t = "account_updates" THEN listed
                   ELSE {a \in known \cap Decodes : KindOf[a] = t}]
           /\ page' = [accounts |-> Cardinality(listed), rows_written |-> 0,
                       decode_failures |-> Cardinality(known \ Decodes),
                       max_slot |-> s]
           /\ at' = [a \in Accounts |-> IF Matches(scope, call, a) THEN s ELSE at[a]]
  /\ UNCHANGED <<chain, stream, store, scope, dry, call, totals, started>>

Before(t) ==
  CASE t = "account_updates" -> {}
    [] t = "Obligation"      -> {"account_updates"}
    [] t = "Reserve"         -> {"account_updates", "Obligation"}
    [] OTHER                 -> Tables \ {"LendingMarket"}

IsChunk(chunk, left) ==
  IF Cardinality(left) > INSERT_BATCH THEN Cardinality(chunk) = INSERT_BATCH
                                      ELSE chunk = left

(* Mutant: what is left below a batch is not pushed.                       *)
Rest_Dropped(left, chunk) ==
  IF Cardinality(left \ chunk) < INSERT_BATCH THEN {} ELSE left \ chunk

Rest(left, chunk) == left \ chunk

(* Mutant: a row is dated at the slot before the answer.                   *)
DateOf_Parent == slot - 1

(* Mutant: a row is dated by the run, at the newest slot seen.             *)
DateOf_Run == IF totals.max_slot > slot THEN totals.max_slot ELSE slot

(* Each row keeps its own page's slot.                                     *)
DateOf == slot

Chunk(t, chunk) ==
  {Row(t, a, DateOf, SNAPSHOT_WRITE_VERSION, StateAt(a, slot)) : a \in chunk}

Pending(t) == pc = "insert" /\ unsent[t] # {} /\ \A b \in Before(t) : unsent[b] = {}

Insert(t, chunk) ==
  /\ Pending(t) /\ chunk # {} /\ IsChunk(chunk, unsent[t])
  /\ rows' = rows \cup Chunk(t, chunk)
  /\ unsent' = [unsent EXCEPT ![t] = Rest(@, chunk)]
  /\ page' = [page EXCEPT !.rows_written = @ + Cardinality(chunk)]
  /\ UNCHANGED <<chain, stream, runs, spans, pc, scope, dry, call, slot, totals, at,
                 started>>

(* Mutant: the rows of earlier pages are forgotten.                        *)
Absorb_Overwrites ==
  [accounts        |-> totals.accounts + page.accounts,
   rows_written    |-> page.rows_written,
   decode_failures |-> totals.decode_failures + page.decode_failures,
   max_slot        |-> IF page.max_slot > totals.max_slot THEN page.max_slot
                                                          ELSE totals.max_slot]

Absorb ==
  [accounts        |-> totals.accounts + page.accounts,
   rows_written    |-> totals.rows_written + page.rows_written,
   decode_failures |-> totals.decode_failures + page.decode_failures,
   max_slot        |-> IF page.max_slot > totals.max_slot THEN page.max_slot
                                                          ELSE totals.max_slot]

EndPage ==
  /\ pc = "insert" /\ \A t \in Tables : unsent[t] = {}
  /\ totals' = Absorb /\ call' = call + 1 /\ slot' = 0 /\ page' = Zero
  /\ pc' = IF call < Calls(scope) THEN "fetch" ELSE "record"
  /\ UNCHANGED <<chain, stream, store, scope, dry, unsent, at, started>>

(* An empty snapshot is an error, a dry run has nothing to record.         *)
EndsUnrecorded ==
  /\ pc = "record" /\ (totals.accounts = 0 \/ dry) /\ Ends
  /\ UNCHANGED <<chain, stream, store, started>>

Record ==
  /\ runs' = {r \in runs : <<r.slot, r.scope>> # <<totals.max_slot, scope>>} \cup
       {[slot |-> totals.max_slot, scope |-> scope, accounts |-> totals.accounts,
         rows_written |-> totals.rows_written,
         decode_failures |-> totals.decode_failures]}
  /\ spans' = spans \cup {[slot |-> totals.max_slot, scope |-> scope, at |-> at]}

RecordRun ==
  /\ pc = "record" /\ totals.accounts > 0 /\ ~dry /\ Record /\ Ends
  /\ UNCHANGED <<chain, stream, rows, started>>

(* An insert that fails may have been applied all the same, and so may the *)
(* one of the run row.                                                     *)
InsertFails ==
  \E t \in Tables : \E chunk \in SUBSET unsent[t] :
    /\ Pending(t) /\ chunk # {} /\ IsChunk(chunk, unsent[t])
    /\ rows' = rows \cup Chunk(t, chunk) /\ UNCHANGED <<runs, spans>>

RecordFails ==
  pc = "record" /\ totals.accounts > 0 /\ ~dry /\ Record /\ UNCHANGED rows

(* A request or an insert fails, or the container dies.                    *)
RunFails ==
  /\ pc # "idle" /\ Ends
  /\ UNCHANGED store \/ InsertFails \/ RecordFails
  /\ UNCHANGED <<chain, stream, started>>

Job ==
  \/ Start \/ Fetch \/ EndPage \/ EndsUnrecorded \/ RecordRun \/ RunFails
  \/ \E t \in Tables : \E chunk \in SUBSET unsent[t] : Insert(t, chunk)

Init ==
  /\ ledger = {} /\ tip = 1 /\ version = 1
  /\ streamed = 1 /\ lost = {}
  /\ rows = {} /\ runs = {} /\ spans = {}
  /\ pc = "idle" /\ scope = "none" /\ dry = FALSE /\ call = 1 /\ slot = 0
  /\ unsent = [t \in Tables |-> {}] /\ page = Zero /\ totals = Zero
  /\ at = [a \in Accounts |-> 0] /\ started = 0

Next ==
  \/ \E a \in Accounts, open \in BOOLEAN : Write(a, open)
  \/ NewSlot \/ Streams \/ StreamLoses \/ Job

Spec == Init /\ [][Next]_vars

-----------------------------------------------------------------------------
Counts == [accounts : Nat, rows_written : Nat, decode_failures : Nat, max_slot : Nat]

TypeOK ==
  /\ ledger \subseteq [account : Accounts, slot : Nat, version : Nat, open : BOOLEAN]
  /\ tip \in Nat /\ version \in Nat /\ streamed \in 1..version /\ lost \subseteq 2..streamed
  /\ rows \subseteq [table : Tables, account : Accounts, slot : Nat,
                     write_version : Nat, content : Nat]
  /\ pc \in {"idle", "fetch", "insert", "record"} /\ scope \in Scopes \cup {"none"} /\ dry \in BOOLEAN
  /\ call \in 1..(Calls(scope) + 1)
  /\ pc = "fetch" => call <= Calls(scope)
  /\ slot \in Nat /\ unsent \in [Tables -> SUBSET Accounts]
  /\ page \in Counts /\ totals \in Counts /\ at \in [Accounts -> Nat] /\ started \in Nat

Stored(t, a, s) ==
  \E r \in rows : /\ r.table = t /\ r.account = a /\ r.slot = s
                  /\ r.write_version = SNAPSHOT_WRITE_VERSION

(* A recorded run has its data behind it: every account in scope that      *)
(* existed when its page was answered has its raw row, and its decoded row *)
(* unless the decoder refused it.                                          *)
RecordedRunIsBacked ==
  [][\A sp \in spans' \ spans : \A a \in Accounts :
       InScope(sp.scope, a) /\ StateAt(a, sp.at[a]) # 0 =>
         /\ Stored("account_updates", a, sp.at[a])
         /\ KindOf[a] \in Kinds /\ a \in Decodes => Stored(KindOf[a], a, sp.at[a])]_vars

(* The row that a read as of slot s returns.                               *)
Visible(a, s) ==
  {r \in rows : r.table = "account_updates" /\ r.account = a /\ r.slot <= s}

Newest(a, s) ==
  CHOOSE r \in Visible(a, s) : \A q \in Visible(a, s) :
    \/ q.slot < r.slot
    \/ q.slot = r.slot /\ q.write_version <= r.write_version

DealtWith(s) == s < tip /\ \A w \in ledger : w.slot <= s => w.version <= streamed

LostSince(a, from, s) ==
  \E w \in ledger : /\ w.account = a /\ w.version \in lost
                    /\ from <= w.slot /\ w.slot <= s

(* After a recorded run the table can be read as of any slot the stream    *)
(* has passed: the newest row of an account that is open at that slot is   *)
(* its state then, also when it has been idle or its updates were lost     *)
(* before its page was answered.  Only what was lost since then is         *)
(* missing, and an account that is closed: no answer lists it, so if the   *)
(* stream lost its closure its last row still shows it open.               *)
ReadsAsOf ==
  \A sp \in spans : \A a \in Accounts : \A s \in sp.at[a]..(tip - 1) :
    /\ InScope(sp.scope, a) /\ DealtWith(s) /\ StateAt(a, s) # 0
    /\ ~LostSince(a, sp.at[a], s)
    => Visible(a, s) # {} /\ Newest(a, s).content = StateAt(a, s)

(* The counts of a recorded run of the known kinds add up.                 *)
RunsAddUp ==
  \A r \in runs : r.scope = "known" =>
    r.rows_written = 2 * r.accounts - r.decode_failures
=============================================================================
