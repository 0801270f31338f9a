------------------------------- MODULE Intake -------------------------------
(***************************************************************************)
(* What becomes of one account message (src/src/main.rs, the Account arm): *)
(* the shape guard (payload.rs), the account kind (schema.rs), the decoded *)
(* row (decode.rs), and what the dashboard's risk query later makes of the *)
(* decoded rows (web/queries.js).                                          *)
(*                                                                         *)
(* The promise under study: data that arrives in the wrong shape is not    *)
(* lost in silence, and a position near liquidation is not lost on the way *)
(* from the account to the list.                                           *)
(*                                                                         *)
(* Simplifications                                                         *)
(*  - The chain is a log of updates; the index in the log stands for the   *)
(*    write version.  Batches, checkpoints and seams are module Indexer's: *)
(*    here a row is stored as it is received, and a reconnect or a restart *)
(*    goes back any distance.                                              *)
(*  - Of an account there is its length on the wire, its lamports, and, of *)
(*    an obligation, the two values the health factor is made of.          *)
(*  - u64 and u128 are Narrow and Narrow * Narrow values wide.             *)
(***************************************************************************)
EXTENDS Integers, Sequences, FiniteSets

CONSTANTS
  Accounts, KindOf,   \* [Accounts -> Kinds]
  BodiesOf,           \* [Accounts -> SUBSET Bodies]: states an account may take
  Narrow,             \* 2^64
  Scale,              \* 1_000_000
  RepeatEvery,        \* REPEAT_EVERY
  ListLimit,          \* LIMIT of the risk query
  Slices,             \* accounts_data_slice lengths a build may ask for
  MaxSlot,            \* bound: slots of the chain
  MaxUpdates,         \* bound: updates of the chain
  MaxFaults           \* bound: reconnects and restarts

NoSlice == -1         \* no accounts_data_slice

Wide     == Narrow * Narrow
Sentinel == Narrow - 1

Kinds == {"Obligation", "Reserve", "LendingMarket"}

Bodies == [lamports : Nat, deposited : Nat, debt : Nat, has_debt : BOOLEAN]

ASSUME IntakeAssumption ==
  /\ KindOf \in [Accounts -> Kinds]
  /\ BodiesOf \in [Accounts -> SUBSET Bodies]
  /\ Narrow \in Nat /\ Narrow > 1 /\ Scale \in Nat /\ Scale > 0
  /\ RepeatEvery \in Nat /\ RepeatEvery > 1
  /\ ListLimit \in Nat /\ ListLimit > 0
  /\ Slices \subseteq Nat \cup {NoSlice}
  /\ MaxSlot \in Nat /\ MaxUpdates \in Nat /\ MaxFaults \in Nat

VARIABLES
  \* the chain
  slot, log,           \* the slot, and every update so far
  \* the session
  next,                \* the update the provider delivers next
  slice,               \* what the running build asked for
  \* the process
  guard,               \* PayloadGuard
  \* ClickHouse
  raw,                 \* account_updates: update -> length of the stored data
  snaps,               \* obligation_snapshots: updates with a decoded row
  \* observation only
  silent, told,        \* destroyed payloads since the last alarm; alarms so far
  faults

vars == <<slot, log, next, slice, guard, raw, snaps, silent, told, faults>>

Closed == [lamports |-> 0, deposited |-> 0, debt |-> 0, has_debt |-> FALSE]

Updates == DOMAIN log
Kind(i) == KindOf[log[i].pubkey]
Body(i) == log[i].body

-----------------------------------------------------------------------------
(* Lengths.                                                                *)

(* Length of an account with its 8-byte discriminator, and the least a     *)
(* decoder takes of it (a reserve is read up to its liquidity).            *)
WireLen == [Obligation |-> 3344, Reserve |-> 8624, LendingMarket |-> 4664]
MinLen  == [Obligation |-> 3344, Reserve |-> 1360, LendingMarket |-> 4664]

(* A slice is of the whole request, and an account shorter than it arrives *)
(* empty, not short.                                                       *)
Sliced(len, s) ==
  IF s = NoSlice THEN len ELSE IF len < s THEN 0 ELSE s

(* An account that was closed has no data.                                 *)
DataLen(i, s) ==
  IF Body(i) = Closed THEN 0 ELSE Sliced(WireLen[Kind(i)], s)

(* Mutant: an account of exactly the least length is taken for too short.  *)
LongEnough_Strictly(len, kind) == len > MinLen[kind]

LongEnough(len, kind) == len >= MinLen[kind]

(* AccountKind::from, then the decoder of that kind: less than 8 bytes is  *)
(* Untagged and goes to no decoder.  The cast after the length check wants *)
(* an address divisible by 8, which offset 8 of an allocated buffer has,   *)
(* so its failure (Some(Err), a raw row and no decoded one) is left out.   *)
Decodes(len, kind) == len >= 8 /\ LongEnough(len, kind)

-----------------------------------------------------------------------------
(* decode_obligation: the health factor.                                   *)

SaturatingMul(a, b) == IF a * b >= Wide THEN Wide - 1 ELSE a * b

Quotient(body) == SaturatingMul(body.deposited, Scale) \div body.debt

DebtFree(body) == body.debt = 0 \/ ~body.has_debt

(* Mutant: the product is taken in 64 bits.                                *)
HealthFactor_NarrowProduct(body) ==
  IF DebtFree(body) THEN Sentinel
  ELSE ((body.deposited * Scale) % Narrow) \div body.debt

(* `as u64` keeps the low half of the quotient.                            *)
HealthFactor(body) ==
  IF DebtFree(body) THEN Sentinel ELSE Quotient(body) % Narrow

Wraps(body) == ~DebtFree(body) /\ Quotient(body) >= Narrow

-----------------------------------------------------------------------------
(* PayloadGuard.                                                           *)

NoSpan == 0

NewGuard == [impossible |-> 0, closed |-> 0,
             first_slot |-> NoSpan, last_slot |-> NoSpan]

(* Mutant: an ordinary closure counts as a fault.                          *)
ImpossibleEmpty_AnyEmpty(len, lamports) == len = 0

ImpossibleEmpty(len, lamports) == len = 0 /\ lamports > 0

IsMultiple(n) == \E q \in 0..n : n = q * RepeatEvery

(* Mutant: the repeat is due when the total is one past a multiple, so the *)
(* first alarm is the only one for a while longer.                         *)
AlarmDue_Late(n) == n = 1 \/ (n > 1 + RepeatEvery /\ IsMultiple(n - 1))

(* AlarmFirst, AlarmRepeat, or Quiet.                                      *)
AlarmDue(n) == n = 1 \/ IsMultiple(n)

Observe(at, len, lamports) ==
  IF ImpossibleEmpty(len, lamports)
    THEN /\ guard' = [guard EXCEPT
               !.impossible = @ + 1,
               !.first_slot = IF @ = NoSpan THEN at ELSE @,
               !.last_slot = at]
         /\ IF AlarmDue(guard.impossible + 1)
              THEN silent' = 0 /\ told' = told + 1
              ELSE silent' = silent + 1 /\ UNCHANGED told
    ELSE /\ guard' = IF len = 0 THEN [guard EXCEPT !.closed = @ + 1] ELSE guard
         /\ UNCHANGED <<silent, told>>

-----------------------------------------------------------------------------
Init ==
  /\ slot = 1 /\ log = <<>>
  /\ next = 1 /\ slice \in Slices
  /\ guard = NewGuard
  /\ raw = <<>> /\ snaps = {}
  /\ silent = 0 /\ told = 0 /\ faults = 0

(* A transaction changes an account that was not closed before.            *)
Change(a, body) ==
  /\ Len(log) < MaxUpdates
  /\ \A i \in Updates : log[i].pubkey = a => Body(i) # Closed
  /\ log' = Append(log, [pubkey |-> a, slot |-> slot, body |-> body])
  /\ UNCHANGED <<slot, next, slice, guard, raw, snaps, silent, told, faults>>

NewSlot ==
  /\ slot < MaxSlot /\ slot' = slot + 1
  /\ UNCHANGED <<log, next, slice, guard, raw, snaps, silent, told, faults>>

(* Mutant: the raw row is pushed only for accounts without a decoder.      *)
Upsert_NoDecoder(i, len) ==
  raw' = [j \in DOMAIN raw \cup ({i} \ snaps') |-> IF j = i THEN len ELSE raw[j]]

(* ReplacingMergeTree(ingested_at): of two copies of an update the one     *)
(* stored last is read.                                                    *)
Upsert(i, len) ==
  raw' = [j \in DOMAIN raw \cup {i} |-> IF j = i THEN len ELSE raw[j]]

(* One message: the guard, the decoder, and the raw row whatever it said.  *)
Receive ==
  /\ next \in Updates
  /\ LET len == DataLen(next, slice) IN
     /\ Observe(log[next].slot, len, Body(next).lamports)
     /\ snaps' = IF Kind(next) = "Obligation" /\ Decodes(len, "Obligation")
                   THEN snaps \cup {next} ELSE snaps
     /\ Upsert(next, len)
  /\ next' = next + 1
  /\ UNCHANGED <<slot, log, slice, faults>>

(* The filters ask for the discriminator at offset 0, which an account     *)
(* closed no longer has: the provider may leave the closure out.           *)
FilteredOut ==
  /\ next \in Updates /\ Body(next) = Closed
  /\ next' = next + 1
  /\ UNCHANGED <<slot, log, slice, guard, raw, snaps, silent, told, faults>>

Faulty == faults < MaxFaults /\ faults' = faults + 1

(* The stream drops; the next session is served from an earlier update on. *)
(* The guard is of the process and stays.                                  *)
Reconnect ==
  /\ Faulty /\ next' \in 1..next
  /\ UNCHANGED <<slot, log, slice, guard, raw, snaps, silent, told>>

(* A new process, of the same build or of one with another slice.          *)
Restart ==
  /\ Faulty /\ next' \in 1..next
  /\ slice' \in Slices
  /\ guard' = NewGuard /\ silent' = 0
  /\ UNCHANGED <<slot, log, raw, snaps, told>>

Next ==
  \/ \E a \in Accounts : \E body \in BodiesOf[a] : Change(a, body)
  \/ NewSlot \/ Receive \/ FilteredOut \/ Reconnect \/ Restart

Spec == Init /\ [][Next]_vars

-----------------------------------------------------------------------------
(* The `risk` query.  argMax over the slot alone picks any row of the      *)
(* newest slot.                                                            *)

Health(i) == HealthFactor(Body(i))

(* Mutant: positions below 1.0 are left out with the ones at zero.         *)
HasHealth_AboveOne(h) == h # Sentinel /\ h > Scale

(* WHERE: no sentinel, not zero.                                           *)
HasHealth(h) == h # Sentinel /\ h > 0

RiskBelow(h) == h < 2 * Scale

Considered == {i \in snaps : HasHealth(Health(i))}

RowsOf(a, rows) == {i \in rows : log[i].pubkey = a}

Newest(rows) == {i \in rows : \A j \in rows : log[j].slot <= log[i].slot}

(* One row of every group, the groups below the HAVING bound, and the      *)
(* ListLimit lowest of those.                                              *)
Picks ==
  LET pubkeys == {log[i].pubkey : i \in Considered} IN
  {p \in [pubkeys -> Considered] :
     \A a \in pubkeys : p[a] \in Newest(RowsOf(a, Considered))}

IsRiskList(list) ==
  \E p \in Picks :
    LET having == {p[a] : a \in DOMAIN p} \cap {i \in snaps : RiskBelow(Health(i))}
    IN /\ list \subseteq having
       /\ Cardinality(list) <= ListLimit
       /\ list = having \/ Cardinality(list) = ListLimit
       /\ \A i \in list : \A j \in having \ list : Health(i) <= Health(j)

RiskLists == {list \in SUBSET Considered : IsRiskList(list)}

-----------------------------------------------------------------------------
(* Types.                                                                  *)

Guards == [impossible : Nat, closed : Nat, first_slot : Nat, last_slot : Nat]

TypeOK ==
  /\ slot \in 1..(MaxSlot + 1)
  /\ log \in Seq([pubkey : Accounts, slot : Nat, body : Bodies])
  /\ next \in 1..(Len(log) + 1) /\ slice \in Slices
  /\ guard \in Guards
  /\ DOMAIN raw \subseteq Updates /\ \A i \in DOMAIN raw : raw[i] \in Nat
  /\ snaps \subseteq DOMAIN raw
  /\ silent \in Nat /\ told \in Nat /\ faults \in Nat

-----------------------------------------------------------------------------
(* Properties.                                                             *)

(* Stored without a payload although the account is funded.                *)
Destroyed == {i \in DOMAIN raw : raw[i] = 0 /\ Body(i).lamports > 0}

(* "Rate-limited but never silent": no payload is destroyed before the     *)
(* first alarm, and never RepeatEvery of them between two alarms of one    *)
(* process, whatever closures and sound payloads arrive in between and     *)
(* however often the stream reconnects.                                    *)
LossIsAnnounced ==
  /\ Destroyed # {} => told > 0
  /\ silent < RepeatEvery

(* There is no noise floor: an alarm is raised by a message that destroys  *)
(* a payload and by nothing else, closures included.                       *)
AlarmsAreReal ==
  [][told' # told => next \in Destroyed' /\ next' = next + 1]_vars

(* An obligation whose payload was stored whole has its decoded row, also  *)
(* when it was received destroyed before or comes back destroyed later;    *)
(* the account is exactly as long as the decoder demands.                  *)
WholeObligationsDecode ==
  \A i \in DOMAIN raw :
    Kind(i) = "Obligation" /\ raw[i] = WireLen["Obligation"] => i \in snaps

(* A position at risk is not lost on its way to the list: when the one row *)
(* of an obligation's newest stored slot is at risk, either that row is    *)
(* listed or the list is full of rows at least as low.                     *)
NewestRiskIsListed ==
  \A list \in RiskLists : \A a \in Accounts : \A i \in RowsOf(a, snaps) :
    /\ Newest(RowsOf(a, snaps)) = {i}
    /\ HealthFactor(Body(i)) \in 1..(2 * Scale - 1)
    => \/ i \in list
       \/ /\ Cardinality(list) = ListLimit
          /\ \A j \in list : Health(j) <= Health(i)

(* What the list shows was true when the row was written: the collateral   *)
(* was worth less than twice the debt.  Except for a debt so small that    *)
(* the quotient does not fit 64 bits.                                      *)
ListedWasAtRisk ==
  \A list \in RiskLists : \A i \in list :
    Body(i).deposited < 2 * Body(i).debt \/ Wraps(Body(i))

(* web/index.html on the Risk Radar: "Latest state, not latest row"; "Only *)
(* positions with an actual borrow appear".  So a listed obligation has a  *)
(* borrow in a row of the newest slot the store has of it.                 *)
ListedStillBorrow ==
  \A list \in RiskLists : \A i \in list :
    \E j \in Newest(RowsOf(log[i].pubkey, snaps)) : ~DebtFree(Body(j))

=============================================================================
