---------------------------- MODULE IntakeProofs ----------------------------
(***************************************************************************)
(* Proofs about the intake of account messages, for any accounts, machine  *)
(* width, alarm period and slices.                                         *)
(***************************************************************************)
EXTENDS Intake, TLAPS

-----------------------------------------------------------------------------
(* The request-level slice.                                                *)

(* No one accounts_data_slice serves every account type: above the length  *)
(* of an obligation the obligations arrive empty, up to it the markets     *)
(* arrive too short to decode (main.rs, build_request).                    *)
THEOREM NoSliceServesAll ==
  \A s \in Nat : \E k \in Kinds : ~Decodes(Sliced(WireLen[k], s), k)
<1> SUFFICES ASSUME NEW s \in Nat
             PROVE  \E k \in Kinds : ~Decodes(Sliced(WireLen[k], s), k)
  OBVIOUS
<1> USE DEF Decodes, Sliced, LongEnough, WireLen, MinLen, Kinds, NoSlice
<1>1. CASE s > 3344
  BY <1>1
<1>2. CASE s <= 3344
  BY <1>2
<1> QED BY <1>1, <1>2

-----------------------------------------------------------------------------
(* The health factor.                                                      *)

LEMMA DivFacts ==
  ASSUME NEW a \in Nat, NEW b \in Nat, b > 0
  PROVE  /\ a \div b \in Nat
         /\ (a \div b) * b <= a /\ a < (a \div b) * b + b
OBVIOUS

LEMMA ModBelow ==
  ASSUME NEW a \in Nat, NEW b \in Nat, a < b PROVE a % b = a
OBVIOUS

(* For every width and scale: as long as the quotient fits the narrow      *)
(* word, the integer health factor is below 2.0 exactly when the           *)
(* collateral is worth less than twice the debt; rounding never moves a    *)
(* position across the bound.                                              *)
THEOREM HealthSeparatesPositions ==
  ASSUME NEW body \in Bodies, ~DebtFree(body), ~Wraps(body),
         body.deposited * Scale < Wide
  PROVE  RiskBelow(HealthFactor(body)) <=> body.deposited < 2 * body.debt
<1> DEFINE d == body.deposited
           b == body.debt
           q == (d * Scale) \div b
<1>1. d \in Nat /\ b \in Nat /\ b > 0 /\ Scale \in Nat /\ Scale > 0
  BY IntakeAssumption DEF Bodies, DebtFree
<1>2. d * Scale \in Nat BY <1>1
<1>3. q \in Nat /\ q * b <= d * Scale /\ d * Scale < q * b + b
  <2> HIDE DEF d, b
  <2> QED BY <1>1, <1>2, DivFacts
<1>4. Quotient(body) = q
  <2>1. Wide \in Nat BY IntakeAssumption DEF Wide
  <2> QED BY <1>2, <2>1 DEF Quotient, SaturatingMul
<1>5. HealthFactor(body) = q
  <2>1. q < Narrow /\ Narrow \in Nat
    BY <1>3, <1>4, IntakeAssumption DEF Wraps
  <2>2. q % Narrow = q BY <1>3, <2>1, ModBelow
  <2> QED BY <1>4, <2>2 DEF HealthFactor
<1> HIDE DEF d, b, q
<1>6. ASSUME d < 2 * b PROVE q < 2 * Scale
  <2> SUFFICES ASSUME q >= 2 * Scale PROVE FALSE BY <1>1, <1>3
  <2>1. q * b >= (2 * Scale) * b BY <1>1, <1>3
  <2>2. d * Scale < (2 * b) * Scale BY <1>1, <1>6
  <2> QED BY <1>1, <1>2, <1>3, <2>1, <2>2
<1>7. ASSUME d >= 2 * b PROVE q >= 2 * Scale
  <2> SUFFICES ASSUME q + 1 <= 2 * Scale PROVE FALSE BY <1>1, <1>3
  <2>1. (q + 1) * b <= (2 * Scale) * b BY <1>1, <1>3
  <2>2. d * Scale >= (2 * b) * Scale BY <1>1, <1>7
  <2> QED BY <1>1, <1>2, <1>3, <2>1, <2>2
<1> QED BY <1>1, <1>3, <1>5, <1>6, <1>7 DEF RiskBelow, d, b

-----------------------------------------------------------------------------
(* The alarm schedule.                                                     *)

(* The guard's total is some number of whole periods and a rest, and what  *)
(* was destroyed in silence is no more than the rest.                      *)
Periods ==
  \E q \in Nat, r \in Nat :
    /\ guard.impossible = q * RepeatEvery + r
    /\ r < RepeatEvery /\ silent <= r

AlarmInv ==
  /\ Periods
  /\ guard.impossible > 0 => told > 0
  /\ Destroyed # {} => told > 0

LEMMA ElementOf ==
  ASSUME NEW S, NEW s \in Seq(S), NEW i \in DOMAIN s PROVE s[i] \in S
OBVIOUS

LEMMA UpdateType ==
  ASSUME TypeOK, NEW i \in Updates
  PROVE  /\ log[i].pubkey \in Accounts /\ log[i].slot \in Nat
         /\ log[i].body \in Bodies
<1>1. log[i] \in [pubkey : Accounts, slot : Nat, body : Bodies]
  <2>1. log \in Seq([pubkey : Accounts, slot : Nat, body : Bodies])
    BY DEF TypeOK
  <2> QED BY <2>1, ElementOf DEF Updates
<1> QED BY <1>1

LEMMA LengthsAreNat ==
  ASSUME TypeOK, NEW i \in Updates PROVE DataLen(i, slice) \in Nat
<1>1. Kind(i) \in Kinds BY UpdateType, IntakeAssumption DEF Kind
<1>2. WireLen[Kind(i)] \in Nat BY <1>1 DEF Kinds, WireLen
<1>3. slice \in Nat \cup {NoSlice} BY IntakeAssumption DEF TypeOK
<1> QED BY <1>2, <1>3 DEF DataLen, Sliced

(* What one message does to the guard, whatever its shape.                 *)
LEMMA ObserveStep ==
  ASSUME TypeOK, AlarmInv, NEW at \in Nat, NEW len \in Nat, NEW lamports \in Nat,
         Observe(at, len, lamports)
  PROVE  /\ guard' \in Guards /\ silent' \in Nat /\ told' \in Nat
         /\ Periods'
         /\ guard'.impossible > 0 => told' > 0
         /\ ImpossibleEmpty(len, lamports) \/ told > 0 => told' > 0
<1>1. CASE ~ImpossibleEmpty(len, lamports)
  <2>1. guard' \in Guards /\ guard'.impossible = guard.impossible
    <3>1. guard \in Guards BY DEF TypeOK
    <3>2. guard' \in {guard, [guard EXCEPT !.closed = @ + 1]}
      BY <1>1 DEF Observe
    <3> QED BY <3>1, <3>2 DEF Guards
  <2>2. UNCHANGED <<silent, told>> BY <1>1 DEF Observe
  <2> QED BY <1>1, <2>1, <2>2 DEF AlarmInv, Periods, TypeOK
<1>2. CASE ImpossibleEmpty(len, lamports)
  <2> DEFINE k == guard.impossible
  <2>1. guard' \in Guards /\ guard'.impossible = k + 1 /\ k \in Nat
    <3>1. guard \in Guards BY DEF TypeOK
    <3>2. k \in Nat /\ guard.closed \in Nat /\ guard.first_slot \in Nat
      BY <3>1 DEF Guards
    <3>3. guard' = [guard EXCEPT
            !.impossible = @ + 1,
            !.first_slot = IF @ = NoSpan THEN at ELSE @,
            !.last_slot = at]
      BY <1>2 DEF Observe
    <3>4. guard' = [impossible |-> k + 1, closed |-> guard.closed,
                    first_slot |-> IF guard.first_slot = NoSpan THEN at
                                   ELSE guard.first_slot,
                    last_slot |-> at]
      BY <3>1, <3>3 DEF Guards
    <3> QED BY <3>2, <3>4 DEF Guards
  <2>2. PICK q \in Nat, r \in Nat : k = q * RepeatEvery + r
                                   /\ r < RepeatEvery /\ silent <= r
    BY DEF AlarmInv, Periods
  <2>3. RepeatEvery \in Nat /\ RepeatEvery > 1 /\ silent \in Nat /\ told \in Nat
    BY IntakeAssumption DEF TypeOK
  <2>4. CASE AlarmDue(k + 1)
    <3>1. silent' = 0 /\ told' = told + 1 BY <1>2, <2>4 DEF Observe
    <3>2. Periods'
      <4>1. CASE r + 1 < RepeatEvery
        <5>1. k + 1 = q * RepeatEvery + (r + 1) BY <2>1, <2>2, <2>3
        <5>2. /\ guard'.impossible = q * RepeatEvery + (r + 1)
              /\ r + 1 < RepeatEvery /\ silent' <= r + 1 /\ r + 1 \in Nat
          BY <2>1, <2>2, <3>1, <4>1, <5>1
        <5> QED BY <5>2 DEF Periods
      <4>2. CASE r + 1 = RepeatEvery
        <5>1. k + 1 = (q + 1) * RepeatEvery + 0 BY <2>1, <2>2, <2>3, <4>2
        <5>2. /\ guard'.impossible = (q + 1) * RepeatEvery + 0
              /\ 0 < RepeatEvery /\ silent' <= 0 /\ q + 1 \in Nat
          BY <2>1, <2>2, <2>3, <3>1, <5>1
        <5> QED BY <5>2 DEF Periods
      <4> QED BY <2>2, <2>3, <4>1, <4>2
    <3> QED BY <2>1, <2>3, <3>1, <3>2
  <2>5. CASE ~AlarmDue(k + 1)
    <3>1. silent' = silent + 1 /\ told' = told BY <1>2, <2>5 DEF Observe
    <3>2. k > 0 BY <2>1, <2>5 DEF AlarmDue
    <3>3. r + 1 # RepeatEvery
      <4> SUFFICES ASSUME r + 1 = RepeatEvery PROVE AlarmDue(k + 1) BY <2>5
      <4>1. k + 1 = (q + 1) * RepeatEvery BY <2>1, <2>2, <2>3
      <4>2. q + 1 \in 0..(k + 1)
        <5>1. (q + 1) * RepeatEvery >= (q + 1) * 1 BY <2>2, <2>3
        <5> QED BY <2>1, <2>2, <4>1, <5>1
      <4> QED BY <4>1, <4>2 DEF AlarmDue, IsMultiple
    <3>4. k + 1 = q * RepeatEvery + (r + 1) /\ r + 1 < RepeatEvery
      BY <2>1, <2>2, <2>3, <3>3
    <3>5. Periods'
      <4>1. /\ guard'.impossible = q * RepeatEvery + (r + 1)
            /\ r + 1 < RepeatEvery /\ silent' <= r + 1 /\ r + 1 \in Nat
        BY <2>1, <2>2, <2>3, <3>1, <3>4
      <4> QED BY <4>1 DEF Periods
    <3>6. told' > 0 BY <3>1, <3>2 DEF AlarmInv
    <3> QED BY <2>1, <2>3, <3>1, <3>5, <3>6
  <2> QED BY <2>4, <2>5
<1> QED BY <1>1, <1>2

(* An appended update leaves the earlier ones as they were.                *)
LEMMA LogGrows ==
  ASSUME TypeOK, NEW a \in Accounts, NEW body \in BodiesOf[a], Change(a, body)
  PROVE  /\ log' \in Seq([pubkey : Accounts, slot : Nat, body : Bodies])
         /\ Len(log') = Len(log) + 1 /\ Updates \subseteq Updates'
         /\ \A i \in Updates : log'[i] = log[i]
<1>1. body \in Bodies /\ slot \in Nat BY IntakeAssumption DEF TypeOK
<1> QED BY <1>1 DEF TypeOK, Change, Updates

LEMMA NextAlarmInv ==
  ASSUME TypeOK, AlarmInv, [Next]_vars PROVE TypeOK' /\ AlarmInv'
<1>1. ASSUME NEW a \in Accounts, NEW body \in BodiesOf[a], Change(a, body)
      PROVE  TypeOK' /\ AlarmInv'
  <2>1. UNCHANGED <<slot, next, slice, guard, raw, snaps, silent, told, faults>>
    BY <1>1 DEF Change
  <2>2. Destroyed' = Destroyed
    BY <1>1, <2>1, LogGrows DEF Destroyed, Body, TypeOK
  <2>3. Updates' = 1..Len(log') /\ Len(log) \in Nat
    BY <1>1, LogGrows DEF Updates, TypeOK
  <2>4. TypeOK'
    <3>1. next' \in 1..(Len(log') + 1)
      BY <1>1, <2>1, <2>3, LogGrows DEF TypeOK
    <3>2. DOMAIN raw' \subseteq Updates'
      BY <1>1, <2>1, LogGrows DEF TypeOK
    <3>3. log' \in Seq([pubkey : Accounts, slot : Nat, body : Bodies])
      BY <1>1, LogGrows
    <3> QED BY <2>1, <3>1, <3>2, <3>3 DEF TypeOK
  <2> QED BY <2>1, <2>2, <2>4 DEF AlarmInv, Periods
<1>2. CASE NewSlot
  <2>1. UNCHANGED <<log, next, slice, guard, raw, snaps, silent, told, faults>>
    BY <1>2 DEF NewSlot
  <2>2. slot' \in 1..(MaxSlot + 1)
    BY <1>2, IntakeAssumption DEF NewSlot, TypeOK
  <2> QED BY <2>1, <2>2
      DEF TypeOK, AlarmInv, Periods, Destroyed, Body, Updates
<1>3. CASE Receive
  <2> DEFINE len == DataLen(next, slice)
  <2>1. /\ next \in Updates /\ len \in Nat /\ log[next].slot \in Nat
        /\ Body(next).lamports \in Nat /\ Updates = 1..Len(log)
    <3>1. next \in Updates /\ Updates = 1..Len(log)
      BY <1>3 DEF Receive, TypeOK, Updates
    <3>2. log[next].slot \in Nat /\ log[next].body \in Bodies
      BY <3>1, UpdateType
    <3> QED BY <3>1, <3>2, LengthsAreNat DEF Body, Bodies
  <2>2. /\ Observe(log[next].slot, len, Body(next).lamports)
        /\ Upsert(next, len) /\ next' = next + 1
        /\ snaps' \subseteq snaps \cup {next}
        /\ UNCHANGED <<slot, log, slice, faults>>
    BY <1>3 DEF Receive
  <2>3. /\ DOMAIN raw' = DOMAIN raw \cup {next}
        /\ \A i \in DOMAIN raw' : raw'[i] = IF i = next THEN len ELSE raw[i]
    BY <2>2 DEF Upsert
  <2>4. /\ guard' \in Guards /\ silent' \in Nat /\ told' \in Nat
        /\ Periods'
        /\ guard'.impossible > 0 => told' > 0
        /\ ImpossibleEmpty(len, Body(next).lamports) \/ told > 0 => told' > 0
    <3> HIDE DEF len
    <3> QED BY <2>1, <2>2, ObserveStep
  <2>5. TypeOK'
    <3>1. next' \in 1..(Len(log') + 1) /\ Len(log') = Len(log)
      BY <2>1, <2>2 DEF TypeOK
    <3>2. /\ DOMAIN raw' \subseteq Updates' /\ snaps' \subseteq DOMAIN raw'
          /\ \A i \in DOMAIN raw' : raw'[i] \in Nat
      BY <2>1, <2>2, <2>3 DEF TypeOK, Updates
    <3> QED BY <2>2, <2>4, <3>1, <3>2 DEF TypeOK
  <2>6. Destroyed' # {} => told' > 0
    <3> SUFFICES ASSUME NEW i \in Destroyed' PROVE told' > 0 OBVIOUS
    <3>1. CASE i = next
      BY <2>2, <2>3, <2>4, <3>1 DEF Destroyed, Body, ImpossibleEmpty
    <3>2. CASE i # next
      BY <2>2, <2>3, <2>4, <3>2 DEF Destroyed, Body, AlarmInv
    <3> QED BY <3>1, <3>2
  <2> QED BY <2>4, <2>5, <2>6 DEF AlarmInv
<1>4. CASE FilteredOut \/ Reconnect
  <2>1. UNCHANGED <<slot, log, slice, guard, raw, snaps, silent, told>>
    BY <1>4 DEF FilteredOut, Reconnect
  <2>2. next' \in 1..(Len(log') + 1) /\ faults' \in Nat
    BY <1>4, <2>1 DEF FilteredOut, Reconnect, Faulty, TypeOK, Updates
  <2> QED BY <2>1, <2>2 DEF TypeOK, AlarmInv, Periods, Destroyed, Body, Updates
<1>5. CASE Restart
  <2>1. /\ UNCHANGED <<slot, log, raw, snaps, told>>
        /\ guard' = NewGuard /\ silent' = 0 /\ slice' \in Slices
    BY <1>5 DEF Restart
  <2>2. next' \in 1..(Len(log') + 1) /\ faults' \in Nat
    BY <1>5, <2>1 DEF Restart, Faulty, TypeOK
  <2>3. guard' \in Guards /\ guard'.impossible = 0
    BY <2>1 DEF NewGuard, NoSpan, Guards
  <2>4. Periods'
    <3>1. guard'.impossible = 0 * RepeatEvery + 0 BY <2>3, IntakeAssumption
    <3> QED BY <2>1, <3>1, IntakeAssumption DEF Periods
  <2>5. TypeOK' BY <2>1, <2>2, <2>3 DEF TypeOK, Updates
  <2> QED BY <2>1, <2>3, <2>4, <2>5 DEF AlarmInv, Destroyed, Body
<1>6. CASE UNCHANGED vars
  BY <1>6 DEF vars, TypeOK, AlarmInv, Periods, Destroyed, Body, Updates
<1> QED BY <1>1, <1>2, <1>3, <1>4, <1>5, <1>6 DEF Next

LEMMA InitAlarmInv == Init => TypeOK /\ AlarmInv
<1> SUFFICES ASSUME Init PROVE TypeOK /\ AlarmInv OBVIOUS
<1>1. TypeOK
  BY IntakeAssumption DEF Init, TypeOK, NewGuard, NoSpan, Guards, Updates
<1>2. Periods
  <2>1. guard.impossible = 0 * RepeatEvery + 0
    BY IntakeAssumption DEF Init, NewGuard
  <2> QED BY <2>1, IntakeAssumption DEF Init, Periods
<1> QED BY <1>1, <1>2 DEF Init, AlarmInv, NewGuard, Destroyed

(* Every variable of the intake keeps its type, and a decoded row always   *)
(* has its raw row beside it.                                              *)
THEOREM TypeCorrect == Spec => []TypeOK
<1>1. TypeOK /\ AlarmInv /\ [Next]_vars => (TypeOK /\ AlarmInv)'
  BY NextAlarmInv
<1> QED BY <1>1, InitAlarmInv, PTL DEF Spec

(* For every alarm period: a destroyed payload never goes unannounced, and *)
(* fewer than RepeatEvery of them follow one another without an alarm,     *)
(* through reconnects, replays and closures.                               *)
THEOREM LossIsNeverSilent == Spec => []LossIsAnnounced
<1>1. TypeOK /\ AlarmInv /\ [Next]_vars => (TypeOK /\ AlarmInv)'
  BY NextAlarmInv
<1>2. TypeOK /\ AlarmInv => LossIsAnnounced
  BY IntakeAssumption DEF TypeOK, AlarmInv, Periods, LossIsAnnounced
<1> QED BY <1>1, <1>2, InitAlarmInv, PTL DEF Spec

(* No noise: an alarm is raised by a message that destroys a payload, and  *)
(* by nothing else the process does or the chain produces.                 *)
THEOREM AlarmsHaveACause == Spec => AlarmsAreReal
<1>1. TypeOK /\ AlarmInv /\ [Next]_vars => (TypeOK /\ AlarmInv)'
  BY NextAlarmInv
<1>2. TypeOK /\ [Next]_vars =>
        [told' # told => next \in Destroyed' /\ next' = next + 1]_vars
  <2> SUFFICES ASSUME TypeOK, Next, told' # told
               PROVE  next \in Destroyed' /\ next' = next + 1
    OBVIOUS
  <2>1. Receive
    BY DEF Next, Change, NewSlot, FilteredOut, Reconnect, Restart
  <2> DEFINE len == DataLen(next, slice)
  <2>2. /\ Observe(log[next].slot, len, Body(next).lamports)
        /\ Upsert(next, len) /\ next' = next + 1 /\ log' = log
    BY <2>1 DEF Receive
  <2>3. len = 0 /\ Body(next).lamports > 0
    BY <2>2 DEF Observe, ImpossibleEmpty
  <2>4. next \in DOMAIN raw' /\ raw'[next] = len
    BY <2>2 DEF Upsert
  <2> QED BY <2>2, <2>3, <2>4 DEF Destroyed, Body
<1> QED BY <1>1, <1>2, InitAlarmInv, PTL DEF Spec, AlarmsAreReal

(* For any accounts and any slices: an obligation stored whole has its     *)
(* decoded row, also when other copies of it arrive destroyed.             *)
THEOREM WholeObligationsAreDecoded == Spec => []WholeObligationsDecode
<1>1. Init => WholeObligationsDecode
  BY DEF Init, WholeObligationsDecode
<1>2. TypeOK /\ AlarmInv /\ [Next]_vars => (TypeOK /\ AlarmInv)'
  BY NextAlarmInv
<1>3. TypeOK /\ WholeObligationsDecode /\ [Next]_vars => WholeObligationsDecode'
  <2> SUFFICES ASSUME TypeOK, WholeObligationsDecode, [Next]_vars
               PROVE  WholeObligationsDecode'
    OBVIOUS
  <2>1. ASSUME NEW a \in Accounts, NEW body \in BodiesOf[a], Change(a, body)
        PROVE  WholeObligationsDecode'
    <3>1. UNCHANGED <<raw, snaps>> BY <2>1 DEF Change
    <3>2. \A i \in DOMAIN raw : log'[i] = log[i]
      BY <2>1, LogGrows DEF TypeOK
    <3> QED BY <3>1, <3>2 DEF WholeObligationsDecode, Kind
  <2>2. CASE Receive
    <3> DEFINE len == DataLen(next, slice)
    <3>1. /\ Upsert(next, len) /\ log' = log
          /\ snaps' = IF Kind(next) = "Obligation" /\ Decodes(len, "Obligation")
                        THEN snaps \cup {next} ELSE snaps
      BY <2>2 DEF Receive
    <3>2. /\ DOMAIN raw' = DOMAIN raw \cup {next}
          /\ \A i \in DOMAIN raw' : raw'[i] = IF i = next THEN len ELSE raw[i]
      BY <3>1 DEF Upsert
    <3> HIDE DEF len
    <3>3. len = WireLen["Obligation"] => Decodes(len, "Obligation")
      BY DEF Decodes, LongEnough, WireLen, MinLen
    <3> SUFFICES ASSUME NEW i \in DOMAIN raw', Kind(i)' = "Obligation",
                        raw'[i] = WireLen["Obligation"]
                 PROVE  i \in snaps'
      BY DEF WholeObligationsDecode
    <3>4. Kind(i) = "Obligation" BY <3>1 DEF Kind
    <3>5. CASE i = next BY <3>1, <3>2, <3>3, <3>4, <3>5
    <3>6. CASE i # next
      BY <3>1, <3>2, <3>4, <3>6 DEF WholeObligationsDecode
    <3> QED BY <3>5, <3>6
  <2>3. CASE NewSlot \/ FilteredOut \/ Reconnect \/ Restart \/ UNCHANGED vars
    <3>1. UNCHANGED <<log, raw, snaps>>
      BY <2>3 DEF NewSlot, FilteredOut, Reconnect, Restart, vars
    <3> QED BY <3>1 DEF WholeObligationsDecode, Kind
  <2> QED BY <2>1, <2>2, <2>3 DEF Next
<1> QED BY <1>1, <1>2, <1>3, InitAlarmInv, PTL DEF Spec

-----------------------------------------------------------------------------
(* The risk list.                                                          *)

(* A factor below 2.0 is that of a position at risk, also when the product *)
(* saturated, unless the debt is of the order of 2^128 itself.             *)
LEMMA BelowIsAtRisk ==
  ASSUME NEW body \in Bodies, ~DebtFree(body), ~Wraps(body),
         2 * Scale * body.debt < Wide, RiskBelow(HealthFactor(body))
  PROVE  body.deposited < 2 * body.debt
<1> DEFINE d == body.deposited
           b == body.debt
           m == SaturatingMul(d, Scale)
           q == m \div b
<1>1. d \in Nat /\ b \in Nat /\ b > 0 /\ Scale \in Nat /\ Scale > 0
  BY IntakeAssumption DEF Bodies, DebtFree
<1>2. d * Scale \in Nat /\ b * Scale \in Nat /\ 2 * Scale * b = 2 * (b * Scale)
      /\ Wide \in Nat
  BY <1>1, IntakeAssumption DEF Wide
<1>3. m \in Nat /\ (m = d * Scale \/ m = Wide - 1)
  BY <1>1, <1>2, IntakeAssumption DEF SaturatingMul, Wide
<1>4. q \in Nat /\ m < q * b + b
  <2> HIDE DEF d, b, m
  <2> QED BY <1>1, <1>3, DivFacts
<1>5. HealthFactor(body) = q
  <2>1. q < Narrow /\ Narrow \in Nat
    BY <1>4, IntakeAssumption DEF Wraps, Quotient
  <2>2. q % Narrow = q BY <1>4, <2>1, ModBelow
  <2> QED BY <2>2 DEF HealthFactor, Quotient
<1> HIDE DEF d, b, m, q
<1> SUFFICES ASSUME d >= 2 * b PROVE FALSE
  BY <1>1 DEF d, b
<1>6. d * Scale >= 2 * (b * Scale)
  <2>1. d * Scale >= (2 * b) * Scale BY <1>1
  <2>2. (2 * b) * Scale = 2 * (b * Scale) BY <1>1
  <2> QED BY <2>1, <2>2
<1>7. m >= 2 * (b * Scale)
  BY <1>2, <1>3, <1>6 DEF b
<1>8. q + 1 <= 2 * Scale
  BY <1>1, <1>4, <1>5 DEF RiskBelow
<1>9. (q + 1) * b <= 2 * (b * Scale)
  <2>1. (q + 1) * b <= (2 * Scale) * b BY <1>1, <1>4, <1>8
  <2>2. (2 * Scale) * b = 2 * (b * Scale) BY <1>1
  <2> QED BY <2>1, <2>2
<1>10. (q + 1) * b = q * b + b
  BY <1>1, <1>4
<1> QED
  BY <1>1, <1>2, <1>3, <1>4, <1>7, <1>9, <1>10

(* The chain takes accounts to the states they may take.                   *)
BodiesOK == \A i \in Updates : log[i].body \in BodiesOf[log[i].pubkey]

LEMMA BodiesStep == TypeOK /\ BodiesOK /\ [Next]_vars => BodiesOK'
<1> SUFFICES ASSUME TypeOK, BodiesOK, [Next]_vars PROVE BodiesOK'
  OBVIOUS
<1>1. CASE UNCHANGED log
  BY <1>1 DEF BodiesOK, Updates
<1>2. ASSUME NEW a \in Accounts, NEW body \in BodiesOf[a], Change(a, body)
      PROVE  BodiesOK'
  <2>1. /\ log \in Seq([pubkey : Accounts, slot : Nat, body : Bodies])
        /\ log' = Append(log, [pubkey |-> a, slot |-> slot, body |-> body])
    BY <1>2 DEF TypeOK, Change
  <2>2. ASSUME NEW i \in Updates'
        PROVE  log'[i].body \in BodiesOf[log'[i].pubkey]
    <3>1. CASE i \in Updates
      BY <1>2, <3>1, LogGrows DEF BodiesOK
    <3>2. CASE i = Len(log) + 1
      BY <2>1, <3>2
    <3>3. i \in Updates \/ i = Len(log) + 1
      BY <2>1 DEF Updates
    <3> QED
      BY <3>1, <3>2, <3>3
  <2> QED
    BY <2>2 DEF BodiesOK
<1> QED
  BY <1>1, <1>2 DEF Next, NewSlot, Receive, FilteredOut, Reconnect, Restart, vars

(* Whatever is listed was at risk when its row was written, for any word   *)
(* and scale, and debts that are not of the order of 2^128 themselves: a   *)
(* position whose product saturated is healthy.                            *)
THEOREM ListedPositionsWereAtRisk ==
  ASSUME \A a \in Accounts : \A body \in BodiesOf[a] : 2 * Scale * body.debt < Wide
  PROVE  Spec => []ListedWasAtRisk
<1>1. Init => BodiesOK
  BY DEF Init, BodiesOK, Updates
<1>2. TypeOK /\ AlarmInv /\ BodiesOK /\ [Next]_vars => (TypeOK /\ AlarmInv /\ BodiesOK)'
  BY NextAlarmInv, BodiesStep
<1>3. TypeOK /\ BodiesOK => ListedWasAtRisk
  <2> SUFFICES ASSUME TypeOK, BodiesOK, NEW list \in RiskLists, NEW i \in list, ~Wraps(Body(i))
               PROVE  Body(i).deposited < 2 * Body(i).debt
    BY DEF ListedWasAtRisk
  <2>1. i \in Considered /\ RiskBelow(Health(i))
    BY DEF RiskLists, IsRiskList
  <2>2. i \in Updates /\ HasHealth(Health(i))
    BY <2>1 DEF Considered, TypeOK
  <2>3. Body(i) \in Bodies /\ Body(i) \in BodiesOf[log[i].pubkey] /\ log[i].pubkey \in Accounts
    BY <2>2, UpdateType DEF Body, BodiesOK
  <2>4. ~DebtFree(Body(i))
    BY <2>2 DEF HasHealth, Health, HealthFactor
  <2> QED
    BY <2>1, <2>3, <2>4, BelowIsAtRisk DEF Health
<1> QED
  BY <1>1, <1>2, <1>3, InitAlarmInv, PTL DEF Spec

(* An obligation whose one newest row is at risk is listed, or gives way   *)
(* to rows at least as low, whichever of its older rows the query looks    *)
(* at and whatever its limit; the sentinel must only lie above the bound.  *)
THEOREM NewestRowsAreListed ==
  ASSUME 2 * Scale <= Sentinel PROVE Spec => []NewestRiskIsListed
<1>1. TypeOK => NewestRiskIsListed
  <2> SUFFICES ASSUME TypeOK, NEW list \in RiskLists, NEW a \in Accounts,
                      NEW i \in RowsOf(a, snaps),
                      Newest(RowsOf(a, snaps)) = {i},
                      HealthFactor(Body(i)) \in 1..(2 * Scale - 1), i \notin list
               PROVE  /\ Cardinality(list) = ListLimit
                      /\ \A j \in list : Health(j) <= Health(i)
    BY DEF NewestRiskIsListed
  <2>1. i \in snaps /\ log[i].pubkey = a
    BY DEF RowsOf
  <2>2. HasHealth(Health(i)) /\ RiskBelow(Health(i))
    BY IntakeAssumption DEF Health, HasHealth, RiskBelow, Sentinel
  <2>3. i \in RowsOf(a, Considered)
    BY <2>1, <2>2 DEF Considered, RowsOf
  <2>4. PICK p \in Picks :
          LET having == {p[x] : x \in DOMAIN p} \cap {j \in snaps : RiskBelow(Health(j))}
          IN /\ list \subseteq having
             /\ list = having \/ Cardinality(list) = ListLimit
             /\ \A k \in list : \A j \in having \ list : Health(k) <= Health(j)
    BY DEF RiskLists, IsRiskList
  <2>5. a \in DOMAIN p /\ p[a] \in Newest(RowsOf(a, Considered))
    BY <2>1, <2>3, <2>4 DEF Picks, RowsOf
  <2>6. p[a] \in RowsOf(a, snaps) /\ log[i].slot <= log[p[a]].slot
    BY <2>3, <2>5 DEF Newest, RowsOf, Considered
  <2>7. \A j \in RowsOf(a, snaps) : log[j].slot <= log[p[a]].slot
    <3> SUFFICES ASSUME NEW j \in RowsOf(a, snaps) PROVE log[j].slot <= log[p[a]].slot
      OBVIOUS
    <3>1. i \in Newest(RowsOf(a, snaps))
      OBVIOUS
    <3>2. log[j].slot <= log[i].slot
      BY <3>1 DEF Newest
    <3>3. \A k \in RowsOf(a, snaps) : log[k].slot \in Nat
      BY UpdateType DEF RowsOf, TypeOK
    <3> QED
      BY <2>6, <3>2, <3>3
  <2>8. p[a] = i
    BY <2>6, <2>7 DEF Newest
  <2> QED
    BY <2>1, <2>2, <2>4, <2>5, <2>8
<1> QED
  BY <1>1, TypeCorrect, PTL
=============================================================================
