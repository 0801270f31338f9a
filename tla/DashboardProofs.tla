--------------------------- MODULE DashboardProofs ---------------------------
(***************************************************************************)
(* Proofs about module Dashboard: its types, what the two numbers on a     *)
(* page say together, whose data a run publishes, what a freeze leaves on  *)
(* the page, and how old the published file may be.                        *)
(***************************************************************************)
EXTENDS Dashboard, TLAPS

(* What every file that was ever written satisfies from then on. *)
Honest(file) ==
  file # Absent =>
    /\ file.wrote <= wrote
    /\ file.read <= file.generated
    /\ file.generated <= file.read + 2 * QueryMax

(* What a run knows of the rows, and how long it has known it. *)
RunInv ==
  /\ run.phase = "query" => run.answered < Panels
  /\ Running => run.start <= run.since /\ run.since <= now
  /\ run.phase = "system" => now <= run.since + QueryMax
  /\ run.phase = "read" =>
       /\ run.since <= run.read /\ run.read <= now /\ run.wrote <= wrote
       /\ now <= run.since + QueryMax
  /\ run.phase = "body" =>
       /\ run.start <= run.read /\ run.read <= run.since /\ run.wrote <= wrote
       /\ run.since <= run.read + QueryMax /\ now <= run.since + QueryMax

(* There is no file in a run's directory but the one it has written. *)
OutInv ==
  /\ run.phase \in {"query", "system", "read", "body"} => out = Absent
  /\ run.phase = "put" /\ out # Absent => run.start <= out.read

Inv ==
  /\ TypeOK /\ RunInv /\ OutInv /\ wrote <= now
  /\ Honest(out) /\ Honest(bucket) /\ Honest(page)

LEMMA TimesAreIntegers == \A t \in Times : t \in Int /\ t >= 0 /\ t <= MaxNow
  BY DashboardAssumption DEF Times

LEMMA TimesWithInterval == \A t \in Times : t + Interval \in 0 .. MaxNow + Interval
                                            /\ t + 1 \in 0 .. MaxNow + Interval
                                            /\ t \in 0 .. MaxNow + Interval
  BY DashboardAssumption DEF Times

-----------------------------------------------------------------------------
(* Runs                                                                    *)

Runs == [phase : {"off", "query", "system", "read", "body", "put"},
         answered : 0 .. Panels, start : Times, since : Times,
         wrote : Times, read : Times]

LEMMA OffIsARun == Off \in Runs
  BY DashboardAssumption DEF Off, Runs, Times

LEMMA BegunIsARun ==
  ASSUME now \in Times
  PROVE  /\ Begun \in Runs
         /\ Begun.phase = "query" => Begun.answered < Panels
         /\ Begun.phase \in {"query", "system"}
         /\ Begun.start = now /\ Begun.since = now
  BY DashboardAssumption DEF Begun, Runs, Times

-----------------------------------------------------------------------------
LEMMA InitInv == Init => Inv
<1> SUFFICES ASSUME Init PROVE Inv
  OBVIOUS
<1>1. 0 \in Times
  BY DashboardAssumption DEF Times
<1>a. leak \in BOOLEAN
  BY DEF Init
<1>b. /\ now = 0 /\ wrote = 0 /\ timer = "on" /\ due = 0 /\ run = Off /\ out = Absent
      /\ bucket = Absent /\ page = Absent /\ freeze = "no" /\ final = "none"
      /\ troubled = 0 /\ troubles = 0
  BY DEF Init
<1>2. TypeOK
  BY <1>a, <1>b, <1>1, OffIsARun, DashboardAssumption DEF TypeOK, Runs
<1>3. RunInv /\ OutInv
  BY DEF Init, RunInv, OutInv, Running, Off
<1>4. Honest(out) /\ Honest(bucket) /\ Honest(page) /\ wrote <= now
  BY DEF Init, Honest
<1>5. QED
  BY <1>2, <1>3, <1>4 DEF Inv

(* A run that starts has nothing in its directory. *)
LEMMA BeginInv ==
  ASSUME Inv, run' = Begun, out' = Cleared, due' \in 0 .. MaxNow + Interval,
         UNCHANGED <<now, wrote, timer, bucket, page, history>>,
         leak' \in BOOLEAN,
         freeze' \in {"no", "drained", "refresh", "refreshed", "frozen"},
         final' \in {"none", "awaited", "joined", "published", "failed"}
  PROVE  Inv'
<1> USE DEF Inv
<1>0. now \in Times /\ now \in Int
  BY TimesAreIntegers DEF TypeOK
<1>1. TypeOK'
  BY <1>0, BegunIsARun DEF TypeOK, Runs, Cleared, history
<1>2. RunInv'
  BY <1>0, BegunIsARun, DashboardAssumption DEF RunInv, Running
<1>3. OutInv'
  BY <1>0, BegunIsARun DEF OutInv, Cleared
<1>4. Honest(out)' /\ Honest(bucket)' /\ Honest(page)' /\ (wrote <= now)'
  BY DEF Honest, Cleared
<1>5. QED
  BY <1>1, <1>2, <1>3, <1>4

(* A run that ends leaves everything else to the step that ends it. *)
LEMMA EndInv ==
  ASSUME Inv, run' = Off, UNCHANGED <<now, wrote, page>>,
         out' \in {out, Absent}, bucket' \in {bucket, out},
         timer' \in {"on", "stopped", "missing"},
         due' \in 0 .. MaxNow + Interval, leak' \in BOOLEAN,
         freeze' \in {"no", "drained", "refresh", "refreshed", "frozen"},
         final' \in {"none", "awaited", "joined", "published", "failed"},
         troubled' \in Times, troubles' \in 0 .. MaxTrouble
  PROVE  Inv'
<1> USE DEF Inv
<1>1. TypeOK'
  BY OffIsARun DEF TypeOK, Runs
<1>2. RunInv' /\ OutInv'
  BY DEF RunInv, OutInv, Running, Off
<1>3. Honest(out)' /\ Honest(bucket)' /\ Honest(page)' /\ (wrote <= now)'
  BY DEF Honest
<1>4. QED
  BY <1>1, <1>2, <1>3

LEMMA TroubleTypes ==
  ASSUME TypeOK, Trouble
  PROVE  troubled' \in Times /\ troubles' \in 0 .. MaxTrouble
  BY DashboardAssumption DEF TypeOK, Trouble

LEMMA OverTypes ==
  ASSUME TypeOK, NEW result \in {"published", "failed"}, Over(result)
  PROVE  /\ leak' \in BOOLEAN
         /\ freeze' \in {"no", "drained", "refresh", "refreshed", "frozen"}
         /\ final' \in {"none", "awaited", "joined", "published", "failed"}
  BY DEF TypeOK, Over

-----------------------------------------------------------------------------
(* The steps of a run                                                      *)

LEMMA PanelAnswersInv == Inv /\ PanelAnswers => Inv'
<1> SUFFICES ASSUME Inv, PanelAnswers PROVE Inv'
  OBVIOUS
<1> USE DEF Inv
<1>1. /\ now \in Times /\ run \in Runs /\ run.answered + 1 \in 0 .. Panels
      /\ run.phase = "query"
  BY DashboardAssumption DEF TypeOK, Runs, RunInv, PanelAnswers
<1>2. /\ run' = [run EXCEPT !.answered = run.answered + 1, !.since = now,
                   !.phase = IF run.answered + 1 = Panels THEN "system" ELSE "query"]
      /\ UNCHANGED <<now, wrote, timer, due, out, bucket, page, script, history>>
  BY DEF PanelAnswers
<1>3. run' \in Runs
  BY <1>1, <1>2 DEF Runs
<1>4. TypeOK'
  BY <1>2, <1>3 DEF TypeOK, Runs, script, history
<1>5. RunInv'
  <2>1. /\ run'.phase = "query" => run'.answered < Panels
        /\ run'.phase \in {"query", "system"}
    BY <1>1, <1>2, DashboardAssumption DEF Runs
  <2>2. run'.start = run.start /\ run'.since = now /\ run.start \in Times
    BY <1>1, <1>2 DEF Runs
  <2>3. run.start <= run.since /\ run.since <= now /\ run.since \in Times
    BY <1>1 DEF RunInv, Running, Runs
  <2>4. run'.start <= run'.since /\ run'.since <= now'
    BY <1>1, <1>2, <2>2, <2>3, TimesAreIntegers
  <2>5. now' <= run'.since + QueryMax
    BY <1>1, <1>2, <2>2, TimesAreIntegers, DashboardAssumption
  <2>6. QED
    BY <2>1, <2>4, <2>5 DEF RunInv, Running
<1>6. OutInv'
  BY <1>1, <1>2 DEF OutInv, Runs
<1>7. Honest(out)' /\ Honest(bucket)' /\ Honest(page)' /\ (wrote <= now)'
  BY <1>2 DEF Honest
<1>8. QED
  BY <1>4, <1>5, <1>6, <1>7

LEMMA SystemReadsInv == Inv /\ SystemReads => Inv'
<1> SUFFICES ASSUME Inv, SystemReads PROVE Inv'
  OBVIOUS
<1> USE DEF Inv
<1>1. now \in Times /\ wrote \in Times /\ run \in Runs /\ run.phase = "system"
  BY DEF TypeOK, Runs, SystemReads
<1>2. /\ run' = [run EXCEPT !.phase = "read", !.wrote = wrote, !.read = now]
      /\ UNCHANGED <<now, wrote, timer, due, out, bucket, page, script, history>>
  BY DEF SystemReads
<1>3. /\ run' \in Runs /\ run'.phase = "read" /\ run'.since = run.since
      /\ run'.wrote = wrote /\ run'.read = now /\ run'.start = run.start
  BY <1>1, <1>2 DEF Runs
<1>4. TypeOK'
  BY <1>2, <1>3 DEF TypeOK, Runs, script, history
<1>5. RunInv'
  <2>1. run.start \in Times /\ run.since \in Times
        /\ run.start <= run.since /\ run.since <= now
        /\ now <= run.since + QueryMax
    BY <1>1 DEF RunInv, Running, Runs
  <2>2. wrote <= wrote /\ now <= now
    BY <1>1, TimesAreIntegers
  <2>3. QED
    BY <1>2, <1>3, <2>1, <2>2 DEF RunInv, Running
<1>6. OutInv'
  BY <1>1, <1>2, <1>3 DEF OutInv
<1>7. Honest(out)' /\ Honest(bucket)' /\ Honest(page)' /\ (wrote <= now)'
  BY <1>2 DEF Honest
<1>8. QED
  BY <1>4, <1>5, <1>6, <1>7

LEMMA SystemHeaderInv == Inv /\ SystemHeader => Inv'
<1> SUFFICES ASSUME Inv, SystemHeader PROVE Inv'
  OBVIOUS
<1> USE DEF Inv
<1>1. now \in Times /\ run \in Runs /\ run.phase = "read"
  BY DEF TypeOK, Runs, SystemHeader
<1>2. /\ run' = [run EXCEPT !.phase = "body", !.since = now]
      /\ UNCHANGED <<now, wrote, timer, due, out, bucket, page, script, history>>
  BY DEF SystemHeader
<1>3. /\ run' \in Runs /\ run'.phase = "body" /\ run'.since = now
      /\ run'.wrote = run.wrote /\ run'.read = run.read /\ run'.start = run.start
  BY <1>1, <1>2 DEF Runs
<1>4. TypeOK'
  BY <1>2, <1>3 DEF TypeOK, Runs, script, history
<1>5. RunInv'
  <2>1. /\ run.start \in Times /\ run.since \in Times /\ run.read \in Times
        /\ run.start <= run.since /\ run.since <= run.read /\ run.read <= now
        /\ now <= run.since + QueryMax /\ run.wrote <= wrote
    BY <1>1 DEF RunInv, Running, Runs
  <2>2. /\ run.start <= run.read /\ run.start <= now /\ now <= now
        /\ now <= run.read + QueryMax /\ now <= now + QueryMax
    BY <1>1, <2>1, TimesAreIntegers, DashboardAssumption
  <2>3. QED
    BY <1>2, <1>3, <2>1, <2>2 DEF RunInv, Running
<1>6. OutInv'
  BY <1>1, <1>2, <1>3 DEF OutInv
<1>7. Honest(out)' /\ Honest(bucket)' /\ Honest(page)' /\ (wrote <= now)'
  BY <1>2 DEF Honest
<1>8. QED
  BY <1>4, <1>5, <1>6, <1>7

(* A run that goes on to the PUT, with or without a file. *)
LEMMA ToPutInv ==
  ASSUME Inv, Running, run' = [run EXCEPT !.phase = "put", !.since = now],
         out' \in Files \cup {Absent}, out' # Absent => run.start <= out'.read,
         Honest(out)',
         UNCHANGED <<now, wrote, timer, due, bucket, page, script, history>>
  PROVE  Inv'
<1> USE DEF Inv
<1>1. now \in Times /\ run \in Runs
  BY DEF TypeOK, Runs
<1>2. /\ run' \in Runs /\ run'.phase = "put" /\ run'.since = now
      /\ run'.start = run.start
  BY <1>1 DEF Runs
<1>3. TypeOK'
  BY <1>2 DEF TypeOK, Runs, script, history
<1>4. RunInv'
  <2>1. run.start \in Times /\ run.since \in Times
        /\ run.start <= run.since /\ run.since <= now
    BY <1>1 DEF RunInv, Runs
  <2>2. run.start <= now /\ now <= now
    BY <1>1, <2>1, TimesAreIntegers
  <2>3. QED
    BY <1>2, <2>2 DEF RunInv, Running
<1>5. OutInv'
  BY <1>2 DEF OutInv
<1>6. Honest(bucket)' /\ Honest(page)' /\ (wrote <= now)'
  BY DEF Honest
<1>7. QED
  BY <1>3, <1>4, <1>5, <1>6

LEMMA SystemAnswersInv == Inv /\ SystemAnswers => Inv'
<1> SUFFICES ASSUME Inv, SystemAnswers PROVE Inv'
  OBVIOUS
<1> USE DEF Inv
<1>1. /\ run.phase = "body" /\ out' = Stats
      /\ run' = [run EXCEPT !.phase = "put", !.since = now]
      /\ UNCHANGED <<now, wrote, timer, due, bucket, page, script, history>>
  BY DEF SystemAnswers
<1>2. /\ run.wrote \in Times /\ run.read \in Times /\ now \in Times
      /\ run.start \in Times /\ run.since \in Times
  BY DEF TypeOK
<1>3. /\ run.start <= run.read /\ run.read <= run.since /\ run.since <= now
      /\ run.since <= run.read + QueryMax /\ now <= run.since + QueryMax
      /\ run.wrote <= wrote
  BY <1>1 DEF RunInv, Running
<1>a. run.read <= now /\ now <= run.read + 2 * QueryMax
  BY <1>2, <1>3, TimesAreIntegers, DashboardAssumption
<1>4. Stats \in Files
  BY <1>2 DEF Stats, Files
<1>5. Honest(out)'
  BY <1>1, <1>3, <1>a DEF Honest, Stats
<1>6. run.start <= Stats.read
  BY <1>3 DEF Stats
<1>7. QED
  BY <1>1, <1>4, <1>5, <1>6, ToPutInv DEF Running

LEMMA GeneratorVanishesInv == Inv /\ GeneratorVanishes => Inv'
<1> SUFFICES ASSUME Inv, GeneratorVanishes PROVE Inv'
  OBVIOUS
<1>1. /\ run.phase \in {"query", "body"}
      /\ run' = [run EXCEPT !.phase = "put", !.since = now]
      /\ UNCHANGED <<now, wrote, timer, due, out, bucket, page, script, history>>
  BY DEF GeneratorVanishes
<1>2. out = Absent
  BY <1>1 DEF Inv, OutInv
<1>3. Honest(out)'
  BY <1>1, <1>2 DEF Honest
<1>4. QED
  BY <1>1, <1>2, <1>3, ToPutInv DEF Running

-----------------------------------------------------------------------------
(* The steps that end a run                                                *)

LEMMA EndingsInv ==
  Inv /\ (GeneratorFails \/ Publish \/ PutFails) => Inv'
<1> SUFFICES ASSUME Inv, GeneratorFails \/ Publish \/ PutFails PROVE Inv'
  OBVIOUS
<1>0. TypeOK
  BY DEF Inv
<1>1. CASE GeneratorFails
  <2>1. Over("failed") /\ Trouble
        /\ UNCHANGED <<now, wrote, timer, due, out, bucket, page>>
    BY <1>1 DEF GeneratorFails
  <2>2. run' = Off
    BY <2>1 DEF Over
  <2>3. timer' \in {"on", "stopped", "missing"} /\ due' \in 0 .. MaxNow + Interval
    BY <1>0, <2>1 DEF TypeOK
  <2>4. QED
    BY <1>0, <2>1, <2>2, <2>3, OverTypes, TroubleTypes, EndInv
<1>2. CASE Publish
  <2>1. /\ Over("published") /\ bucket' = out /\ out' = Absent
        /\ UNCHANGED <<now, wrote, timer, due, page, history>>
    BY <1>2 DEF Publish
  <2>2. run' = Off
    BY <2>1 DEF Over
  <2>3. /\ timer' \in {"on", "stopped", "missing"} /\ due' \in 0 .. MaxNow + Interval
        /\ troubled' \in Times /\ troubles' \in 0 .. MaxTrouble
    BY <1>0, <2>1 DEF TypeOK, history
  <2>4. QED
    BY <1>0, <2>1, <2>2, <2>3, OverTypes, EndInv
<1>3. CASE PutFails
  <2>1. /\ Over("failed") /\ Trouble /\ bucket' \in {bucket, out}
        /\ UNCHANGED <<now, wrote, timer, due, out, page>>
    BY <1>3 DEF PutFails
  <2>2. run' = Off
    BY <2>1 DEF Over
  <2>3. timer' \in {"on", "stopped", "missing"} /\ due' \in 0 .. MaxNow + Interval
    BY <1>0, <2>1 DEF TypeOK
  <2>4. QED
    BY <1>0, <2>1, <2>2, <2>3, OverTypes, TroubleTypes, EndInv
<1>4. QED
  BY <1>1, <1>2, <1>3

LEMMA RebootInv == Inv /\ Reboot => Inv'
<1> SUFFICES ASSUME Inv, Reboot PROVE Inv'
  OBVIOUS
<1>0. TypeOK /\ now \in Times
  BY DEF Inv, TypeOK
<1>1. /\ run' = Off /\ out' = Absent /\ due' = now + 1
      /\ timer' \in {timer, "missing"} /\ Trouble
      /\ UNCHANGED <<now, wrote, bucket, page>>
  BY DEF Reboot
<1>2. due' \in 0 .. MaxNow + Interval
  BY <1>0, <1>1, TimesWithInterval
<1>3. /\ timer' \in {"on", "stopped", "missing"}
      /\ freeze' \in {"no", "drained", "refresh", "refreshed", "frozen"}
      /\ final' \in {"none", "awaited", "joined", "published", "failed"}
      /\ leak' \in BOOLEAN
  BY <1>0, <1>1 DEF Reboot, TypeOK, script
<1>4. QED
  BY <1>0, <1>1, <1>2, <1>3, TroubleTypes, EndInv

LEMMA FreezeStopsTimerInv == Inv /\ FreezeStopsTimer => Inv'
<1> SUFFICES ASSUME Inv, FreezeStopsTimer PROVE Inv'
  OBVIOUS
<1>1. /\ run' = Off /\ bucket' \in {bucket, out}
      /\ freeze' = "frozen" /\ timer' \in {"stopped", timer}
      /\ UNCHANGED <<now, wrote, due, out, page, leak, final, history>>
  BY DEF FreezeStopsTimer
<1>2. QED
  BY <1>1, EndInv DEF Inv, TypeOK, history

-----------------------------------------------------------------------------
(* The steps that start one                                                *)

LEMMA StartsInv ==
  Inv /\ (Elapse \/ FreezeRefreshes) => Inv'
<1> SUFFICES ASSUME Inv, Elapse \/ FreezeRefreshes PROVE Inv'
  OBVIOUS
<1> USE DEF Inv
<1>1. now + Interval \in 0 .. MaxNow + Interval
  BY TimesWithInterval DEF TypeOK
<1>2. CASE Elapse
  BY <1>1, <1>2, BeginInv DEF Elapse, TypeOK, script
<1>4. CASE FreezeRefreshes /\ ~ Running
  BY <1>1, <1>4, BeginInv DEF FreezeRefreshes, TypeOK
<1>5. CASE FreezeRefreshes /\ Running
  <2>1. /\ freeze' = "refresh" /\ final' = "joined"
        /\ UNCHANGED <<due, run, out, now, wrote, timer, bucket, page, leak, history>>
    BY <1>5 DEF FreezeRefreshes
  <2>2. TypeOK'
    BY <2>1 DEF TypeOK, history
  <2>3. QED
    BY <2>1, <2>2 DEF RunInv, OutInv, Honest, Running
<1>6. QED
  BY <1>2, <1>4, <1>5

-----------------------------------------------------------------------------
(* The rest                                                                *)

LEMMA TickInv == Inv /\ Tick => Inv'
<1> SUFFICES ASSUME Inv, Tick PROVE Inv'
  OBVIOUS
<1> USE DEF Inv
<1>1. /\ now \in Times /\ now' \in Times /\ now' = now + 1
      /\ UNCHANGED <<wrote, timer, due, run, out, bucket, page, script, history>>
  BY DashboardAssumption DEF Tick, TypeOK, Times, vm
<1>2. TypeOK'
  BY <1>1 DEF TypeOK, script, history
<1>3. now \in Int /\ run.since \in Int /\ QueryMax \in Int
  BY TimesAreIntegers, DashboardAssumption DEF TypeOK
<1>4. run.phase \in {"system", "read", "body"} => now + 1 <= run.since + QueryMax
  <2>1. run.phase \in {"system", "read", "body"} => ~ (now - run.since >= QueryMax)
    BY DEF Tick, Overdue
  <2>2. QED
    BY <1>3, <2>1
<1>5. Running => run.since <= now + 1
  <2>1. Running => run.since <= now
    BY DEF RunInv
  <2>2. QED
    BY <1>3, <2>1
<1>b. run.phase = "read" => run.read <= now + 1
  <2>1. run.phase = "read" => run.read <= now
    BY DEF RunInv
  <2>2. run.read \in Int
    BY TimesAreIntegers DEF TypeOK
  <2>3. QED
    BY <1>3, <2>1, <2>2
<1>6. RunInv'
  BY <1>1, <1>4, <1>5, <1>b DEF RunInv, Running
<1>7. OutInv' /\ Honest(out)' /\ Honest(bucket)' /\ Honest(page)'
  BY <1>1 DEF OutInv, Honest
<1>8. wrote <= now + 1
  BY <1>1, TimesAreIntegers DEF TypeOK
<1>9. QED
  BY <1>1, <1>2, <1>6, <1>7, <1>8

LEMMA WriteInv == Inv /\ Write => Inv'
<1> SUFFICES ASSUME Inv, Write PROVE Inv'
  OBVIOUS
<1> USE DEF Inv
<1>1. /\ wrote' = now /\ now \in Times /\ wrote \in Times
      /\ UNCHANGED <<now, timer, due, run, out, bucket, page, script, history>>
  BY DEF Write, vm, TypeOK
<1>2. TypeOK'
  BY <1>1 DEF TypeOK, script, history
<1>3. \A t \in Times : t <= wrote => t <= now
  BY <1>1, TimesAreIntegers
<1>4. RunInv' /\ OutInv'
  BY <1>1, <1>3 DEF RunInv, OutInv, Running, TypeOK
<1>5. ASSUME NEW file \in Files \cup {Absent}, Honest(file)
      PROVE  file # Absent => /\ file.wrote <= now
                              /\ file.read <= file.generated
                              /\ file.generated <= file.read + 2 * QueryMax
  BY <1>3, <1>5 DEF Honest, Files
<1>6. Honest(out)' /\ Honest(bucket)' /\ Honest(page)'
  BY <1>1, <1>5 DEF Honest, TypeOK
<1>7. (wrote <= now)'
  BY <1>1, TimesAreIntegers
<1>8. QED
  BY <1>2, <1>4, <1>6, <1>7

LEMMA ScriptsInv ==
  Inv /\ (RefreshAll \/ Install \/ FreezeDrains \/ FreezeHasNoUnit \/ Resume)
    => Inv'
<1> SUFFICES ASSUME Inv,
                    RefreshAll \/ Install \/ FreezeDrains \/ FreezeHasNoUnit \/ Resume
             PROVE  Inv'
  OBVIOUS
<1> USE DEF Inv
<1>1. /\ UNCHANGED <<now, wrote, run, out, bucket>> /\ page' \in {page, bucket}
      /\ timer' \in {"on", "stopped", "missing"} /\ due' \in {due, now}
      /\ freeze' \in {"no", "drained", "refresh", "refreshed", "frozen"}
      /\ final' \in {"none", "awaited", "joined", "published", "failed"}
      /\ troubled' \in Times /\ troubles' \in 0 .. MaxTrouble
      /\ leak' \in BOOLEAN
  BY TroubleTypes
     DEF RefreshAll, Install, FreezeDrains, FreezeHasNoUnit, Resume, TypeOK, vm,
         script, history
<1>2. TypeOK'
  BY <1>1, TimesWithInterval DEF TypeOK
<1>3. RunInv' /\ OutInv' /\ Honest(out)' /\ Honest(bucket)' /\ Honest(page)'
  BY <1>1 DEF RunInv, OutInv, Running, Honest
<1>4. QED
  BY <1>1, <1>2, <1>3

LEMMA NextInv == Inv /\ [Next]_vars => Inv'
<1> SUFFICES ASSUME Inv, [Next]_vars PROVE Inv'
  OBVIOUS
<1>1. CASE UNCHANGED vars
  BY <1>1 DEF vars, vm, script, history, Inv, TypeOK, RunInv, OutInv, Running, Honest
<1>2. QED
  BY <1>1, PanelAnswersInv, SystemReadsInv, SystemHeaderInv, SystemAnswersInv,
     GeneratorVanishesInv, EndingsInv, RebootInv, FreezeStopsTimerInv, StartsInv,
     TickInv, WriteInv, ScriptsInv
     DEF Next

-----------------------------------------------------------------------------
(* Every state of the dashboard is of its type. *)
THEOREM TypeCorrect == Spec => []TypeOK
<1>1. Inv => TypeOK
  BY DEF Inv
<1>2. QED
  BY InitInv, NextInv, <1>1, PTL DEF Spec

(* However old a page is and whatever stopped it from being refreshed, the *)
(* age it shows and the time since its file was generated bound the age of *)
(* the last row, up to two silences: the one an answer survives before its *)
(* header and the one after it.                                            *)
THEOREM PagesAreHonest == Spec => []ShownTogetherTheyBound
<1>1. Inv => ShownTogetherTheyBound
  <2> SUFFICES ASSUME Inv, page # Absent
               PROVE  now - wrote <= (page.read - page.wrote)
                                       + (now - page.generated)
                                       + 2 * QueryMax
    BY DEF ShownTogetherTheyBound
  <2>1. /\ page.wrote <= wrote /\ page.generated <= page.read + 2 * QueryMax
    BY DEF Inv, Honest
  <2>2. /\ page.wrote \in Times /\ page.read \in Times /\ page.generated \in Times
        /\ now \in Times /\ wrote \in Times
    BY DEF Inv, TypeOK, Files
  <2>3. QED
    BY <2>1, <2>2, TimesAreIntegers, DashboardAssumption
<1>2. QED
  BY InitInv, NextInv, <1>1, PTL DEF Spec

(* Whatever earlier runs left behind, and however a run ends, what it      *)
(* publishes it has read itself.                                           *)
THEOREM RunsPublishTheirOwn == Spec => RunPublishesItsOwn
<1>1. ASSUME Inv, [Next]_vars, bucket' # bucket
      PROVE  Running /\ bucket'.read >= run.start /\ bucket'.generated >= bucket'.read
  <2>1. run.phase = "put" /\ out # Absent /\ bucket' = out
    BY <1>1 DEF Next, vars, vm, Tick, Write, Elapse, PanelAnswers, SystemReads,
                SystemHeader, SystemAnswers, GeneratorFails, GeneratorVanishes,
                Publish, PutFails, RefreshAll, Reboot, Install, FreezeDrains,
                FreezeRefreshes, FreezeHasNoUnit, FreezeStopsTimer, Resume
  <2>2. run.start <= out.read /\ out.read <= out.generated
    BY <1>1, <2>1 DEF Inv, OutInv, Honest
  <2>3. run.start \in Times /\ out.read \in Times /\ out.generated \in Times
    BY <1>1, <2>1 DEF Inv, TypeOK, Files
  <2>4. QED
    BY <2>1, <2>2, <2>3, TimesAreIntegers DEF Running
<1>2. Inv /\ [Next]_vars
        => [Running /\ bucket'.read >= run.start
                    /\ bucket'.generated >= bucket'.read]_bucket
  BY <1>1
<1>3. QED
  BY InitInv, NextInv, <1>2, PTL DEF Spec, RunPublishesItsOwn

-----------------------------------------------------------------------------
(* The last refresh of a freeze.                                           *)

(* From the start of its own run on, whatever the freeze reads, writes or  *)
(* publishes is of the last row: none lands any more, if the writers are   *)
(* stopped.                                                                *)
FinalInv ==
  freeze # "no" /\ ~leak /\ final \in {"awaited", "published"} =>
    /\ run.phase \in {"read", "body"} => run.wrote = wrote
    /\ out # Absent => out.wrote = wrote
    /\ final = "published" => bucket # Absent /\ bucket.wrote = wrote

LEMMA FinalStep == Inv /\ FinalInv /\ [Next]_vars => FinalInv'
<1> SUFFICES ASSUME Inv, FinalInv, [Next]_vars PROVE FinalInv'
  OBVIOUS
<1>0. run \in Runs
  BY DEF Inv, TypeOK, Runs
<1> USE DEF FinalInv, vm, script, history
<1>1. CASE Write
  BY <1>1 DEF Write, Flowing
<1>2. CASE Elapse \/ FreezeRefreshes
  <2>1. Begun.phase \notin {"read", "body"}
    BY DEF Begun
  <2> QED
    BY <1>2, <2>1 DEF Elapse, FreezeRefreshes, Cleared
<1>3. CASE PanelAnswers
  <2>1. run'.phase \notin {"read", "body"}
    BY <1>0, <1>3 DEF PanelAnswers, Runs
  <2> QED
    BY <1>3, <2>1 DEF PanelAnswers
<1>4. CASE SystemReads
  <2>1. run'.wrote = wrote
    BY <1>0, <1>4 DEF SystemReads, Runs
  <2> QED
    BY <1>4, <2>1 DEF SystemReads
<1>10. CASE SystemHeader
  <2>1. run'.wrote = run.wrote /\ run.phase = "read"
    BY <1>0, <1>10 DEF SystemHeader, Runs
  <2> QED
    BY <1>10, <2>1 DEF SystemHeader
<1>5. CASE SystemAnswers
  <2>1. run'.phase = "put" /\ out'.wrote = run.wrote /\ run.phase = "body"
    BY <1>0, <1>5 DEF SystemAnswers, Runs, Stats
  <2> QED
    BY <1>5, <2>1 DEF SystemAnswers
<1>6. CASE GeneratorVanishes
  <2>1. run'.phase = "put"
    BY <1>0, <1>6 DEF GeneratorVanishes, Runs
  <2> QED
    BY <1>6, <2>1 DEF GeneratorVanishes
<1>7. CASE GeneratorFails \/ Publish \/ PutFails
  <2>1. run'.phase = "off"
    BY <1>7 DEF GeneratorFails, Publish, PutFails, Over, Off
  <2> QED
    BY <1>7, <2>1 DEF GeneratorFails, Publish, PutFails, Over
<1>8. CASE FreezeStopsTimer
  <2>1. run'.phase = "off"
    BY <1>8 DEF FreezeStopsTimer, Off
  <2> QED
    BY <1>8, <2>1 DEF FreezeStopsTimer
<1>11. CASE Reboot
  <2>1. run'.phase = "off" /\ out' = Absent /\ UNCHANGED <<bucket, wrote>>
    BY <1>11 DEF Reboot, Off
  <2>2. \/ freeze' = "no"
        \/ leak' \in {leak, TRUE} /\ UNCHANGED <<freeze, final>>
    BY <1>11 DEF Reboot
  <2>3. \/ freeze' = "no" \/ leak'
        \/ ~leak /\ ~leak' /\ UNCHANGED <<freeze, final>>
    BY <2>2
  <2> QED
    BY <2>1, <2>3
<1>9. CASE \/ Tick \/ RefreshAll \/ Install \/ FreezeDrains \/ FreezeHasNoUnit \/ Resume
           \/ UNCHANGED vars
  BY <1>9 DEF Tick, RefreshAll, Install, FreezeDrains, FreezeHasNoUnit, Resume, vars
<1> QED
  BY <1>1, <1>2, <1>3, <1>4, <1>5, <1>6, <1>7, <1>8, <1>9, <1>10, <1>11 DEF Next

(* A freeze that stopped the writers and published by itself leaves the    *)
(* last row on the page that outlives it, also when the timer starts       *)
(* another run before it is stopped, and that run is cut short in the      *)
(* middle of its PUT.                                                      *)
THEOREM LastPageShowsTheLastRow == Spec => []FinalPageIsFinal
<1>1. Init => FinalInv
  BY DEF Init, FinalInv
<1>2. FinalInv => FinalPageIsFinal
  BY DEF FinalInv, FinalPageIsFinal
<1> QED
  BY <1>1, <1>2, InitInv, NextInv, FinalStep, PTL DEF Spec

-----------------------------------------------------------------------------
(* Files come in time.                                                     *)

Queries(k) == 2 * k * QueryMax

(* How long the step in progress may take, and the run with it.            *)
Allowed(r) ==
  IF r.phase = "query" THEN 2 * QueryMax
  ELSE IF r.phase \in {"system", "read", "body"} THEN QueryMax ELSE PutMax

Needs(r) ==
  IF r.phase = "query" THEN Queries(Panels - r.answered + 1) + PutMax
  ELSE IF r.phase \in {"system", "read"} THEN 2 * QueryMax + PutMax
  ELSE IF r.phase = "body" THEN QueryMax + PutMax ELSE PutMax

(* When the timer starts the next run, if none is in progress, ...         *)
Soon == IF due > now THEN due ELSE now

(* ... and when the next file is in the bucket, at the latest.             *)
NextFile == IF Running THEN run.since + Needs(run) ELSE Soon + RunMax

InTime(t) ==
  \/ t <= troubled + Lag
  \/ bucket # Absent /\ t <= bucket.generated + Lag

TimerInv ==
  /\ due <= now + Interval
  /\ Running => due <= run.start + Interval \/ due <= now
  /\ Running => now <= run.since + Allowed(run)
  /\ run.phase = "put" /\ out # Absent => out.generated = run.since
  /\ timer = "on" /\ freeze = "no" => InTime(NextFile)

LEMMA QueriesGrow ==
  /\ \A k \in Nat : Queries(k) \in Nat /\ Queries(k + 1) = Queries(k) + 2 * QueryMax
  /\ \A j, k \in Nat : j <= k => Queries(j) <= Queries(k)
<1> USE DashboardAssumption DEF Queries
<1>1. ASSUME NEW k \in Nat
      PROVE  Queries(k) \in Nat /\ Queries(k + 1) = Queries(k) + 2 * QueryMax
  OBVIOUS
<1>2. ASSUME NEW j \in Nat, NEW k \in Nat, j <= k
      PROVE  Queries(j) <= Queries(k)
  <2>1. PICK d \in Nat : k = j + d
    <3>1. k - j \in Nat /\ k = j + (k - j)
      BY <1>2
    <3> QED
      BY <3>1
  <2>2. Queries(k) = Queries(j) + Queries(d)
    BY <2>1
  <2> QED
    BY <1>1, <2>1, <2>2
<1> QED
  BY <1>1, <1>2

LEMMA RunMaxIs ==
  /\ RunMax = Queries(Panels + 1) + PutMax /\ RunMax \in Nat
  /\ Lag >= RunMax + Interval /\ Lag >= RunMax + PutMax /\ Lag \in Nat
  BY QueriesGrow, DashboardAssumption DEF RunMax, Lag, Queries

(* What is left of a run is no more than a run.                            *)
LEMMA NeedsBound ==
  ASSUME NEW r \in Runs, r.phase = "query" => r.answered < Panels
  PROVE  /\ Needs(r) \in Nat /\ Allowed(r) \in Nat
         /\ Allowed(r) <= Needs(r) /\ Needs(r) <= RunMax
<1> USE DashboardAssumption
<1>0. Queries(1) = 2 * QueryMax
  BY DEF Queries
<1>1. CASE r.phase = "query"
  <2> DEFINE k == Panels - r.answered + 1
  <2>1. k \in Nat /\ 1 <= k /\ k <= Panels + 1 /\ 1 \in Nat /\ Panels + 1 \in Nat
    BY <1>1 DEF Runs
  <2>2. Needs(r) = Queries(k) + PutMax /\ Allowed(r) = 2 * QueryMax
    BY <1>1 DEF Needs, Allowed
  <2> HIDE DEF k
  <2>3. Queries(1) <= Queries(k)
    BY <2>1, QueriesGrow
  <2>4. Queries(k) <= Queries(Panels + 1)
    BY <2>1, QueriesGrow
  <2>5. Queries(k) \in Nat /\ Queries(Panels + 1) \in Nat
    BY <2>1, QueriesGrow
  <2> QED
    BY <1>0, <2>2, <2>3, <2>4, <2>5, RunMaxIs
<1>2. CASE r.phase # "query"
  <2>1. 1 \in Nat /\ Panels + 1 \in Nat /\ 1 <= Panels + 1
    OBVIOUS
  <2>2. Queries(1) <= Queries(Panels + 1) /\ Queries(Panels + 1) \in Nat
    BY <2>1, QueriesGrow
  <2> QED
    BY <1>0, <1>2, <2>2, RunMaxIs DEF Needs, Allowed
<1> QED
  BY <1>1, <1>2

LEMMA TimerTypes ==
  ASSUME Inv
  PROVE  /\ run \in Runs /\ now \in Nat /\ due \in Nat /\ troubled \in Nat
         /\ run.since \in Nat /\ run.start \in Nat
         /\ bucket # Absent => bucket.generated \in Nat
         /\ Running => /\ Needs(run) \in Nat /\ Allowed(run) \in Nat /\ run.since <= now
                       /\ run.start <= run.since
                       /\ Allowed(run) <= Needs(run) /\ Needs(run) <= RunMax
<1>1. /\ run \in Runs /\ now \in Times /\ due \in 0 .. MaxNow + Interval /\ troubled \in Times
      /\ run.phase = "query" => run.answered < Panels
      /\ bucket # Absent => bucket \in Files
      /\ Running => run.since <= now /\ run.start <= run.since
  BY DEF Inv, TypeOK, Runs, RunInv
<1>2. \A t \in Times : t \in Nat
  BY DEF Times
<1> QED
  BY <1>1, <1>2, NeedsBound DEF Runs, Files

(* Whatever is going on at a moment of trouble, the file after it is in    *)
(* time.                                                                   *)
LEMMA TroubleIsInTime ==
  Inv /\ troubled = now /\ due <= now + Interval => InTime(NextFile)
<1> SUFFICES ASSUME Inv, troubled = now, due <= now + Interval
             PROVE  NextFile <= now + Lag
  BY DEF InTime
<1>1. /\ Lag >= RunMax + Interval /\ RunMax \in Nat /\ Lag \in Nat
      /\ Interval \in Nat /\ PutMax \in Nat
  BY RunMaxIs, DashboardAssumption
<1>2. CASE Running
  <2>1. /\ run.since \in Nat /\ now \in Nat /\ run.since <= now
        /\ Needs(run) \in Nat /\ Needs(run) <= RunMax
    BY <1>2, TimerTypes
  <2> QED
    BY <1>1, <1>2, <2>1 DEF NextFile
<1>3. CASE ~Running
  BY <1>1, <1>3, TimerTypes DEF NextFile, Soon
<1> QED
  BY <1>2, <1>3

LEMMA TimerStep == Inv /\ TimerInv /\ [Next]_vars => TimerInv'
<1> SUFFICES ASSUME Inv, TimerInv, [Next]_vars PROVE TimerInv'
  OBVIOUS
<1> USE DashboardAssumption DEF vm, script, history
<1>0. Inv'
  BY NextInv
<1>a. /\ run \in Runs /\ now \in Nat /\ due \in Nat /\ troubled \in Nat
      /\ run.since \in Nat /\ run.start \in Nat
      /\ bucket # Absent => bucket.generated \in Nat
      /\ Running => /\ Needs(run) \in Nat /\ Allowed(run) \in Nat /\ run.since <= now
                    /\ run.start <= run.since
                    /\ Allowed(run) <= Needs(run) /\ Needs(run) <= RunMax
  BY TimerTypes
<1>b. RunMax \in Nat /\ Lag \in Nat /\ Lag >= RunMax + Interval /\ Lag >= RunMax + PutMax
  BY RunMaxIs
<1>1. CASE UNCHANGED <<now, timer, due, run, out, bucket, freeze, troubled>>
  BY <1>1 DEF TimerInv, NextFile, Soon, InTime, Running
<1>2. ASSUME troubled' = now, now' = now, due' \in {due, now, now + 1},
             due' \in {due, now} \/ run' = Off,
             run' = Off \/ (run' = run /\ out' = out)
      PROVE  TimerInv'
  <2>1. due' <= now' + Interval
    BY <1>a, <1>2 DEF TimerInv
  <2>2. (Inv /\ troubled = now /\ due <= now + Interval => InTime(NextFile))'
    BY TroubleIsInTime, PTL
  <2>4. Running' => run' = run /\ out' = out
    BY <1>2 DEF Running, Off
  <2>3. Running' => due' <= run'.start + Interval \/ due' <= now'
    <3>1. CASE due' = now
      BY <1>a, <1>2, <3>1
    <3>2. CASE due' = due
      BY <1>2, <2>4, <3>2 DEF TimerInv, Running
    <3>3. CASE run' = Off
      BY <3>3 DEF Running, Off
    <3> QED
      BY <1>2, <3>1, <3>2, <3>3
  <2>5. Running' => now' <= run'.since + Allowed(run')
    BY <1>2, <2>4 DEF TimerInv, Running
  <2>6. run'.phase = "put" /\ out' # Absent => out'.generated = run'.since
    BY <2>4 DEF TimerInv, Running
  <2> QED
    BY <1>0, <1>2, <2>1, <2>2, <2>3, <2>5, <2>6 DEF TimerInv
<1>3. CASE GeneratorFails \/ PutFails \/ Reboot
  BY <1>2, <1>3 DEF GeneratorFails, PutFails, Reboot, Over, Trouble
<1>4. CASE Install \/ Resume
  BY <1>2, <1>4 DEF Install, Resume
<1>5. CASE FreezeDrains
  BY <1>2, <1>5 DEF FreezeDrains, Trouble
<1>6. CASE Write \/ RefreshAll \/ UNCHANGED vars
  BY <1>1, <1>6 DEF Write, RefreshAll, vars
<1>7. CASE FreezeHasNoUnit
  BY <1>7 DEF FreezeHasNoUnit, TimerInv, Running, Allowed
<1>8. CASE Tick
  <2>1. /\ now' = now + 1 /\ UNCHANGED <<timer, due, run, out, bucket, freeze, troubled>>
        /\ ~(timer = "on" /\ due <= now /\ ~Running)
        /\ run.phase = "query" => now - run.since < 2 * QueryMax
        /\ run.phase \in {"system", "read", "body"} => now - run.since < QueryMax
        /\ run.phase = "put" => now - run.since < PutMax
    BY <1>a, <1>8 DEF Tick, Overdue
  <2>2. timer = "on" => (InTime(NextFile)' <=> InTime(NextFile))
    <3>1. timer = "on" /\ ~Running => Soon' = Soon
      BY <1>a, <2>1 DEF Soon
    <3> QED
      BY <2>1, <3>1 DEF InTime, NextFile, Running
  <2>4. Running => due <= run.start + Interval \/ due <= now + 1
    <3>1. Running => due <= run.start + Interval \/ due <= now
      BY DEF TimerInv
    <3> QED
      BY <1>a, <3>1
  <2>3. Running => now + 1 <= run.since + Allowed(run)
    BY <1>a, <2>1 DEF Allowed, Running, Runs
  <2> QED
    BY <1>a, <2>1, <2>2, <2>3, <2>4 DEF TimerInv, Running
<1>9. ASSUME run' = Begun, out' = Absent, due' = now + Interval,
             timer = "on" => due <= now \/ freeze' # "no",
             UNCHANGED <<now, timer, bucket, troubled>>, freeze' = "no" => freeze = "no",
             ~Running
      PROVE  TimerInv'
  <2>1. Begun \in Runs /\ Begun.phase \in {"query", "system"} /\ Begun.since = now
        /\ Begun.start = now /\ (Begun.phase = "query" => Begun.answered < Panels)
    BY BegunIsARun DEF Inv, TypeOK
  <2>2. Needs(Begun) \in Nat /\ Needs(Begun) <= RunMax /\ Allowed(Begun) \in Nat
    BY <2>1, NeedsBound
  <2>3. Running' /\ NextFile' = now + Needs(Begun)
    BY <1>9, <2>1 DEF Running, NextFile
  <2>4. timer' = "on" /\ freeze' = "no" => InTime(now + RunMax)
    BY <1>a, <1>9 DEF TimerInv, NextFile, Soon
  <2>5. timer' = "on" /\ freeze' = "no" => InTime(NextFile)'
    BY <1>a, <1>b, <1>9, <2>2, <2>3, <2>4 DEF InTime
  <2> QED
    BY <1>a, <1>9, <2>1, <2>2, <2>5 DEF TimerInv
<1>10. CASE Elapse \/ (FreezeRefreshes /\ ~Running)
  BY <1>9, <1>10 DEF Elapse, FreezeRefreshes, Cleared
<1>11. CASE FreezeRefreshes /\ Running
  <2>1. /\ UNCHANGED <<now, timer, due, run, out, bucket, troubled>>
        /\ freeze' = "refresh"
    BY <1>11 DEF FreezeRefreshes
  <2> QED
    BY <2>1 DEF TimerInv, Running
(* A run that goes on needs no longer than it did. *)
<1>12. ASSUME Running, run' \in Runs, run'.start = run.start, run'.since <= now,
              now <= run'.since + Allowed(run'), run'.phase # "off",
              Needs(run') \in Nat, Allowed(run') \in Nat,
              run'.since + Needs(run') <= run.since + Needs(run),
              run'.phase = "put" /\ out' # Absent => out'.generated = run'.since,
              UNCHANGED <<now, timer, due, bucket, freeze, troubled>>
       PROVE  TimerInv'
  <2>1. Running' /\ NextFile' = run'.since + Needs(run') /\ NextFile = run.since + Needs(run)
    BY <1>12 DEF Running, NextFile
  <2>2. \A t \in Int : (InTime(t) => t <= troubled + Lag
                          \/ (bucket # Absent /\ t <= bucket.generated + Lag))
    BY DEF InTime
  <2>3. InTime(NextFile) => InTime(NextFile)'
    BY <1>a, <1>b, <1>12, <2>1 DEF InTime
  <2> QED
    BY <1>a, <1>12, <2>3 DEF TimerInv
<1>13. Running => now <= run.since + Allowed(run)
  BY DEF TimerInv
<1>14. CASE PanelAnswers
  <2> DEFINE k == Panels - run.answered
  <2>0. run.phase = "query" /\ run.answered \in Nat /\ run.answered < Panels /\ Running
    BY <1>14, <1>a DEF PanelAnswers, Inv, RunInv, Runs, Running
  <2>1. /\ run'.since = now /\ run'.answered = run.answered + 1 /\ run' \in Runs
        /\ run'.start = run.start
        /\ run'.phase = IF run.answered + 1 = Panels THEN "system" ELSE "query"
        /\ UNCHANGED <<now, timer, due, out, bucket, freeze, troubled>>
    BY <1>0, <1>14, <1>a DEF PanelAnswers, Runs, Inv, TypeOK
  <2>2. k \in Nat /\ 1 <= k /\ Panels - (run.answered + 1) + 1 = k
    BY <2>0
  <2>3. Needs(run) = Queries(k + 1) + PutMax /\ Allowed(run) = 2 * QueryMax
    BY <2>0 DEF Needs, Allowed
  <2>4. Needs(run') = Queries(k) + PutMax
    <3>1. CASE run.answered + 1 = Panels
      <4>1. k = 1 /\ Queries(1) = 2 * QueryMax
        BY <2>0, <3>1 DEF Queries
      <4> QED
        BY <2>1, <3>1, <4>1 DEF Needs
    <3>2. CASE run.answered + 1 # Panels
      BY <2>1, <2>2, <3>2 DEF Needs
    <3> QED
      BY <3>1, <3>2
  <2> HIDE DEF k
  <2>5. Queries(k) \in Nat /\ Queries(k + 1) = Queries(k) + 2 * QueryMax
    BY <2>2, QueriesGrow
  <2>6. /\ Allowed(run') \in Nat /\ run'.phase # "put" /\ run'.phase # "off"
        /\ run'.since <= now /\ now <= run'.since + Allowed(run')
    BY <1>a, <2>1 DEF Allowed
  <2>7. now + Needs(run') <= run.since + Needs(run) /\ Needs(run') \in Nat
    BY <1>a, <1>13, <2>0, <2>3, <2>4, <2>5
  <2> QED
    BY <1>12, <2>0, <2>1, <2>6, <2>7
<1>15. CASE SystemReads
  <2>1. /\ run.phase = "system" /\ run'.phase = "read" /\ run' \in Runs
        /\ run'.since = run.since /\ run'.start = run.start
        /\ UNCHANGED <<now, timer, due, out, bucket, freeze, troubled>>
    BY <1>0, <1>15, <1>a DEF SystemReads, Runs, Inv, TypeOK
  <2>2. /\ Needs(run) = 2 * QueryMax + PutMax /\ Allowed(run) = QueryMax
        /\ Needs(run') = Needs(run) /\ Allowed(run') = QueryMax /\ Running
    BY <2>1 DEF Needs, Allowed, Running
  <2>3. /\ run'.since <= now /\ now <= run'.since + Allowed(run')
        /\ run'.since + Needs(run') <= run.since + Needs(run)
    BY <1>a, <1>13, <2>1, <2>2
  <2> QED
    BY <1>12, <2>1, <2>2, <2>3
<1>19. CASE SystemHeader
  <2>1. /\ run.phase = "read" /\ run'.phase = "body" /\ run' \in Runs
        /\ run'.since = now /\ run'.start = run.start
        /\ UNCHANGED <<now, timer, due, out, bucket, freeze, troubled>>
    BY <1>0, <1>19, <1>a DEF SystemHeader, Runs, Inv, TypeOK
  <2>2. /\ Needs(run) = 2 * QueryMax + PutMax /\ Allowed(run) = QueryMax
        /\ Needs(run') = QueryMax + PutMax /\ Allowed(run') = QueryMax /\ Running
    BY <2>1 DEF Needs, Allowed, Running
  <2>3. /\ run'.since <= now /\ now <= run'.since + Allowed(run')
        /\ run'.since + Needs(run') <= run.since + Needs(run)
    BY <1>a, <1>13, <2>1, <2>2
  <2> QED
    BY <1>12, <2>1, <2>2, <2>3
<1>16. CASE SystemAnswers \/ GeneratorVanishes
  <2>1. /\ run.phase \in {"query", "body"} /\ run'.since = now /\ run'.phase = "put"
        /\ run' \in Runs /\ run'.start = run.start
        /\ UNCHANGED <<now, timer, due, bucket, freeze, troubled>>
    BY <1>0, <1>16, <1>a DEF SystemAnswers, GeneratorVanishes, Runs, Inv, TypeOK
  <2>2. out' # Absent => out'.generated = run'.since
    <3>1. CASE SystemAnswers
      BY <2>1, <3>1 DEF SystemAnswers, Stats
    <3>2. CASE GeneratorVanishes
      BY <3>2 DEF GeneratorVanishes, Inv, OutInv
    <3> QED
      BY <1>16, <3>1, <3>2
  <2>3. Needs(run') = PutMax /\ Allowed(run') = PutMax /\ Running
    BY <2>1 DEF Needs, Allowed, Running
  <2>4. Allowed(run) + PutMax <= Needs(run)
    <3>1. CASE run.phase = "body"
      BY <3>1 DEF Needs, Allowed
    <3>2. CASE run.phase = "query"
      <4> DEFINE k == Panels - run.answered + 1
      <4>1. k \in Nat /\ 1 <= k /\ 1 \in Nat
        BY <1>a, <3>2 DEF Inv, RunInv, Runs
      <4>2. Needs(run) = Queries(k) + PutMax /\ Allowed(run) = 2 * QueryMax
        BY <3>2 DEF Needs, Allowed
      <4> HIDE DEF k
      <4>3. Queries(1) <= Queries(k) /\ Queries(1) = 2 * QueryMax /\ Queries(k) \in Nat
        BY <4>1, QueriesGrow DEF Queries
      <4> QED
        BY <4>2, <4>3
    <3> QED
      BY <2>1, <3>1, <3>2
  <2>5. /\ run'.since <= now /\ now <= run'.since + Allowed(run')
        /\ run'.since + Needs(run') <= run.since + Needs(run)
    BY <1>a, <1>13, <2>1, <2>3, <2>4
  <2> QED
    BY <1>12, <2>1, <2>2, <2>3, <2>5
<1>17. CASE Publish
  <2>1. /\ run.phase = "put" /\ out # Absent /\ bucket' = out /\ run' = Off
        /\ freeze' = "no" => freeze = "no"
        /\ UNCHANGED <<now, timer, due, troubled>>
    BY <1>17 DEF Publish, Over
  <2>2. bucket'.generated = run.since /\ now <= run.since + PutMax /\ Running
    BY <1>13, <2>1 DEF TimerInv, Allowed, Running
  <2>3. ~Running' /\ NextFile' = Soon + RunMax
    BY <2>1 DEF Running, NextFile, Soon, Off, RunMax
  <2>4. Soon + RunMax <= bucket'.generated + Lag
    <3>1. due <= run.start + Interval \/ due <= now
      BY <2>2 DEF TimerInv
    <3> QED
      BY <1>a, <1>b, <2>2, <3>1 DEF Soon
  <2>5. InTime(NextFile)'
    BY <2>1, <2>3, <2>4 DEF InTime, Lag, RunMax
  <2> QED
    BY <2>1, <2>3, <2>5 DEF TimerInv, Running
<1>18. CASE FreezeStopsTimer
  <2>1. ~Running' /\ freeze' = "frozen" /\ UNCHANGED <<now, due>> /\ timer' # "on"
    BY <1>18 DEF FreezeStopsTimer, Running, Off
  <2> QED
    BY <2>1 DEF TimerInv, Running
<1> QED
  BY <1>3, <1>4, <1>5, <1>6, <1>7, <1>8, <1>10, <1>11, <1>14, <1>15, <1>16, <1>17,
     <1>18,
     <1>19 DEF Next

(* With the timer on and no trouble for long enough, the published file is *)
(* recent, however the runs and the elapsing of the timer fall together.   *)
THEOREM FilesAreRecent == Spec => []PublishesOnTime
<1>1. Init => TimerInv
  <2> SUFFICES ASSUME Init PROVE TimerInv
    OBVIOUS
  <2>1. ~Running /\ now = 0 /\ due = 0 /\ troubled = 0 /\ out = Absent
    BY DEF Init, Running, Off
  <2> QED
    BY <2>1, RunMaxIs, DashboardAssumption DEF TimerInv, InTime, NextFile, Soon
<1>2. Inv /\ TimerInv => PublishesOnTime
  <2> SUFFICES ASSUME Inv, TimerInv, timer = "on", freeze = "no", now - troubled > Lag
               PROVE  bucket # Absent /\ now - bucket.generated <= Lag
    BY DEF PublishesOnTime
  <2>1. InTime(NextFile)
    BY DEF TimerInv
  <2>2. NextFile \in Nat /\ now <= NextFile
    BY <2>1, TimerTypes, RunMaxIs DEF NextFile, Soon, TimerInv
  <2> QED
    BY <2>1, <2>2, TimerTypes, RunMaxIs DEF InTime
<1> QED
  BY <1>1, <1>2, InitInv, NextInv, TimerStep, PTL DEF Spec
=============================================================================
