--------------------------- MODULE MachineProofs ----------------------------
(***************************************************************************)
(* Machine's type invariant, and for every threshold, interval and bound:  *)
(* a frozen machine stays so by itself, a quiet freeze is complete, resume *)
(* restores supervision, and a stall the watchdog can see is ended in time.*)
(***************************************************************************)
EXTENDS Machine, TLAPS

USE DEF docker, systemd, scripts, store, stall

DockerOK ==
  /\ container \in {"running", "stopped", "absent"} /\ policy \in {"always", "no"}
  /\ proc \in {"none", "starting", "working", "stalled"}
  /\ container = "running" <=> proc # "none"

(* Where freeze.sh has got to says what can no longer start the indexer:   *)
(* no resume is under way, the boot script has not created the container   *)
(* again, the watchdog is off and disabled, and in the end nothing is      *)
(* there for dockerd to start again, nor has it a restart before it.       *)
FrozenInv ==
  /\ DockerOK
  /\ freeze # "none" => resume = "none"
  /\ freeze # "none" /\ troubles \subseteq {"snapshot"} =>
       /\ script # "watchdog"
       /\ freeze # "watchdog" => watchdog = "off"
       /\ freeze \notin {"watchdog", "disable"} => ~enabled
       /\ freeze \notin {"watchdog", "disable", "stop", "policy"} => policy = "no"
       /\ Frozen => container # "running" /\ restart = "none"

LEMMA FrozenInit == Init => FrozenInv
  BY DEF Init, FrozenInv, DockerOK, Frozen

LEMMA DockerStep == FrozenInv /\ [Next]_vars => DockerOK'
<1> SUFFICES ASSUME DockerOK, [Next]_vars PROVE DockerOK'
  BY DEF FrozenInv
<1> USE DEF DockerOK, Launch, Halt
<1>1. CASE IndexerWrites \/ IndexerStalls \/ IndexerExits \/ SnapshotWrites \/ Reboot
           \/ Dockerd
  BY <1>1 DEF IndexerWrites, IndexerStalls, IndexerExits, SnapshotWrites, Reboot,
              Dockerd, RestartStops, RestartStarts
<1>2. CASE Boot
  BY <1>2 DEF Boot, BootAborts, BootFetches, BootLosesName, BootLaunches,
              BootInstallsWatchdog, CreateContainer
<1>3. CASE Watchdog
  BY <1>3 DEF Watchdog, CheckPasses, CheckFails, CheckFindsStale, WatchdogRestarts,
              RestartFails, WatchdogCrashes
<1>4. CASE Freeze
  BY <1>4 DEF Freeze, FreezeBegins, FreezeStopsWatchdog, FreezeDisablesWatchdog,
              FreezeStopsIndexer, FreezeDropsPolicy, FreezeStartsExport, FreezeUploads,
              FreezeStopsTimer, FreezeStopsService, FreezeAborts
<1>5. CASE Resume \/ Tick \/ UNCHANGED vars
  BY <1>5 DEF Resume, ResumeStartsService, ResumeRunsScript, ResumeEnds, GiveUp,
              Tick, vars
<1> QED
  BY <1>1, <1>2, <1>3, <1>4, <1>5 DEF Next

LEMMA FrozenStep == FrozenInv /\ [Next]_vars => FrozenInv'
<1> SUFFICES ASSUME FrozenInv, [Next]_vars PROVE FrozenInv'
  OBVIOUS
<1>1. DockerOK'
  BY DockerStep
<1> USE DEF FrozenInv, Frozen, Trouble
<1>2. CASE IndexerWrites \/ IndexerStalls \/ IndexerExits
  <2>1. container' # "running" \/ container = "running"
    BY <1>2 DEF IndexerWrites, IndexerStalls, IndexerExits, DockerOK
  <2> QED
    BY <1>1, <1>2, <2>1 DEF IndexerWrites, IndexerStalls, IndexerExits, Halt, Launch
<1>3. CASE SnapshotWrites
  BY <1>1, <1>3 DEF SnapshotWrites
<1>4. CASE Reboot
  BY <1>1, <1>4 DEF Reboot, GiveUp, Halt, Launch
<1>5. CASE Dockerd
  BY <1>1, <1>5 DEF Dockerd, RestartStops, RestartStarts, Answer, Sleep, Halt, Launch
<1>6. CASE Boot
  BY <1>1, <1>6 DEF Boot, BootAborts, BootFetches, BootLosesName, BootLaunches,
                    BootInstallsWatchdog, Answer, Sleep
<1>7. CASE Watchdog
  BY <1>1, <1>7 DEF Watchdog, CheckDue, CheckPasses, CheckFails, CheckFindsStale,
                    WatchdogRestarts, RestartFails, WatchdogCrashes, Sleep
<1>8. CASE FreezeBegins \/ FreezeAborts
  BY <1>1, <1>8 DEF FreezeBegins, FreezeAborts, GiveUp
<1>9. CASE FreezeStopsWatchdog \/ FreezeDisablesWatchdog
  BY <1>1, <1>9 DEF FreezeStopsWatchdog, FreezeDisablesWatchdog, StopWatchdog, Shrugs
<1>10. CASE FreezeStopsIndexer
  BY <1>1, <1>10 DEF FreezeStopsIndexer, Halt, Shrugs
<1>11. CASE FreezeDropsPolicy
  BY <1>1, <1>11 DEF FreezeDropsPolicy, Shrugs
<1>12. CASE FreezeStartsExport \/ FreezeUploads \/ FreezeStopsTimer \/ FreezeStopsService
  BY <1>1, <1>12 DEF FreezeStartsExport, FreezeUploads, FreezeStopsTimer,
                     FreezeStopsService
<1>13. CASE Resume \/ Tick \/ UNCHANGED vars
  BY <1>1, <1>13 DEF Resume, ResumeStartsService, ResumeRunsScript, ResumeEnds, GiveUp,
                     Tick, vars
<1> QED
  BY <1>2, <1>3, <1>4, <1>5, <1>6, <1>7, <1>8, <1>9, <1>10, <1>11, <1>12, <1>13
     DEF Next, Freeze

(* After freeze.sh has stopped the writers, neither a watchdog that has    *)
(* judged the store stale nor the restart policy nor a bare reboot starts  *)
(* the indexer as long as none of the freeze's own commands has failed, no *)
(* `docker restart` was in dockerd's hands as `docker stop` returned, and  *)
(* no boot script has created the container again.                         *)
THEOREM FrozenStays == Spec => []FrozenUnlessTroubled
<1>1. FrozenInv => FrozenUnlessTroubled
  BY DEF FrozenInv, FrozenUnlessTroubled, Frozen
<1> QED
  BY <1>1, FrozenInit, FrozenStep, PTL DEF Spec
-----------------------------------------------------------------------------
(* The type invariant, variable group by variable group.                   *)

LEMMA TypeInit == Init => TypeOK
<1> SUFFICES ASSUME Init PROVE TypeOK
  OBVIOUS
<1> USE MachineAssumption DEF Init
<1>1. {unexported, late, masked} \subseteq BOOLEAN /\ enabled \in BOOLEAN
  BY Zenon
<1> QED
  BY <1>1 DEF TypeOK

FlagsOK ==
  /\ enabled \in BOOLEAN
  /\ {unexported, late, masked} \subseteq BOOLEAN
  /\ troubles \subseteq Troubles

LEMMA FlagsStep == FlagsOK /\ [Next]_vars => FlagsOK'
<1> SUFFICES ASSUME FlagsOK, [Next]_vars PROVE FlagsOK'
  OBVIOUS
<1> USE DEF FlagsOK, Trouble, Troubles
<1>1. CASE IndexerWrites \/ IndexerStalls \/ IndexerExits \/ SnapshotWrites \/ Reboot
           \/ Dockerd
  BY <1>1 DEF IndexerWrites, IndexerStalls, IndexerExits, SnapshotWrites, Reboot, Store,
              GiveUp, Dockerd, RestartStops, RestartStarts, Answer
<1>2. CASE Boot
  BY <1>2 DEF Boot, BootAborts, BootFetches, BootLosesName, BootLaunches,
              BootInstallsWatchdog, Answer
<1>3. CASE Watchdog
  BY <1>3 DEF Watchdog, CheckPasses, CheckFails, CheckFindsStale, WatchdogRestarts,
              RestartFails, WatchdogCrashes
<1>4. CASE Freeze
  BY <1>4 DEF Freeze, FreezeBegins, FreezeStopsWatchdog, FreezeDisablesWatchdog,
              FreezeStopsIndexer, FreezeDropsPolicy, FreezeStartsExport, FreezeUploads,
              FreezeStopsTimer, FreezeStopsService, FreezeAborts, Store, Uploaded,
              Shrugs, GiveUp
<1>5. CASE Resume \/ Tick \/ UNCHANGED vars
  BY <1>5 DEF Resume, ResumeStartsService, ResumeRunsScript, ResumeEnds, GiveUp,
              Tick, vars
<1> QED
  BY <1>1, <1>2, <1>3, <1>4, <1>5 DEF Next

PlacesOK ==
  /\ restart \in {"none", "stops", "starts"}
  /\ watchdog \in {"off", "sleep", "judged", "waits"}
  /\ watchdog = "waits" => restart # "none"
  /\ script \in {"idle", "secrets", "run", "watchdog", "failed"}
  /\ freeze \in {"none", "watchdog", "disable", "stop", "policy", "export", "upload",
                 "timer", "service", "done"}
  /\ resume \in {"none", "script", "timer"}
  /\ service \in {"running", "stopped"}

LEMMA PlacesStep == PlacesOK /\ [Next]_vars => PlacesOK'
<1> SUFFICES ASSUME PlacesOK, [Next]_vars PROVE PlacesOK'
  OBVIOUS
<1> USE DEF PlacesOK
<1>1. CASE IndexerWrites \/ IndexerStalls \/ IndexerExits \/ SnapshotWrites \/ Reboot
           \/ Dockerd
  BY <1>1 DEF IndexerWrites, IndexerStalls, IndexerExits, SnapshotWrites, Reboot, Store,
              GiveUp, Dockerd, RestartStops, RestartStarts, Answer, Sleep
<1>2. CASE Boot
  BY <1>2 DEF Boot, BootAborts, BootFetches, BootLosesName, BootLaunches,
              BootInstallsWatchdog, Answer, Sleep
<1>3. CASE Watchdog
  BY <1>3 DEF Watchdog, CheckPasses, CheckFails, CheckFindsStale, WatchdogRestarts,
              RestartFails, WatchdogCrashes, Sleep
<1>4. CASE Freeze
  BY <1>4 DEF Freeze, FreezeBegins, FreezeStopsWatchdog, FreezeDisablesWatchdog,
              FreezeStopsIndexer, FreezeDropsPolicy, FreezeStartsExport, FreezeUploads,
              FreezeStopsTimer, FreezeStopsService, FreezeAborts, Store, StopWatchdog,
              GiveUp
<1>5. CASE Resume \/ Tick \/ UNCHANGED vars
  BY <1>5 DEF Resume, ResumeStartsService, ResumeRunsScript, ResumeEnds, GiveUp,
              Tick, vars
<1> QED
  BY <1>1, <1>2, <1>3, <1>4, <1>5 DEF Next

NumbersOK ==
  /\ next_check \in 0..Interval /\ settled \in 0..MinSettle /\ age \in 0..(Threshold + 1)
  /\ started \in Nat /\ stalled_for \in Nat /\ hiccups \in 0..MaxHiccups
  /\ incidents \in Nat

LEMMA UpToBounds ==
  ASSUME NEW n \in Nat, NEW limit \in Nat, n <= limit
  PROVE  UpTo(n, limit) \in 0..limit
  BY DEF UpTo

LEMMA UpToNat ==
  ASSUME NEW n \in Nat, NEW limit \in Nat
  PROVE  UpTo(n, limit) \in Nat
  BY DEF UpTo

LEMMA NumbersStep == PlacesOK /\ NumbersOK /\ [Next]_vars => NumbersOK'
<1> SUFFICES ASSUME PlacesOK, NumbersOK, [Next]_vars PROVE NumbersOK'
  OBVIOUS
<1> USE MachineAssumption DEF NumbersOK
<1>1. CASE IndexerWrites \/ IndexerStalls \/ IndexerExits \/ SnapshotWrites \/ Reboot
           \/ Dockerd
  BY <1>1 DEF IndexerWrites, IndexerStalls, IndexerExits, SnapshotWrites, Reboot,
              Store, Launch, Halt, Incident, Dockerd, RestartStops, RestartStarts,
              Answer, Sleep
<1>2. CASE Boot
  BY <1>2 DEF Boot, BootAborts, BootFetches, BootLosesName, BootLaunches,
              BootInstallsWatchdog, CreateContainer, Launch, Answer, Sleep
<1>3. CASE Watchdog
  BY <1>3 DEF Watchdog, CheckPasses, CheckFails, CheckFindsStale, WatchdogRestarts,
              RestartFails, WatchdogCrashes, Sleep
<1>4. CASE Freeze
  BY <1>4 DEF Freeze, FreezeBegins, FreezeStopsWatchdog, FreezeDisablesWatchdog,
              FreezeStopsIndexer, FreezeDropsPolicy, FreezeStartsExport, FreezeUploads,
              FreezeStopsTimer, FreezeStopsService, FreezeAborts, Store, Halt, Shrugs,
              Incident
<1>5. CASE Resume \/ UNCHANGED vars
  BY <1>5 DEF Resume, ResumeStartsService, ResumeRunsScript, ResumeEnds, vars
<1>6. CASE Tick
  <2>1. age' \in 0..(Threshold + 1) /\ settled' \in 0..MinSettle
    BY <1>6, UpToBounds DEF Tick
  <2>2. LongestStall + 1 \in Nat /\ MaxStart \in Nat
    BY DEF LongestStall
  <2>3. started' \in Nat /\ stalled_for' \in Nat
    BY <1>6, <2>2, UpToNat DEF Tick
  <2>4. next_check' \in 0..Interval
    BY <1>6 DEF Tick, CheckDue
  <2> QED
    BY <1>6, <2>1, <2>3, <2>4 DEF Tick
<1> QED
  BY <1>1, <1>2, <1>3, <1>4, <1>5, <1>6 DEF Next

(* Every variable keeps its type, whatever the thresholds and the bounds.  *)
THEOREM TypeCorrect == Spec => []TypeOK
<1>1. Init => TypeOK /\ FrozenInv
  BY TypeInit, FrozenInit
<1>2. TypeOK /\ FrozenInv /\ [Next]_vars => (TypeOK /\ FrozenInv)'
  <2> SUFFICES ASSUME TypeOK, FrozenInv, [Next]_vars PROVE TypeOK' /\ FrozenInv'
    OBVIOUS
  <2>1. FlagsOK /\ PlacesOK /\ NumbersOK
    BY DEF TypeOK, FlagsOK, PlacesOK, NumbersOK
  <2>2. FlagsOK' /\ PlacesOK' /\ NumbersOK' /\ DockerOK' /\ FrozenInv'
    BY <2>1, FlagsStep, PlacesStep, NumbersStep, DockerStep, FrozenStep
  <2> QED
    BY <2>2 DEF TypeOK, FlagsOK, PlacesOK, NumbersOK, DockerOK
<1> QED
  BY <1>1, <1>2, PTL DEF Spec

-----------------------------------------------------------------------------
(* The freeze archives what it leaves in the database.                     *)

(* After the writers are stopped nothing is stored, so the export has all  *)
(* there is, and the upload finds it so.                                   *)
ArchiveInv ==
  troubles = {} =>
    /\ freeze = "upload" => ~late
    /\ freeze \in {"timer", "service", "done"} => ~unexported

LEMMA ArchiveStep == FrozenInv /\ ArchiveInv /\ [Next]_vars => ArchiveInv'
<1> SUFFICES ASSUME FrozenInv, ArchiveInv, [Next]_vars PROVE ArchiveInv'
  OBVIOUS
<1> USE DEF ArchiveInv, Trouble
<1>1. CASE IndexerWrites
  <2>1. proc # "none" /\ UNCHANGED <<freeze, troubles>>
    BY <1>1 DEF IndexerWrites
  <2>2. freeze \in {"upload", "timer", "service", "done"} => troubles # {}
    BY <2>1 DEF FrozenInv, DockerOK, Frozen
  <2> QED
    BY <2>1, <2>2
<1>2. CASE IndexerStalls \/ IndexerExits \/ SnapshotWrites \/ Reboot \/ Dockerd
  BY <1>2 DEF IndexerStalls, IndexerExits, SnapshotWrites, Reboot, GiveUp, Dockerd,
              RestartStops, RestartStarts
<1>3. CASE Boot
  BY <1>3 DEF Boot, BootAborts, BootFetches, BootLosesName, BootLaunches,
              BootInstallsWatchdog
<1>4. CASE Watchdog
  BY <1>4 DEF Watchdog, CheckPasses, CheckFails, CheckFindsStale, WatchdogRestarts,
              RestartFails, WatchdogCrashes
<1>5. CASE FreezeBegins \/ FreezeStopsWatchdog \/ FreezeDisablesWatchdog
           \/ FreezeDropsPolicy \/ FreezeStartsExport \/ FreezeStopsTimer
           \/ FreezeStopsService \/ FreezeAborts
  BY <1>5 DEF FreezeBegins, FreezeStopsWatchdog, FreezeDisablesWatchdog,
              FreezeDropsPolicy, FreezeStartsExport, FreezeStopsTimer,
              FreezeStopsService, FreezeAborts, GiveUp
<1>6. CASE FreezeStopsIndexer
  BY <1>6 DEF FreezeStopsIndexer
<1>7. CASE FreezeUploads
  BY <1>7 DEF FreezeUploads, Uploaded
<1>8. CASE Resume \/ Tick \/ UNCHANGED vars
  BY <1>8 DEF Resume, ResumeStartsService, ResumeRunsScript, ResumeEnds, GiveUp, Tick,
              vars
<1> QED
  BY <1>1, <1>2, <1>3, <1>4, <1>5, <1>6, <1>7, <1>8 DEF Next, Freeze

(* When freeze.sh comes to stop the database, all rows of the two tables   *)
(* it exports are in the archive, unless a row of the snapshot job, a      *)
(* command of the freeze that failed, a restart in flight or a boot script *)
(* came between.                                                           *)
THEOREM FreezeArchivesAll == Spec => []QuietFreezeIsComplete
<1>1. Init => ArchiveInv
  BY DEF Init, ArchiveInv
<1>2. ArchiveInv => QuietFreezeIsComplete
  BY DEF ArchiveInv, QuietFreezeIsComplete
<1> QED
  BY <1>1, <1>2, FrozenInit, FrozenStep, ArchiveStep, PTL DEF Spec

-----------------------------------------------------------------------------
(* What resume.sh leaves behind.                                           *)

(* The boot script it runs creates the container before it installs the    *)
(* watchdog, and nothing takes either away before it is done.              *)
RestoreInv ==
  resume = "timer" =>
    /\ script \in {"watchdog", "idle"} =>
         (container = "running" \/ restart # "none") /\ policy = "always"
    /\ script = "idle" => watchdog # "off"

LEMMA RestoreStep == FrozenInv /\ RestoreInv /\ [Next]_vars => RestoreInv'
<1> SUFFICES ASSUME FrozenInv, RestoreInv, [Next]_vars PROVE RestoreInv'
  OBVIOUS
<1>0. resume = "timer" => freeze = "none"
  BY DEF FrozenInv
<1> USE DEF RestoreInv
<1>1. CASE IndexerWrites \/ IndexerStalls \/ IndexerExits \/ SnapshotWrites \/ Reboot
           \/ Dockerd
  BY <1>1 DEF IndexerWrites, IndexerStalls, IndexerExits, SnapshotWrites, Reboot,
              Launch, Dockerd, RestartStops, RestartStarts, Answer, Sleep
<1>2. CASE Boot
  BY <1>2 DEF Boot, BootAborts, BootFetches, BootLosesName, BootLaunches,
              BootInstallsWatchdog, CreateContainer, Launch, Answer, Sleep
<1>3. CASE Watchdog
  BY <1>3 DEF Watchdog, CheckPasses, CheckFails, CheckFindsStale, WatchdogRestarts,
              RestartFails, WatchdogCrashes, Sleep
<1>4. CASE Freeze
  BY <1>0, <1>4 DEF Freeze, FreezeBegins, FreezeStopsWatchdog, FreezeDisablesWatchdog,
                    FreezeStopsIndexer, FreezeDropsPolicy, FreezeStartsExport,
                    FreezeUploads, FreezeStopsTimer, FreezeStopsService, FreezeAborts
<1>5. CASE Resume \/ Tick \/ UNCHANGED vars
  BY <1>5 DEF Resume, ResumeStartsService, ResumeRunsScript, ResumeEnds, GiveUp,
              Tick, vars
<1> QED
  BY <1>1, <1>2, <1>3, <1>4, <1>5 DEF Next

(* resume.sh ends with a container that Docker keeps running, or is just   *)
(* restarting for the watchdog, and a watchdog that looks after it, when   *)
(* the boot script it ran succeeded.                                       *)
THEOREM ResumeLeavesItSupervised == Spec => ResumeRestores
<1>1. Init => RestoreInv
  BY DEF Init, RestoreInv
<1>2. FrozenInv /\ RestoreInv /\ [Next]_vars =>
        [resume = "timer" /\ resume' = "none" /\ script = "idle" =>
           /\ container = "running" \/ restart # "none"
           /\ policy = "always" /\ watchdog # "off"]_vars
  BY DEF RestoreInv
<1> QED
  BY <1>1, <1>2, FrozenInit, FrozenStep, RestoreStep, PTL DEF Spec, ResumeRestores

-----------------------------------------------------------------------------
(* A stall is caught.                                                      *)

Budget == (1 + hiccups) * Interval

(* While a stall is in plain sight, the store ages with it, the cooldown   *)
(* has begun before it, and the next check falls inside what is allowed.   *)
(* The boot script, which switches the watchdog on, takes no time.         *)
StallInv ==
  proc = "stalled" =>
    /\ script = "watchdog" => stalled_for = 0
    /\ ~masked =>
         /\ service = "running"
         /\ stalled_for <= age \/ Threshold <= age
         /\ stalled_for <= settled \/ settled = MinSettle
         /\ watchdog # "off" => stalled_for + next_check < Threshold + Budget

LEMMA BudgetGrows ==
  ASSUME TypeOK
  PROVE  /\ Budget \in Nat /\ Interval <= Budget
         /\ \A h \in Nat : h = hiccups + 1 => (1 + h) * Interval = Budget + Interval
<1>1. hiccups \in Nat /\ Interval \in Nat
  BY MachineAssumption DEF TypeOK
<1>2. (1 + hiccups) * Interval = Interval + hiccups * Interval
      /\ hiccups * Interval \in Nat
  BY <1>1
<1>3. (1 + (hiccups + 1)) * Interval = Interval + (1 + hiccups) * Interval
  BY <1>1
<1> QED
  BY <1>1, <1>2, <1>3 DEF Budget

(* Steps that do not touch the stall, its watchdog or the store's age.     *)
LEMMA StallKept ==
  ASSUME StallInv, UNCHANGED <<proc, script, service, age, settled, watchdog, next_check,
                               stalled_for, hiccups>>,
         masked' = masked \/ masked' = TRUE
  PROVE  StallInv'
  BY DEF StallInv, Budget

LEMMA StallStep ==
  ASSUME MinSettle <= Threshold, TypeOK, StallInv, [Next]_vars PROVE StallInv'
<1> USE MachineAssumption
<1>0. /\ stalled_for \in Nat /\ next_check \in Nat /\ next_check <= Interval
      /\ age \in Nat /\ settled \in Nat /\ settled <= MinSettle /\ Threshold \in Nat
      /\ MinSettle \in Nat /\ Interval \in Nat /\ Threshold > 0 /\ hiccups \in Nat
      /\ watchdog \in {"off", "sleep", "judged", "waits"} /\ masked \in BOOLEAN
      /\ watchdog = "waits" => restart # "none"
  BY DEF TypeOK
<1>1. CASE proc' # "stalled"
  BY <1>1 DEF StallInv
<1>2. CASE IndexerStalls
  <2>1. /\ stalled_for' = 0 /\ hiccups' = 0
        /\ masked' = (watchdog = "off" \/ service = "stopped")
        /\ UNCHANGED <<watchdog, next_check, settled, service, age, script>>
    BY <1>2 DEF IndexerStalls
  <2>2. ~masked' => service' = "running"
    BY <2>1 DEF TypeOK
  <2>3. Budget' = Interval
    BY <1>0, <2>1 DEF Budget
  <2> QED
    BY <1>0, <2>1, <2>2, <2>3 DEF StallInv
<1>3. CASE CheckPasses
  <2>1. /\ UNCHANGED <<proc, script, service, age, settled, stalled_for, hiccups, masked>>
        /\ watchdog' = "sleep" /\ next_check' = Interval /\ watchdog = "sleep"
        /\ next_check = 0
        /\ ~(service = "running" /\ age >= Threshold /\ settled >= MinSettle)
    BY <1>3 DEF CheckPasses, CheckDue, Stale, Sleep
  <2>2. ASSUME proc = "stalled", ~masked
        PROVE  stalled_for < Threshold
    BY <1>0, <2>1, <2>2 DEF StallInv
  <2>3. Budget' = Budget /\ Budget \in Nat /\ Interval <= Budget
    BY <2>1, BudgetGrows DEF Budget
  <2> QED
    BY <1>0, <2>1, <2>2, <2>3 DEF StallInv
<1>4. CASE CheckFails \/ (RestartFails /\ container # "absent")
  <2>1. /\ UNCHANGED <<proc, script, service, age, settled, stalled_for, masked>>
        /\ hiccups' = hiccups + 1 /\ next_check' = Interval /\ watchdog # "off"
    BY <1>4 DEF CheckFails, RestartFails, CheckDue, Sleep
  <2>2. Budget' = Budget + Interval /\ Budget \in Nat
    BY <1>0, <2>1, BudgetGrows DEF Budget
  <2> QED
    BY <1>0, <2>1, <2>2 DEF StallInv
<1>5. CASE RestartFails /\ container = "absent"
  BY <1>1, <1>5 DEF RestartFails, TypeOK
<1>6. CASE CheckFindsStale \/ WatchdogRestarts
  <2>1. /\ UNCHANGED <<proc, script, service, age, settled, stalled_for, hiccups, masked,
                       next_check>>
        /\ watchdog # "off"
    BY <1>6 DEF CheckFindsStale, CheckDue, WatchdogRestarts
  <2> QED
    BY <2>1 DEF StallInv, Budget
<1>7. CASE WatchdogCrashes
  <2>1. /\ UNCHANGED <<proc, script, service, age, settled, stalled_for, hiccups, masked>>
        /\ watchdog # "off" /\ next_check' = 0
    BY <1>7 DEF WatchdogCrashes
  <2>2. Budget' = Budget /\ Budget \in Nat
    BY <2>1, BudgetGrows DEF Budget
  <2> QED
    BY <1>0, <2>1, <2>2 DEF StallInv
<1>8. CASE BootInstallsWatchdog
  <2>1. /\ UNCHANGED <<proc, service, age, settled, stalled_for, hiccups, masked>>
        /\ script = "watchdog" /\ script' = "idle" /\ next_check' = 0
    BY <1>8 DEF BootInstallsWatchdog
  <2>2. Budget' = Budget /\ Budget \in Nat
    BY <2>1, BudgetGrows DEF Budget
  <2> QED
    BY <1>0, <2>1, <2>2 DEF StallInv
<1>9. CASE Tick
  <2>1. /\ UNCHANGED <<proc, script, service, watchdog, hiccups, masked>>
        /\ script # "watchdog" /\ ~(watchdog = "sleep" /\ next_check = 0)
        /\ watchdog # "judged" /\ restart = "none"
        /\ age' = UpTo(age, Threshold + 1) /\ settled' = UpTo(settled, MinSettle)
        /\ next_check' = IF watchdog = "sleep" THEN next_check - 1 ELSE next_check
    BY <1>9 DEF Tick, CheckDue
  <2>2. proc = "stalled" => stalled_for' \in Nat /\ stalled_for' <= stalled_for + 1
    BY <1>0, <1>9 DEF Tick, UpTo
  <2>3. Budget' = Budget /\ Budget \in Nat
    BY <2>1, BudgetGrows DEF Budget
  <2>4. stalled_for <= age \/ Threshold <= age =>
          stalled_for + 1 <= age' \/ Threshold <= age'
    BY <1>0, <2>1 DEF UpTo
  <2>5. stalled_for <= settled \/ settled = MinSettle =>
          stalled_for + 1 <= settled' \/ settled' = MinSettle
    BY <1>0, <2>1 DEF UpTo
  <2>6. settled' \in Nat /\ age' \in Nat
    BY <1>0, <2>1 DEF UpTo
  <2>7. watchdog # "off" => watchdog = "sleep" /\ next_check' = next_check - 1
    BY <1>0, <2>1
  <2> QED
    BY <1>0, <2>1, <2>2, <2>3, <2>4, <2>5, <2>6, <2>7 DEF StallInv
<1>10. CASE FreezeStopsWatchdog
  <2>1. CASE StopWatchdog
    BY <1>10, <2>1 DEF FreezeStopsWatchdog, StopWatchdog, StallInv, Budget
  <2>2. CASE UNCHANGED watchdog
    BY <1>10, <2>2, StallKept DEF FreezeStopsWatchdog
  <2> QED
    BY <1>10, <2>1, <2>2 DEF FreezeStopsWatchdog
<1>11. CASE BootAborts \/ BootFetches \/ ResumeStartsService \/ ResumeRunsScript
  BY <1>11 DEF BootAborts, BootFetches, ResumeStartsService, ResumeRunsScript, StallInv,
               Budget
<1>12. CASE FreezeStopsIndexer
  <2>1. CASE Halt
    BY <1>1, <2>1 DEF Halt
  <2>2. CASE UNCHANGED <<container, proc, started, store>>
    BY <1>12, <2>2, StallKept DEF FreezeStopsIndexer
  <2> QED
    BY <1>12, <2>1, <2>2 DEF FreezeStopsIndexer
<1>13. CASE SnapshotWrites \/ FreezeStopsService
  <2>1. masked' = TRUE /\ UNCHANGED <<proc, script, stalled_for>>
    BY <1>13 DEF SnapshotWrites, FreezeStopsService
  <2> QED
    BY <2>1 DEF StallInv
<1>14. CASE IndexerWrites \/ IndexerExits \/ Reboot \/ BootLosesName \/ BootLaunches
            \/ Dockerd
  BY <1>1, <1>14 DEF IndexerWrites, IndexerExits, Reboot, BootLosesName, BootLaunches,
                     Dockerd, RestartStops, RestartStarts, CreateContainer, Launch, Halt
<1>15. CASE FreezeBegins \/ FreezeDisablesWatchdog \/ FreezeDropsPolicy
            \/ FreezeStartsExport \/ FreezeUploads \/ FreezeStopsTimer \/ FreezeAborts
            \/ ResumeEnds \/ UNCHANGED vars
  BY <1>15, StallKept DEF FreezeBegins, FreezeDisablesWatchdog, FreezeDropsPolicy,
                          FreezeStartsExport, FreezeUploads, FreezeStopsTimer,
                          FreezeAborts, ResumeEnds, vars
<1> QED
  BY <1>2, <1>3, <1>4, <1>5, <1>6, <1>7, <1>8, <1>9, <1>10, <1>11, <1>12, <1>13, <1>14,
     <1>15 DEF Next, Boot, Watchdog, Freeze, Resume

(* A stall the watchdog can see is ended within the threshold and one      *)
(* interval, and one interval more for each check that failed, as long as  *)
(* the cooldown is no longer than the threshold: with a longer one, a      *)
(* watchdog that is restarted could find the process in its cooldown again *)
(* and again.                                                              *)
THEOREM StallsAreCaught ==
  ASSUME MinSettle <= Threshold PROVE Spec => []UnmaskedStallIsCaught
<1>1. Init => StallInv
  BY DEF Init, StallInv
<1>2. TypeOK /\ StallInv => UnmaskedStallIsCaught
  <2> SUFFICES ASSUME TypeOK, StallInv, proc = "stalled", watchdog # "off", ~masked
               PROVE  stalled_for < Threshold + (1 + hiccups) * Interval
    BY DEF UnmaskedStallIsCaught, Caught
  <2>1. stalled_for + next_check < Threshold + Budget
    BY DEF StallInv
  <2>2. stalled_for \in Nat /\ next_check \in Nat /\ Budget \in Nat /\ Threshold \in Nat
    BY BudgetGrows, MachineAssumption DEF TypeOK
  <2> QED
    BY <2>1, <2>2 DEF Budget
<1>3. TypeOK /\ StallInv /\ [Next]_vars => StallInv'
  BY StallStep
<1> QED
  BY <1>1, <1>2, <1>3, TypeCorrect, PTL DEF Spec
=============================================================================
