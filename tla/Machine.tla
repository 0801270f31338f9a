------------------------------ MODULE Machine -------------------------------
(***************************************************************************)
(* The one machine the indexer runs on, and the scripts that act on it     *)
(* (src/deploy): the boot script that creates the container, the watchdog  *)
(* that restarts it when nothing is written, freeze.sh, which stops the    *)
(* writers, exports the store and stops the database, and resume.sh, which *)
(* undoes that.  Each goes on by itself; they meet in Docker's container,  *)
(* its restart policy, and the freshness of the store.                     *)
(*                                                                         *)
(* Simplifications                                                         *)
(*  - Time advances in ticks; whatever takes seconds, the ten a container  *)
(*    has to stop included, happens between two.  Counters of ticks stop   *)
(*    at the largest value that makes a difference.                        *)
(*  - A `docker restart` that fails does so before it stops anything, or   *)
(*    because its container was removed.                                   *)
(*  - The boot script is attached to the instance, as                      *)
(*    install-startup-script.sh does.                                      *)
(*  - One operator: freeze.sh and resume.sh never run at once, and neither *)
(*    runs the boot script or begins to stop things in the middle of it.   *)
(*  - The process is seen from outside: it starts, writes, stalls, exits.  *)
(*  - An export archives what was stored when it began (ColdExport).       *)
(***************************************************************************)
EXTENDS Naturals

CONSTANTS
  Threshold,          \* STALE_THRESHOLD, in ticks
  Interval,           \* INTERVAL
  MinSettle,          \* MIN_SETTLE
  MaxQuiet,           \* longest silence of a process that works
  MaxStart,           \* longest start of a process that is going to work
  MaxHiccups,         \* bound: checks that fail during one stall
  MaxIncidents        \* bound: reboots of the host, batches of rows the
                      \* snapshot job writes and commands of freeze.sh that fail

ASSUME MachineAssumption ==
  /\ Threshold \in Nat \ {0} /\ Interval \in Nat \ {0}
  /\ MinSettle \in 0..Interval /\ MaxQuiet \in 0..(Threshold - 1)
  /\ {MaxStart, MaxHiccups, MaxIncidents} \subseteq Nat

VARIABLES
  \* Docker
  container,    \* "running", "stopped" or "absent"
  policy,       \* its restart policy, "always" or "no"
  proc,         \* "none", "starting", "working", "stalled"
  started,      \* ticks since it started
  restart,      \* `docker restart` in dockerd: "none", "stops", "starts"
  \* systemd and /run
  watchdog,     \* "off", "sleep", "judged": seen stale, about to restart,
                \* or "waits" for `docker restart`
  enabled,      \* the unit is started at boot
  next_check,   \* ticks until the sleeping watchdog checks
  settled,      \* ticks since the time in the cooldown file, MinSettle without
  \* scripts: where each stands
  script, freeze, resume,
  \* ClickHouse Cloud
  service,      \* "running" or "stopped"
  age,          \* now() - max(ingested_at)
  unexported,   \* rows are stored that the archive lacks
  late,         \* rows were stored since the last export began
  \* observation only
  stalled_for, hiccups,             \* of the current stall
  masked,       \* and whether the watchdog was unable to see all of it
  troubles,     \* what came in the way of the freeze under way
  incidents

docker  == <<container, policy, proc, started, restart>>
systemd == <<watchdog, enabled, next_check, settled>>
scripts == <<script, freeze, resume>>
store   == <<service, age, unexported, late>>
stall   == <<stalled_for, hiccups, masked>>
vars    == <<docker, systemd, scripts, store, stall, troubles, incidents>>

LongestStall == Threshold + (1 + MaxHiccups) * Interval

UpTo(n, limit) == IF n < limit THEN n + 1 ELSE n

(* What may undo or outrun a freeze: a command whose failure `|| true`     *)
(* hides, a `docker restart` that dockerd still has before it when `docker *)
(* stop` returns, the boot script of a reboot, rows of a snapshot.         *)
Troubles == {"command", "restart", "boot", "snapshot"}

Incident == incidents < MaxIncidents /\ incidents' = incidents + 1

Trouble(t) == troubles' = troubles \cup (IF freeze = "none" THEN {} ELSE {t})

Init ==
  /\ container = "running" /\ policy = "always" /\ proc = "starting" /\ started = 0
  /\ restart = "none"
  /\ watchdog = "sleep" /\ enabled = TRUE /\ next_check = 0 /\ settled = MinSettle
  /\ script = "idle" /\ freeze = "none" /\ resume = "none"
  /\ service = "running" /\ age = 0 /\ unexported = TRUE /\ late = TRUE
  /\ stalled_for = 0 /\ hiccups = 0 /\ masked = FALSE
  /\ troubles = {} /\ incidents = 0

-----------------------------------------------------------------------------
(* Docker and the process.                                                 *)

Launch == container' = "running" /\ proc' = "starting" /\ started' = 0

Halt ==
  /\ container' = IF container = "absent" THEN "absent" ELSE "stopped"
  /\ proc' = "none" /\ UNCHANGED started

Store == age' = 0 /\ unexported' = TRUE /\ late' = TRUE /\ UNCHANGED service

(* A row is stored; the first one ends the start.                          *)
IndexerWrites ==
  /\ proc \in {"starting", "working"} /\ service = "running"
  /\ proc' = "working" /\ Store
  /\ UNCHANGED <<container, policy, started, restart, systemd, scripts, stall,
                 troubles, incidents>>

IndexerStalls ==
  /\ proc \in {"starting", "working"}
  /\ proc' = "stalled" /\ stalled_for' = 0 /\ hiccups' = 0
  /\ masked' = (watchdog = "off" \/ service = "stopped")
  /\ UNCHANGED <<container, policy, started, restart, systemd, scripts, store,
                 troubles, incidents>>

(* The restart policy answers an exit, unless dockerd was asked for it.    *)
IndexerExits ==
  /\ proc # "none" /\ restart = "none"
  /\ IF policy = "always" THEN Launch ELSE Halt
  /\ UNCHANGED <<policy, restart, systemd, scripts, store, stall, troubles,
                 incidents>>

(* run-snapshot.sh: a container of its own, into the same table.           *)
SnapshotWrites ==
  /\ service = "running" /\ Incident /\ Store
  /\ masked' = TRUE /\ Trouble("snapshot")
  /\ UNCHANGED <<docker, systemd, scripts, stalled_for, hiccups>>

(* freeze.sh is over, where it stands.                                     *)
GiveUp == freeze' = "none" /\ troubles' = {}

(* Docker starts what its policy says, systemd what is enabled (if /etc    *)
(* outlives the boot), /run is empty, and the boot script runs.  The       *)
(* session of freeze.sh that is open on the host dies with it.             *)
Reboot ==
  /\ Incident
  /\ IF policy = "always" THEN Launch ELSE Halt
  /\ restart' = "none"
  /\ watchdog' \in {"off"} \cup IF enabled THEN {"sleep"} ELSE {}
  /\ next_check' = 0 /\ settled' = MinSettle
  /\ script' = "secrets"
  /\ IF freeze \in {"disable", "stop", "policy", "upload"} THEN GiveUp
       ELSE UNCHANGED <<freeze, troubles>>
  /\ UNCHANGED <<policy, enabled, resume, store, stall>>

(* Mutant: the sleep is taken for a minimum.                               *)
Sleep_Longer == watchdog' = "sleep" /\ next_check' = Interval + 1

(* The sleep that follows a check.                                         *)
Sleep == watchdog' = "sleep" /\ next_check' = Interval

(* `docker restart` is over; the watchdog, if it is still there, notes the *)
(* time of one that succeeded and goes to sleep.                           *)
Answer(succeeded) ==
  /\ restart' = "none"
  /\ IF watchdog = "waits"
       THEN Sleep /\ settled' = IF succeeded THEN 0 ELSE settled
       ELSE UNCHANGED <<watchdog, next_check, settled>>

(* dockerd stops the container, which the process has ten seconds for, and *)
(* starts it again, whatever has become of the client that asked.          *)
RestartStops ==
  /\ restart = "stops" /\ restart' = "starts"
  /\ Halt
  /\ UNCHANGED <<policy, systemd, scripts, store, stall, troubles, incidents>>

RestartStarts ==
  /\ restart = "starts"
  /\ Launch /\ Answer(TRUE)
  /\ UNCHANGED <<policy, enabled, scripts, store, stall, troubles, incidents>>

Dockerd == RestartStops \/ RestartStarts

-----------------------------------------------------------------------------
(* gce-startup.sh                                                          *)

(* A secret or the image cannot be fetched: nothing has been touched yet.  *)
BootAborts ==
  /\ script = "secrets" /\ script' = "failed"
  /\ UNCHANGED <<docker, systemd, freeze, resume, store, stall, troubles,
                 incidents>>

BootFetches ==
  /\ script = "secrets" /\ script' = "run"
  /\ UNCHANGED <<docker, systemd, freeze, resume, store, stall, troubles,
                 incidents>>

(* Mutant: an existing container is started, not created again.            *)
CreateContainer_Start ==
  Launch /\ policy' = IF container = "absent" THEN "always" ELSE policy

CreateContainer == Launch /\ policy' = "always"

(* The name was not released in time: the old container is gone, and there *)
(* is no new one.  A restart of the old one ends with it.                  *)
BootLosesName ==
  /\ script = "run" /\ script' = "failed"
  /\ container' = "absent" /\ policy' = "no" /\ proc' = "none"
  /\ Answer(FALSE)
  /\ UNCHANGED <<started, enabled, freeze, resume, store, stall, troubles,
                 incidents>>

BootLaunches ==
  /\ script = "run" /\ CreateContainer /\ script' = "watchdog"
  /\ Answer(FALSE) /\ Trouble("boot")
  /\ UNCHANGED <<enabled, freeze, resume, store, stall, incidents>>

BootInstallsWatchdog ==
  /\ script = "watchdog" /\ script' = "idle"
  /\ watchdog' = "sleep" /\ enabled' = TRUE /\ next_check' = 0
  /\ UNCHANGED <<docker, settled, freeze, resume, store, stall, troubles,
                 incidents>>

Boot ==
  \/ BootAborts \/ BootFetches \/ BootLosesName \/ BootLaunches
  \/ BootInstallsWatchdog

-----------------------------------------------------------------------------
(* watchdog.sh                                                             *)

(* Mutant: an age at the threshold is still fresh.                         *)
Stale_Above == age > Threshold

Stale == age >= Threshold

CheckDue == watchdog = "sleep" /\ next_check = 0

(* Fresh, restarted a moment ago, or the database is stopped: no action.   *)
CheckPasses ==
  /\ CheckDue /\ ~(service = "running" /\ Stale /\ settled >= MinSettle)
  /\ Sleep
  /\ UNCHANGED <<docker, enabled, settled, scripts, store, stall, troubles,
                 incidents>>

(* No token, no password, no answer, not a number: "cannot tell".          *)
CheckFails ==
  /\ CheckDue /\ hiccups < MaxHiccups
  /\ Sleep /\ hiccups' = hiccups + 1
  /\ UNCHANGED <<docker, enabled, settled, scripts, store, stalled_for, masked,
                 troubles, incidents>>

CheckFindsStale ==
  /\ CheckDue /\ service = "running" /\ Stale /\ settled >= MinSettle
  /\ watchdog' = "judged"
  /\ UNCHANGED <<docker, enabled, next_check, settled, scripts, store, stall,
                 troubles, incidents>>

(* `docker restart`, which also starts a container that is stopped.        *)
WatchdogRestarts ==
  /\ watchdog = "judged" /\ container # "absent" /\ restart = "none"
  /\ watchdog' = "waits" /\ restart' = "stops"
  /\ UNCHANGED <<container, policy, proc, started, enabled, next_check,
                 settled, scripts, store, stall, troubles, incidents>>

RestartFails ==
  /\ watchdog = "judged"
  /\ IF container = "absent" THEN UNCHANGED hiccups
       ELSE hiccups < MaxHiccups /\ hiccups' = hiccups + 1
  /\ Sleep
  /\ UNCHANGED <<docker, enabled, settled, scripts, store, stalled_for, masked,
                 troubles, incidents>>

(* systemd starts it again within half a minute, and it checks at once; a  *)
(* restart it had asked for goes on.                                       *)
WatchdogCrashes ==
  /\ watchdog # "off"
  /\ watchdog' = "sleep" /\ next_check' = 0
  /\ UNCHANGED <<docker, enabled, settled, scripts, store, stall, troubles,
                 incidents>>

Watchdog ==
  \/ CheckPasses \/ CheckFails \/ CheckFindsStale
  \/ WatchdogRestarts \/ RestartFails \/ WatchdogCrashes

-----------------------------------------------------------------------------
(* freeze.sh                                                               *)

FreezeBegins ==
  /\ freeze \in {"none", "done"} /\ resume = "none" /\ script \in {"idle", "failed"}
  /\ freeze' = "watchdog" /\ troubles' = {}
  /\ UNCHANGED <<docker, systemd, script, resume, store, stall, incidents>>

(* A command that fails, and `|| true`.                                    *)
Shrugs == Incident /\ Trouble("command")

(* Mutant: the unit is disabled and not stopped.                           *)
StopWatchdog_DisableOnly == UNCHANGED watchdog

(* The watchdog and the client of its `docker restart` are killed, not the *)
(* restart.                                                                *)
StopWatchdog == watchdog' = "off"

FreezeStopsWatchdog ==
  /\ freeze = "watchdog" /\ freeze' = "disable"
  /\ \/ StopWatchdog /\ UNCHANGED <<troubles, incidents>>
     \/ Shrugs /\ UNCHANGED watchdog
  /\ UNCHANGED <<docker, enabled, next_check, settled, script, resume, store,
                 stall>>

FreezeDisablesWatchdog ==
  /\ freeze = "disable" /\ freeze' = "stop"
  /\ \/ enabled' = FALSE /\ UNCHANGED <<troubles, incidents>>
     \/ Shrugs /\ UNCHANGED enabled
  /\ UNCHANGED <<docker, watchdog, next_check, settled, script, resume, store,
                 stall>>

(* On SIGTERM the process may still flush a batch.  A restart that is in   *)
(* dockerd's hands is not called off.                                      *)
FreezeStopsIndexer ==
  /\ freeze = "stop" /\ freeze' = "policy"
  /\ \/ /\ Halt
        /\ \/ proc = "working" /\ service = "running" /\ Store
           \/ UNCHANGED store
        /\ IF restart = "none" THEN UNCHANGED troubles ELSE Trouble("restart")
        /\ UNCHANGED incidents
     \/ Shrugs /\ UNCHANGED <<container, proc, started, store>>
  /\ UNCHANGED <<policy, restart, systemd, script, resume, stall>>

FreezeDropsPolicy ==
  /\ freeze = "policy" /\ freeze' = "export"
  /\ \/ policy' = "no" /\ UNCHANGED <<troubles, incidents>>
     \/ Shrugs /\ UNCHANGED policy
  /\ UNCHANGED <<container, proc, started, restart, systemd, script, resume,
                 store, stall>>

FreezeStartsExport ==
  /\ freeze = "export" /\ service = "running"
  /\ freeze' = "upload" /\ late' = FALSE
  /\ UNCHANGED <<docker, systemd, script, resume, service, age, unexported,
                 stall, troubles, incidents>>

(* Mutant: the upload takes files of an earlier, incremental export.       *)
Uploaded_Incremental == UNCHANGED unexported

Uploaded == unexported' = late

FreezeUploads ==
  /\ freeze = "upload" /\ freeze' = "timer" /\ Uploaded
  /\ UNCHANGED <<docker, systemd, script, resume, service, age, late, stall,
                 troubles, incidents>>

FreezeStopsTimer ==
  /\ freeze = "timer" /\ freeze' = "service"
  /\ UNCHANGED <<docker, systemd, script, resume, store, stall, troubles,
                 incidents>>

FreezeStopsService ==
  /\ freeze = "service" /\ freeze' = "done" /\ service' = "stopped"
  /\ masked' = TRUE
  /\ UNCHANGED <<docker, systemd, script, resume, age, unexported, late,
                 stalled_for, hiccups, troubles, incidents>>

(* set -e: any command that fails ends the script where it stands.         *)
FreezeAborts ==
  /\ freeze \notin {"none", "done"} /\ GiveUp
  /\ UNCHANGED <<docker, systemd, script, resume, store, stall, incidents>>

Freeze ==
  \/ FreezeBegins \/ FreezeStopsWatchdog \/ FreezeDisablesWatchdog
  \/ FreezeStopsIndexer \/ FreezeDropsPolicy
  \/ FreezeStartsExport \/ FreezeUploads \/ FreezeStopsTimer \/ FreezeStopsService
  \/ FreezeAborts

-----------------------------------------------------------------------------
(* resume.sh                                                               *)

ResumeStartsService ==
  /\ resume = "none" /\ freeze \in {"none", "done"}
  /\ service' = "running" /\ resume' = "script" /\ GiveUp
  /\ UNCHANGED <<docker, systemd, script, age, unexported, late, stall,
                 incidents>>

ResumeRunsScript ==
  /\ resume = "script" /\ script \in {"idle", "failed"}
  /\ script' = "secrets" /\ resume' = "timer"
  /\ UNCHANGED <<docker, systemd, freeze, store, stall, troubles, incidents>>

ResumeEnds ==
  /\ resume = "timer" /\ script \in {"idle", "failed"} /\ resume' = "none"
  /\ UNCHANGED <<docker, systemd, script, freeze, store, stall, troubles,
                 incidents>>

Resume == ResumeStartsService \/ ResumeRunsScript \/ ResumeEnds

-----------------------------------------------------------------------------
(* Time waits for a check that is due, for a restart, for a healthy        *)
(* process that must write, and for the end of the boot script once the    *)
(* image is there.                                                         *)
Tick ==
  /\ ~CheckDue /\ watchdog # "judged" /\ restart = "none"
  /\ script \notin {"run", "watchdog"}
  /\ service = "running" =>
       /\ proc = "working" => age < MaxQuiet
       /\ proc = "starting" => started < MaxStart
  /\ age' = UpTo(age, Threshold + 1)
  /\ next_check' = IF watchdog = "sleep" THEN next_check - 1 ELSE next_check
  /\ settled' = UpTo(settled, MinSettle)
  /\ started' = UpTo(started, MaxStart)
  /\ stalled_for' = IF proc = "stalled" THEN UpTo(stalled_for, LongestStall + 1) ELSE 0
  /\ UNCHANGED <<container, policy, proc, restart, watchdog, enabled, scripts,
                 service, unexported, late, hiccups, masked, troubles,
                 incidents>>

Next ==
  \/ IndexerWrites \/ IndexerStalls \/ IndexerExits \/ SnapshotWrites
  \/ Reboot \/ Dockerd \/ Boot \/ Watchdog \/ Freeze \/ Resume \/ Tick

Spec == Init /\ [][Next]_vars

-----------------------------------------------------------------------------
TypeOK ==
  /\ container \in {"running", "stopped", "absent"} /\ policy \in {"always", "no"}
  /\ proc \in {"none", "starting", "working", "stalled"}
  /\ container = "running" <=> proc # "none"
  /\ restart \in {"none", "stops", "starts"}
  /\ watchdog \in {"off", "sleep", "judged", "waits"} /\ enabled \in BOOLEAN
  /\ watchdog = "waits" => restart # "none"
  /\ next_check \in 0..Interval /\ settled \in 0..MinSettle
  /\ script \in {"idle", "secrets", "run", "watchdog", "failed"}
  /\ freeze \in {"none", "watchdog", "disable", "stop", "policy", "export", "upload",
                 "timer", "service", "done"}
  /\ resume \in {"none", "script", "timer"}
  /\ service \in {"running", "stopped"} /\ age \in 0..(Threshold + 1)
  /\ {unexported, late, masked} \subseteq BOOLEAN /\ troubles \subseteq Troubles
  /\ started \in Nat /\ stalled_for \in Nat
  /\ hiccups \in 0..MaxHiccups /\ incidents \in Nat

Caught == stalled_for < Threshold + (1 + hiccups) * Interval

(* A stall is ended within the threshold and one interval, and one more    *)
(* for each check that could not tell or act, unless the snapshot job      *)
(* wrote meanwhile, the watchdog was off or the database stopped.          *)
UnmaskedStallIsCaught ==
  proc = "stalled" /\ watchdog # "off" /\ ~masked => Caught

Frozen == freeze \in {"policy", "export", "upload", "timer", "service", "done"}

(* Once freeze.sh has stopped the writers the indexer does not run, unless *)
(* one of its commands failed, dockerd was in the middle of a restart as   *)
(* `docker stop` returned, or a reboot's boot script has created it anew.  *)
(* The restart policy does not bring it back, nor does a reboot whose boot *)
(* script fails, nor a watchdog that had just judged the store stale.      *)
FrozenUnlessTroubled ==
  Frozen /\ container = "running" => troubles \ {"snapshot"} # {}

(* The database is stopped only when all rows of the two tables it exports *)
(* are in the archive, unless one of those troubles or a row of a snapshot *)
(* came between.                                                           *)
QuietFreezeIsComplete ==
  freeze \in {"service", "done"} /\ unexported => troubles # {}

(* A resume whose boot script succeeded leaves a supervised indexer: one   *)
(* that runs, or that the watchdog is just restarting.                     *)
ResumeRestores ==
  [][resume = "timer" /\ resume' = "none" /\ script = "idle" =>
       /\ container = "running" \/ restart # "none"
       /\ policy = "always" /\ watchdog # "off"]_vars

-----------------------------------------------------------------------------
(* What the runbook says and the scripts do not bear out.                  *)

(* FREEZE.md, after the watchdog is off and `docker stop` has returned:    *)
(* "The stream is now frozen."                                             *)
StreamIsFrozen == Frozen => container # "running"
=============================================================================
