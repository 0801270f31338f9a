------------------------------ MODULE Dashboard ------------------------------
(***************************************************************************)
(* The static dashboard: the systemd timer and the worker it starts        *)
(* (deploy/install-dashboard-export.sh), the generator inside the worker   *)
(* (web/export.js), the page that reads what is published                  *)
(* (web/index.html), and what a freeze and a resume do to them             *)
(* (deploy/freeze.sh steps 5 and 6, deploy/resume.sh step 3).              *)
(*                                                                         *)
(* A run of the worker queries ClickHouse, query by query, writes          *)
(* stats.json under /run, and PUTs it into the bucket; any failure ends    *)
(* it.  The page shows two numbers of the file it loaded last: the seconds *)
(* since the last row landed, as the `system` query answered, and the      *)
(* seconds since the file was generated.                                   *)
(*                                                                         *)
(* Simplifications                                                         *)
(*  - A file is three times: when the last row had landed, when the        *)
(*    `system` query read that, and when the file was written.             *)
(*  - Clocks agree.  A query or a PUT that has taken its longest time      *)
(*    fails; the other steps of the worker (token, container) take no      *)
(*    time, and the timer has no AccuracySec.  A body comes in one piece.  *)
(*  - A fetch is one step.  An older one that ends last shows a file the   *)
(*    page has shown before; both its numbers are that file's.             *)
(*  - The freeze's steps 2 to 4 are one, after which rows have stopped     *)
(*    landing or not (module Machine says when).  Nothing else fails the   *)
(*    freeze but a reboot.                                                 *)
(***************************************************************************)
EXTENDS Integers, FiniteSets

CONSTANTS
  Panels,        \* queries before `system`, the last of QUERIES
  QueryMax,      \* the longest silence a query survives, before and after
                 \* its header
  PutMax,        \* curl's --max-time
  Interval,      \* OnUnitActiveSec
  MaxNow,        \* bound: the clock
  Landings,      \* bound: the times at which rows may land
  MaxTrouble     \* bound: failures, reboots, freezes

ASSUME DashboardAssumption ==
  /\ Panels \in Nat /\ QueryMax \in Nat /\ QueryMax > 0
  /\ PutMax \in Nat /\ PutMax > 0 /\ Interval \in Nat /\ Interval > 0
  /\ MaxNow \in Nat /\ MaxTrouble \in Nat /\ Landings \subseteq Nat

VARIABLES
  now,
  wrote,         \* max(ingested_at)
  \* the VM
  timer,         \* klend-dashboard.timer
  due,           \* when it elapses next
  run,           \* klend-dashboard.service: the run in progress
  out,           \* /run/klend-dashboard/stats.json
  \* outside
  bucket,        \* stats.json in the bucket
  page,          \* STATS of a page somebody has open
  \* the operator's scripts
  freeze,        \* how far the freeze is
  leak,          \* something still stores rows, after it stopped the writers
  final,         \* what became of its last refresh
  \* history
  troubled,      \* when something last went wrong or was stopped
  troubles       \* how often

vm      == <<timer, due, run, out>>
script  == <<freeze, leak, final>>
history == <<troubled, troubles>>
vars    == <<now, wrote, vm, bucket, page, script, history>>

Times == 0 .. MaxNow

Files  == [wrote : Times, read : Times, generated : Times]
Absent == [wrote |-> -1, read |-> -1, generated |-> -1]

Off == [phase |-> "off", answered |-> 0, start |-> 0, since |-> 0,
        wrote |-> 0, read |-> 0]

TypeOK ==
  /\ now \in Times /\ wrote \in Times
  /\ timer \in {"on", "stopped", "missing"}
  /\ due \in 0 .. MaxNow + Interval
  /\ run \in [phase : {"off", "query", "system", "read", "body", "put"},
              answered : 0 .. Panels, start : Times, since : Times,
              wrote : Times, read : Times]
  /\ out \in Files \cup {Absent}
  /\ bucket \in Files \cup {Absent} /\ page \in Files \cup {Absent}
  /\ freeze \in {"no", "drained", "refresh", "refreshed", "frozen"}
  /\ leak \in BOOLEAN
  /\ final \in {"none", "awaited", "joined", "published", "failed"}
  /\ troubled \in Times /\ troubles \in 0 .. MaxTrouble

Init ==
  /\ now = 0 /\ wrote = 0
  /\ timer = "on" /\ due = 0 /\ run = Off /\ out = Absent
  /\ bucket = Absent /\ page = Absent
  /\ freeze = "no" /\ leak = FALSE /\ final = "none"
  /\ troubled = 0 /\ troubles = 0

Running == run.phase # "off"

-----------------------------------------------------------------------------
(* The worker                                                              *)

Trouble ==
  /\ troubles < MaxTrouble
  /\ troubles' = troubles + 1 /\ troubled' = now

(* `systemctl start` of a oneshot returns when the run does, to the freeze *)
(* that waits for it too. *)
Over(result) ==
  /\ run' = Off
  /\ freeze' = IF freeze = "refresh" THEN "refreshed" ELSE freeze
  /\ final' = IF final = "awaited" THEN result ELSE final
  /\ UNCHANGED leak

(* Mutant: what an earlier run left behind is not removed. *)
Cleared_Kept == out

(* rm -rf "$OUT" *)
Cleared == Absent

Begun == [phase |-> IF Panels = 0 THEN "system" ELSE "query", answered |-> 0,
          start |-> now, since |-> now, wrote |-> 0, read |-> 0]

(* Mutant: a run that is going on is started over. *)
Elapse_StartsOver ==
  /\ timer = "on" /\ due <= now
  /\ due' = now + Interval
  /\ run' = Begun /\ out' = Cleared
  /\ UNCHANGED <<now, wrote, timer, bucket, page, script, history>>

(* The timer starts the unit, and elapses again an interval later, or when *)
(* the run is over if that is later still. *)
Elapse ==
  /\ timer = "on" /\ due <= now /\ ~Running
  /\ due' = now + Interval
  /\ run' = Begun /\ out' = Cleared
  /\ UNCHANGED <<now, wrote, timer, bucket, page, script, history>>

(* Mutant: one panel too many is awaited. *)
PanelAnswers_OneMore ==
  /\ run.phase = "query"
  /\ run' = [run EXCEPT !.answered = run.answered + 1, !.since = now,
               !.phase = IF run.answered = Panels THEN "system" ELSE "query"]
  /\ UNCHANGED <<now, wrote, timer, due, out, bucket, page, script, history>>

PanelAnswers ==
  /\ run.phase = "query"
  /\ run' = [run EXCEPT !.answered = run.answered + 1, !.since = now,
               !.phase = IF run.answered + 1 = Panels THEN "system" ELSE "query"]
  /\ UNCHANGED <<now, wrote, timer, due, out, bucket, page, script, history>>

(* ClickHouse evaluates the `system` query, which the client does not see, *)
SystemReads ==
  /\ run.phase = "system"
  /\ run' = [run EXCEPT !.phase = "read", !.wrote = wrote, !.read = now]
  /\ UNCHANGED <<now, wrote, timer, due, out, bucket, page, script, history>>

(* its header arrives, at which the client waits for another silence, ...  *)
SystemHeader ==
  /\ run.phase = "read"
  /\ run' = [run EXCEPT !.phase = "body", !.since = now]
  /\ UNCHANGED <<now, wrote, timer, due, out, bucket, page, script, history>>

Stats == [wrote |-> run.wrote, read |-> run.read, generated |-> now]

(* ... and once it has answered, nothing is awaited before the file is     *)
(* written. *)
SystemAnswers ==
  /\ run.phase = "body"
  /\ out' = Stats
  /\ run' = [run EXCEPT !.phase = "put", !.since = now]
  /\ UNCHANGED <<now, wrote, timer, due, bucket, page, script, history>>

(* A query fails, or the generator does: exit 1, and set -e ends the       *)
(* worker. *)
GeneratorFails ==
  /\ run.phase \in {"query", "system", "read", "body"}
  /\ Over("failed") /\ Trouble
  /\ UNCHANGED <<now, wrote, timer, due, out, bucket, page>>

(* The connection closes in the middle of an answer, which settles nothing *)
(* (module Proxy's Cut): Node finds nothing left to wait for and exits 0,  *)
(* with no file written. *)
GeneratorVanishes ==
  /\ run.phase \in {"query", "body"} /\ troubles < MaxTrouble
  /\ run' = [run EXCEPT !.phase = "put", !.since = now]
  /\ UNCHANGED <<now, wrote, timer, due, out, bucket, page, script, history>>

(* put, and rm -rf "$OUT" *)
Publish ==
  /\ run.phase = "put" /\ out # Absent
  /\ bucket' = out /\ out' = Absent
  /\ Over("published")
  /\ UNCHANGED <<now, wrote, timer, due, page, history>>

(* The PUT fails, or there is no file to put.  The bucket may have taken   *)
(* what curl believes lost. *)
PutFails ==
  /\ run.phase = "put"
  /\ \/ UNCHANGED bucket
     \/ out # Absent /\ bucket' = out
  /\ Over("failed") /\ Trouble
  /\ UNCHANGED <<now, wrote, timer, due, out, page>>

-----------------------------------------------------------------------------
(* The page                                                                *)

(* Mutant: the panel keeps its numbers and takes the new time. *)
RefreshAll_OldPanel ==
  /\ bucket # Absent
  /\ page' = IF page = Absent THEN bucket
              ELSE [page EXCEPT !.generated = bucket.generated]
  /\ UNCHANGED <<now, wrote, vm, bucket, script, history>>

(* refreshAll: a fetch brings the file, or fails and leaves STATS as it    *)
(* was. *)
RefreshAll ==
  /\ bucket # Absent
  /\ page' = bucket
  /\ UNCHANGED <<now, wrote, vm, bucket, script, history>>

-----------------------------------------------------------------------------
(* The machine and its operator                                            *)

(* Mutant: the indexer is stopped last. *)
Flowing_ToTheEnd == freeze # "frozen"

Flowing == freeze = "no" \/ leak

(* Rows land, until the freeze stops them, if it does. *)
Write ==
  /\ Flowing /\ now \in Landings
  /\ wrote' = now
  /\ UNCHANGED <<now, vm, bucket, page, script, history>>

(* A run ends with the machine, and so does /run.  What is under /etc may  *)
(* not be there afterwards.  A freeze under way is broken off.  The boot   *)
(* script may bring the indexer back, to a frozen machine too. *)
Reboot ==
  /\ Trouble
  /\ run' = Off /\ out' = Absent /\ due' = now + 1
  /\ timer' \in {timer, "missing"}
  /\ IF freeze = "frozen"
       THEN leak' \in {leak, TRUE} /\ UNCHANGED <<freeze, final>>
       ELSE freeze' = "no" /\ leak' = FALSE /\ final' = "none"
  /\ UNCHANGED <<now, wrote, bucket, page>>

(* install-dashboard-export.sh *)
Install ==
  /\ timer = "missing" /\ freeze = "no"
  /\ timer' = "on" /\ due' = now /\ troubled' = now
  /\ UNCHANGED <<now, wrote, run, out, bucket, page, script, troubles>>

(* Steps 2 to 4: the indexer is stopped and the data exported.  Where a    *)
(* stop failed, a restart was under way or the snapshot container still    *)
(* runs, rows go on landing. *)
FreezeDrains ==
  /\ freeze = "no" /\ Trouble
  /\ freeze' = "drained" /\ leak' \in BOOLEAN /\ final' = "none"
  /\ UNCHANGED <<now, wrote, vm, bucket, page>>

(* Step 5: starts a run, or waits for the one that is there. *)
FreezeRefreshes ==
  /\ freeze = "drained" /\ timer # "missing"
  /\ freeze' = "refresh" /\ UNCHANGED leak
  /\ IF Running
       THEN final' = "joined" /\ UNCHANGED <<due, run, out>>
       ELSE /\ final' = "awaited" /\ due' = now + Interval
            /\ run' = Begun /\ out' = Cleared
  /\ UNCHANGED <<now, wrote, timer, bucket, page, history>>

(* Without the unit the refresh fails, and || true goes on. *)
FreezeHasNoUnit ==
  /\ freeze = "drained" /\ timer = "missing"
  /\ freeze' = "refreshed" /\ final' = "failed" /\ UNCHANGED leak
  /\ UNCHANGED <<now, wrote, vm, bucket, page, history>>

(* Step 6: the timer is stopped, and with it a run the timer has started   *)
(* since.  A PUT cut short may have been taken. *)
FreezeStopsTimer ==
  /\ freeze = "refreshed"
  /\ freeze' = "frozen"
  /\ timer' = IF timer = "on" THEN "stopped" ELSE timer
  /\ run' = Off
  /\ \/ UNCHANGED bucket
     \/ run.phase = "put" /\ out # Absent /\ bucket' = out
  /\ UNCHANGED <<now, wrote, due, out, page, leak, final, history>>

(* resume.sh: rows land again, and the timer is started if it is there. *)
Resume ==
  /\ freeze = "frozen"
  /\ freeze' = "no" /\ leak' = FALSE /\ final' = "none"
  /\ timer' = IF timer = "stopped" THEN "on" ELSE timer
  /\ due' = now /\ troubled' = now
  /\ UNCHANGED <<now, wrote, run, out, bucket, page, troubles>>

-----------------------------------------------------------------------------
Overdue ==
  \/ timer = "on" /\ due <= now /\ ~Running
  \/ run.phase = "query" /\ now - run.since >= 2 * QueryMax
  \/ run.phase \in {"system", "read", "body"} /\ now - run.since >= QueryMax
  \/ run.phase = "put" /\ now - run.since >= PutMax

Tick ==
  /\ now < MaxNow /\ ~ Overdue
  /\ now' = now + 1
  /\ UNCHANGED <<wrote, vm, bucket, page, script, history>>

Next ==
  \/ Tick \/ Write
  \/ Elapse \/ PanelAnswers \/ SystemReads \/ SystemHeader \/ SystemAnswers
  \/ GeneratorFails \/ GeneratorVanishes \/ Publish \/ PutFails
  \/ RefreshAll
  \/ Reboot \/ Install
  \/ FreezeDrains \/ FreezeRefreshes \/ FreezeHasNoUnit
  \/ FreezeStopsTimer \/ Resume

Spec == Init /\ [][Next]_vars

-----------------------------------------------------------------------------
(* What a run publishes, that run has read: never what an earlier one left *)
(* behind (export.js main's catch; the worker's rm -rf). *)
RunPublishesItsOwn ==
  [][Running /\ bucket'.read >= run.start /\ bucket'.generated >= bucket'.read]_bucket

(* The longest time between two files when nothing goes wrong: the next    *)
(* run starts when the timer elapses and this one is over, and takes its   *)
(* longest time. *)
RunMax == 2 * (Panels + 1) * QueryMax + PutMax
Lag    == RunMax + IF PutMax > Interval THEN PutMax ELSE Interval

(* While the timer is on, and nothing has gone wrong for long enough, the  *)
(* published file is recent: a run that outlasts the interval delays the   *)
(* next one and never starves it. *)
PublishesOnTime ==
  timer = "on" /\ freeze = "no" /\ now - troubled > Lag =>
    bucket # Absent /\ now - bucket.generated <= Lag

(* The two numbers on a page, taken together, never flatter the pipeline:  *)
(* its last row is no older than the age shown, the time since the file    *)
(* was generated, and the time the `system` answer took after it was       *)
(* evaluated: a silence before its header and one after.  The age alone    *)
(* claims nothing, for it stands still in the file (index.html loadSystem, *)
(* generatedAgo). *)
ShownTogetherTheyBound ==
  page # Absent =>
    now - wrote <= (page.read - page.wrote) + (now - page.generated)
                     + 2 * QueryMax

(* After a freeze that did stop the writers, and whose last refresh was    *)
(* its own and succeeded, the page shows the last row there is, whatever   *)
(* the timer did until it was stopped. *)
FinalPageIsFinal ==
  freeze = "frozen" /\ final = "published" /\ ~leak => bucket.wrote = wrote
=============================================================================
