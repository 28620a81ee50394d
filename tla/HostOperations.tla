--------------------------- MODULE HostOperations ---------------------------
(***************************************************************************)
(* The scripts beside the gateway on its host (scripts/ops) and the boots  *)
(* they meet: the daily backup, the health check of every five minutes and *)
(* the release, which runs both as steps of its own while cron starts them *)
(* too.  Locks keep runs of a script apart; what they share besides is     *)
(* files, a container and the database on its volume.                      *)
(*                                                                         *)
(* The host may reboot between any two steps: no trap runs, locks are      *)
(* free again, files stay as they are (written data survives: a loss of    *)
(* power before the disk has it is not modelled).  Any command that leaves *)
(* the script - docker, curl, rclone - may fail, and Coolify, which        *)
(* replaces the container, is external.                                    *)
(*                                                                         *)
(* A database is the schema version it was migrated to and the number of   *)
(* its committed writes.                                                   *)
(***************************************************************************)
EXTENDS Integers, Sequences, SequencesExt

CONSTANTS
  Retention,   \* CHAT2API_BACKUP_RETENTION_DAYS, in ticks
  MaxAge,      \* CHAT2API_MAX_BACKUP_AGE_SECONDS, in ticks
  MaxTime,     \* bound on the clock
  MaxWrites,   \* bound on committed writes
  MaxBackups,  \* bound on backups cron starts
  MaxChecks,   \* bound on recorded health checks
  MaxReleases, \* bound on releases
  MaxReboots   \* bound on reboots of the host

ASSUME HostAssumption ==
  {Retention, MaxAge, MaxTime, MaxWrites, MaxBackups, MaxChecks, MaxReleases, MaxReboots}
    \subseteq Nat

VARIABLES
  clock,       \* now
  app,         \* the application container: [id, phase]
  db,          \* the database on the volume: [schema, writes]
  coolify,     \* a deployment is under way
  backup,      \* runner -> run of run-production-backup.sh
  backupLock,  \* who holds backup.lock
  staging,     \* the .partial files, by timestamp
  finals,      \* the backups under their final name
  lastSuccess, \* the timestamp in backup.last-success
  check,       \* runner -> run of check-production-health.sh
  checkLock,   \* who holds health.lock
  status,      \* health.status
  history,     \* what health checks recorded and sent, and reboots, in order
  release,     \* the run of release-coolify.sh
  released,    \* release.previous-image and release.last-success
  starts       \* what was started so far: backups, releases, reboots

gateway == <<app, db, coolify>>
disk    == <<staging, finals, lastSuccess>>
backups == <<backup, backupLock, disk>>
checks  == <<check, checkLock, status, history>>
releases == <<release, released>>
vars    == <<clock, gateway, backups, checks, releases, starts>>

Runners == {"cron", "release"}
None    == "none"
Never   == -1
NoImage == 0
Schema  == 3  \* the last version migrate() knows

NoRun     == [at |-> "idle", stamp |-> 0, copy |-> [schema |-> 0, writes |-> 0]]
NoCheck   == [at |-> "idle", previous |-> None]
NoRelease == [at |-> "idle", old |-> 0, new |-> 0, writes |-> 0, skipped |-> FALSE]

Serving == app.phase = "ready"

-----------------------------------------------------------------------------
(* The gateway: boots, migrations and writes.                              *)

(* GatewayDatabase.migrate: each version in a transaction of its own.      *)
Migrated(d) == [d EXCEPT !.schema = @ + 1]

Migrate ==
  /\ app.phase = "booting" /\ db.schema < Schema
  /\ db' = Migrated(db)
  /\ UNCHANGED <<clock, app, coolify, backups, checks, releases, starts>>

(* initialize: the credentials decrypt, the built-in provider and the      *)
(* configuration are there; then the server listens.                       *)
Listen ==
  /\ app.phase = "booting" /\ db.schema >= Schema
  /\ app' = [app EXCEPT !.phase = "ready"]
  /\ UNCHANGED <<clock, db, coolify, backups, checks, releases, starts>>

Write ==
  /\ Serving /\ db.writes < MaxWrites
  /\ db' = [db EXCEPT !.writes = @ + 1]
  /\ UNCHANGED <<clock, app, coolify, backups, checks, releases, starts>>

(* External: the process dies and Docker starts it again.                  *)
ContainerRestarts ==
  /\ Serving
  /\ app' = [app EXCEPT !.phase = "booting"]
  /\ UNCHANGED <<clock, db, coolify, backups, checks, releases, starts>>

(* External: a deployment stops the container and starts its successor, or *)
(* is given up.                                                            *)
Deploy ==
  /\ coolify
  /\ \/ /\ app.phase # "stopped" /\ app' = [app EXCEPT !.phase = "stopped"]
        /\ UNCHANGED coolify
     \/ /\ app.phase = "stopped" /\ app' = [id |-> app.id + 1, phase |-> "booting"]
        /\ coolify' = FALSE
     \/ coolify' = FALSE /\ app.phase # "stopped" /\ UNCHANGED app
  /\ UNCHANGED <<clock, db, backups, checks, releases, starts>>

-----------------------------------------------------------------------------
(* run-production-backup.sh.                                               *)

File(stamp, copy, whole) ==
  [stamp |-> stamp, whole |-> whole, schema |-> copy.schema, writes |-> copy.writes]

Staged(stamp) == {f \in staging : f.stamp = stamp}

To(r, step) == [backup EXCEPT ![r].at = step]

(* The script ends; the release goes on only if it was told that all is    *)
(* well.                                                                   *)
Returns(r, ok) ==
  /\ backup' = [backup EXCEPT ![r] = NoRun]
  /\ release' = IF r # "release" THEN release
                ELSE IF ok THEN [release EXCEPT !.at = "posting"] ELSE NoRelease

(* Mutant: the lock is opened and not taken.                               *)
NeverHeld(r) == FALSE

Held(r) == backupLock # None

(* cleanup, the EXIT trap: the staging file goes.                          *)
BackupFails(r) ==
  /\ Returns(r, FALSE)
  /\ staging' = staging \ Staged(backup[r].stamp)
  /\ backupLock' = None
  /\ UNCHANGED <<finals, lastSuccess>>

Asked(r) ==
  IF r = "release" THEN release.at = "backup"
  ELSE starts.backups < MaxBackups

(* Up to the trap: a run that finds the lock taken is skipped and reports  *)
(* success, one without its container fails.                               *)
BackupBegins(r) ==
  /\ Asked(r) /\ backup[r] = NoRun
  /\ starts' = [starts EXCEPT !.backups = @ + IF r = "cron" THEN 1 ELSE 0]
  /\ IF Held(r)
     THEN /\ UNCHANGED <<backup, backupLock>>
          /\ release' = IF r = "cron" THEN release
                        ELSE [release EXCEPT !.at = "posting", !.skipped = TRUE]
     ELSE IF app.phase = "stopped"
     THEN Returns(r, FALSE) /\ UNCHANGED backupLock
     ELSE /\ backup' = [backup EXCEPT ![r] = [NoRun EXCEPT !.at = "begun", !.stamp = clock]]
          /\ backupLock' = r
          /\ UNCHANGED release
  /\ UNCHANGED <<clock, gateway, disk, checks, released>>

(* backup-sqlite.mjs inside the container: an online copy, consistent as   *)
(* of its end, that passes the integrity check; and its checksum.          *)
Snapshot(r) ==
  /\ backup[r].at = "begun"
  /\ \A f \in finals \cup staging : f.stamp # backup[r].stamp
  /\ app.phase # "stopped"
  /\ backup' = [backup EXCEPT ![r].at = "copying", ![r].copy = db]
  /\ UNCHANGED <<clock, gateway, backupLock, disk, checks, releases, starts>>

(* docker cp, which takes its time.                                        *)
CopyOut(r) ==
  /\ \/ /\ backup[r].at = "copying"
        /\ staging' = (staging \ Staged(backup[r].stamp))
                        \cup {File(backup[r].stamp, backup[r].copy, FALSE)}
        /\ backup' = To(r, "copied")
     \/ /\ backup[r].at = "copied" /\ app.phase # "stopped"
        /\ staging' = (staging \ Staged(backup[r].stamp))
                        \cup {File(backup[r].stamp, backup[r].copy, TRUE)}
        /\ backup' = To(r, "comparing")
  /\ UNCHANGED <<clock, gateway, backupLock, finals, lastSuccess, checks, releases, starts>>

(* The checksum of the staging file is that of the copy in the container.  *)
Matches(r) == Staged(backup[r].stamp) = {File(backup[r].stamp, backup[r].copy, TRUE)}

Compare(r) ==
  /\ backup[r].at = "comparing" /\ Matches(r)
  /\ backup' = To(r, "publishing")
  /\ UNCHANGED <<clock, gateway, backupLock, disk, checks, releases, starts>>

(* mv: the file gets its final name.                                       *)
Publish(r) ==
  /\ backup[r].at = "publishing" /\ Staged(backup[r].stamp) # {}
  /\ finals' = {f \in finals : f.stamp # backup[r].stamp} \cup Staged(backup[r].stamp)
  /\ staging' = staging \ Staged(backup[r].stamp)
  /\ backup' = To(r, "published")
  /\ UNCHANGED <<clock, gateway, backupLock, lastSuccess, checks, releases, starts>>

(* The copy in the container is removed and the off-site copy is made;     *)
(* then backup.last-success is replaced.                                   *)
RecordSuccess(r) ==
  /\ backup[r].at = "published"
  /\ lastSuccess' = backup[r].stamp
  /\ backup' = To(r, "pruning")
  /\ UNCHANGED <<clock, gateway, backupLock, staging, finals, checks, releases, starts>>

Expired == {f \in finals : clock - f.stamp > Retention}

(* find -delete, and the end of the script.                                *)
Prune(r) ==
  /\ backup[r].at = "pruning"
  /\ finals' = finals \ Expired
  /\ Returns(r, TRUE) /\ backupLock' = None
  /\ UNCHANGED <<clock, gateway, staging, lastSuccess, checks, released, starts>>

(* Any command may fail: the destination exists, the container is gone,    *)
(* the checksums differ, the off-site copy is refused.                     *)
BackupBreaks(r) ==
  /\ backup[r].at # "idle" /\ BackupFails(r)
  /\ UNCHANGED <<clock, gateway, checks, released, starts>>

-----------------------------------------------------------------------------
(* check-production-health.sh.                                             *)

Fresh == \E f \in finals : clock - f.stamp <= MaxAge

CheckAsked(r) ==
  IF r = "release" THEN release.at = "checking" ELSE Len(history) < MaxChecks

CheckReturns(r, ok) ==
  /\ check' = [check EXCEPT ![r] = NoCheck]
  /\ checkLock' = None
  /\ IF r # "release" THEN UNCHANGED releases
     ELSE /\ release' = NoRelease
          /\ released' = IF ok THEN [released EXCEPT !.success = release.new] ELSE released

(* A check that finds the lock taken ends well, having checked nothing.    *)
CheckHeld(r) == checkLock # None

CheckBegins(r) ==
  /\ CheckAsked(r) /\ check[r] = NoCheck
  /\ IF CheckHeld(r)
     THEN /\ UNCHANGED <<check, checkLock>>
          /\ IF r # "release" THEN UNCHANGED releases
             ELSE /\ release' = NoRelease
                  /\ released' = [released EXCEPT !.success = release.new]
     ELSE /\ check' = [check EXCEPT ![r] = [at |-> "probing", previous |-> status]]
          /\ checkLock' = r
          /\ UNCHANGED releases
  /\ UNCHANGED <<clock, gateway, backups, status, history, starts>>

(* record_status: the status file is replaced.                             *)
Records(r, verdict) ==
  /\ status' = verdict
  /\ history' = Append(history, verdict)
  /\ check' = [check EXCEPT ![r].at = verdict]

(* Container, endpoints and the models contract: anything may fail, and a  *)
(* gateway that does not serve cannot pass.                                *)
Probe(r) ==
  /\ check[r].at = "probing"
  /\ \/ Records(r, "failed")
     \/ /\ Serving
        /\ check' = [check EXCEPT ![r].at = "aging"]
        /\ UNCHANGED <<status, history>>
  /\ UNCHANGED <<clock, gateway, backups, checkLock, releases, starts>>

(* docker inspect, the authenticated request or the search for backups     *)
(* fails outright: set -e ends the script where it is, and nothing is      *)
(* recorded.                                                               *)
CheckAborts(r) ==
  /\ check[r].at \in {"probing", "aging"}
  /\ CheckReturns(r, FALSE)
  /\ UNCHANGED <<clock, gateway, backups, status, history, starts>>

Age(r) ==
  /\ check[r].at = "aging"
  /\ Records(r, IF Fresh THEN "healthy" ELSE "failed")
  /\ UNCHANGED <<clock, gateway, backups, checkLock, releases, starts>>

(* Mutant: every failed check tells.                                       *)
NewsAlways(verdict, previous) == verdict = "failed" \/ previous = "failed"

(* Only a change is told: failed after anything else, healthy after failed.*)
News(verdict, previous) == (verdict = "failed") # (previous = "failed")

Word(verdict) == IF verdict = "failed" THEN "alert" ELSE "recovered"

(* logger and notify-operations.sh, and the end of the script.  Either may *)
(* fail or have nobody to tell; that is swallowed, and the status that     *)
(* would make it news again is on the disk already.                        *)
Tell(r) ==
  /\ check[r].at \in {"failed", "healthy"}
  /\ IF News(check[r].at, check[r].previous)
     THEN \E word \in {Word(check[r].at), "unheard"} : history' = Append(history, word)
     ELSE UNCHANGED history
  /\ CheckReturns(r, check[r].at = "healthy")
  /\ UNCHANGED <<clock, gateway, backups, status, starts>>

-----------------------------------------------------------------------------
(* release-coolify.sh.  A second release finds release.lock taken and      *)
(* fails.                                                                  *)

ReleaseBegins ==
  /\ release.at = "idle" /\ starts.releases < MaxReleases
  /\ app.phase # "stopped"
  /\ starts' = [starts EXCEPT !.releases = @ + 1]
  /\ release' = [NoRelease EXCEPT !.at = "building", !.old = app.id, !.writes = db.writes]
  /\ released' = [released EXCEPT !.previous = app.id]
  /\ UNCHANGED <<clock, gateway, backups, checks>>

(* Mutant: the deployment is ordered before the backup.                    *)
AfterBuildDeploys == "posting"

AfterBuild == "backup"

(* pnpm check, the image and its smoke test; then the backup.              *)
Build ==
  /\ release.at = "building"
  /\ release' = [release EXCEPT !.at = AfterBuild]
  /\ UNCHANGED <<clock, gateway, backups, checks, released, starts>>

(* The deployment is ordered.                                              *)
Post ==
  /\ release.at = "posting"
  /\ coolify' = TRUE
  /\ release' = [release EXCEPT !.at = "waiting"]
  /\ UNCHANGED <<clock, app, db, backups, checks, released, starts>>

(* A new container became healthy, and answers the remote smoke test.      *)
Replaced ==
  /\ release.at = "waiting"
  /\ app.id # release.old /\ Serving
  /\ release' = [release EXCEPT !.at = "checking", !.new = app.id]
  /\ UNCHANGED <<clock, gateway, backups, checks, released, starts>>

(* Any step before the last check may fail, the wait by its deadline.      *)
ReleaseFails ==
  /\ \/ release.at \in {"building", "posting", "waiting"}
     \/ release.at = "checking" /\ check["release"] = NoCheck
  /\ release' = NoRelease
  /\ UNCHANGED <<clock, gateway, backups, checks, released, starts>>

-----------------------------------------------------------------------------

Reboot ==
  /\ starts.reboots < MaxReboots
  /\ starts' = [starts EXCEPT !.reboots = @ + 1]
  /\ app' = IF app.phase = "stopped" THEN app ELSE [app EXCEPT !.phase = "booting"]
  /\ coolify' \in {coolify, FALSE}
  /\ backup' = [r \in Runners |-> NoRun] /\ backupLock' = None
  /\ check' = [r \in Runners |-> NoCheck] /\ checkLock' = None
  /\ history' = Append(history, "reboot")
  /\ release' = NoRelease
  /\ UNCHANGED <<clock, db, disk, status, released>>

(* No backup takes longer than backups are kept: days, against minutes.    *)
Tick ==
  /\ clock < MaxTime
  /\ \A r \in Runners : backup[r].at # "idle" => clock < backup[r].stamp + Retention
  /\ clock' = clock + 1
  /\ UNCHANGED <<gateway, backups, checks, releases, starts>>

(* The host was set up at any earlier version; nothing was backed up yet.  *)
Init ==
  /\ clock = 0
  /\ app = [id |-> 1, phase |-> "booting"]
  /\ db \in [schema : 0..Schema, writes : {0}]
  /\ coolify = FALSE
  /\ backup = [r \in Runners |-> NoRun] /\ backupLock = None
  /\ staging = {} /\ finals = {} /\ lastSuccess = Never
  /\ check = [r \in Runners |-> NoCheck] /\ checkLock = None
  /\ status = None /\ history = <<>>
  /\ release = NoRelease
  /\ released = [previous |-> NoImage, success |-> NoImage]
  /\ starts = [backups |-> 0, releases |-> 0, reboots |-> 0]

Next ==
  \/ Migrate \/ Listen \/ Write \/ ContainerRestarts \/ Deploy
  \/ \E r \in Runners :
       \/ BackupBegins(r) \/ Snapshot(r) \/ CopyOut(r) \/ Compare(r) \/ Publish(r)
       \/ RecordSuccess(r) \/ Prune(r) \/ BackupBreaks(r)
       \/ CheckBegins(r) \/ Probe(r) \/ CheckAborts(r) \/ Age(r) \/ Tell(r)
  \/ ReleaseBegins \/ Build \/ Post \/ Replaced \/ ReleaseFails
  \/ Reboot \/ Tick

Spec == Init /\ [][Next]_vars

-----------------------------------------------------------------------------

(* verify-sqlite-backup.mjs: a whole database with its tables.             *)
Verifies(f) == f.whole /\ f.schema >= 1

(* Whatever dies, fails or runs twice, a file under a final name is a      *)
(* whole backup that verification accepts - unless it was taken from a     *)
(* database that had no tables yet and nothing to lose - and               *)
(* backup.last-success names one that is there.                            *)
BackupsStand ==
  /\ \A f \in finals : Verifies(f) \/ (f.whole /\ f.writes = 0)
  /\ lastSuccess # Never => \E f \in finals : f.stamp = lastSuccess

(* What was recorded and what was told of it: a check tries to tell an     *)
(* outage once, with its first failed record, and its end once, with the   *)
(* first healthy one, and what it says is what was recorded.  There is no  *)
(* second try: a change whose telling failed, or that a reboot kept from   *)
(* being told, is not told by any later check.                             *)
Recorded(n) == history[n] \in {"failed", "healthy"}

Before(n) == {m \in 1..(n - 1) : Recorded(m)}

Tellings == {"alert", "recovered", "unheard"}

Tried(n) == n < Len(history) /\ history[n + 1] \in Tellings

Lost(n) == n < Len(history) /\ history[n + 1] = "reboot"

Changed(n) ==
  (history[n] = "failed") #
  (Before(n) # {} /\ history[Max(Before(n))] = "failed")

AlertsFollowStatus ==
  \A n \in 1..Len(history) :
    /\ Recorded(n) =>
         /\ Tried(n) => Changed(n) /\ history[n + 1] \in {Word(history[n]), "unheard"}
         /\ Changed(n) => \/ Tried(n) \/ Lost(n)
                          \/ n = Len(history) /\ checkLock # None
    /\ history[n] \in Tellings => n > 1 /\ Recorded(n - 1)

(* When a release orders its deployment there is a backup that holds every *)
(* write committed before the release began, unless another run held the   *)
(* lock when it asked for one (docs/deployment.md: "It requires a clean    *)
(* commit ... verified backup, Coolify deployment").                       *)
DeployedAfterBackup ==
  [][coolify' /\ ~coolify =>
       release.skipped \/ \E f \in finals : f.whole /\ f.writes >= release.writes]_vars
=============================================================================
