------------------------------ MODULE Management ------------------------------
(***************************************************************************)
(* management.rs: rust-xhttpctl, which installs and maintains a systemd     *)
(* deployment.  One command runs at a time.  A command is a script of       *)
(* steps, each one a call that changes the installed files or the service;  *)
(* a step can fail, and the process can die between any two of them.        *)
(*                                                                         *)
(* What a failing call does next is part of the step:                       *)
(*   "abort"   the error is returned (the ? operator);                      *)
(*   "undo"    the command's restore path runs;                             *)
(*   "ignore"  the result is discarded (let _ =);                           *)
(*   "skip"    a failing `repair' child process, whose result is discarded. *)
(*                                                                         *)
(* A binary is its version; a configuration, certificate, key or site is an *)
(* opaque value.  A file that is not there is None.                         *)
(***************************************************************************)
EXTENDS Naturals, Sequences, FiniteSets

CONSTANTS
  Versions,      \* releases
  Configs,       \* contents of a config.json
  Parsed,        \* those Config::from_json_str accepts
  Manual,        \* those that use the managed certificate and key files
  Supported,     \* pairs <<v, c>>: the resources of c suit release v
  Idents,        \* certificates and keys the wizard can be given
  Sites,         \* contents of a static site
  Empty,         \* the site directory as prepare_directories makes it
  None,
  MaxCommands    \* bound: commands in a behaviour

ASSUME ManagementAssumption ==
  /\ Parsed \subseteq Configs /\ Manual \subseteq Configs
  /\ Supported \subseteq Versions \X Parsed
  /\ None \notin Versions \cup Configs \cup Idents \cup Sites
  /\ Empty \notin Sites \cup {None}
  /\ MaxCommands \in Nat

VARIABLES
  disk,          \* the managed files, and the service as systemd sees it
  job,           \* the command that runs, or the outcome of the last one
  before,        \* history: the disk when that command started
  interrupted,   \* history: a command died, or its restore path failed
  commands       \* how many commands were started

vars == <<disk, job, before, interrupted, commands>>

Pair == [server : Versions \cup {None}, ctl : Versions \cup {None}]
NoPair == [server |-> None, ctl |-> None]
Installed(d) == [server |-> d.server, ctl |-> d.ctl]
Matched(p) == p.server # None /\ p.server = p.ctl

Disk == [server : Versions \cup {None}, ctl : Versions \cup {None},
         unit : Versions \cup {None},      \* the manager whose unit text it is
         config : Configs \cup {None}, backups : SUBSET Configs,
         cert : Idents \cup {None}, key : Idents \cup {None},
         site : Sites \cup {Empty, None},
         rollback : Pair, stage : Pair,    \* rollback/, and rollback-new or -current
         enabled : BOOLEAN, active : Versions \cup {None}]

NoDisk == [server |-> None, ctl |-> None, unit |-> None, config |-> None,
           backups |-> {}, cert |-> None, key |-> None, site |-> None,
           rollback |-> NoPair, stage |-> NoPair, enabled |-> FALSE, active |-> None]

\* What a command works with, and what it saved to restore.
NoArgs == [tag |-> None, new |-> NoPair, cfg |-> None, tls |-> <<>>, dist |-> None]
NoSnap == [cert |-> <<>>, key |-> <<>>, site |-> <<>>, siteIn |-> FALSE]

Step(do, on) == [do |-> do, on |-> on]
Steps(names, on) == [i \in DOMAIN names |-> Step(names[i], on)]

Running == job.todo # <<>>

\* validate_config_file, as release v does it: syntax and resources.
Accepts(v, c, d) ==
  /\ <<v, c>> \in Supported
  /\ c \in Manual => d.cert # None /\ d.cert = d.key

\* What an install of release v with config c from an empty host leaves.
Fresh(v, c) ==
  [NoDisk EXCEPT !.server = v, !.ctl = v, !.unit = v, !.config = c, !.site = Empty,
                 !.enabled = TRUE, !.active = v]

Init ==
  /\ disk \in {NoDisk} \cup {Fresh(v, c) : v \in Versions, c \in Parsed \ Manual}
  /\ before = disk
  /\ job = [op |-> "none", todo |-> <<>>, undo |-> <<>>, undoing |-> FALSE,
            args |-> NoArgs, snap |-> NoSnap, outcome |-> "none"]
  /\ interrupted = FALSE
  /\ commands = 0

-------------------------------------------------------------------------------
(* the scripts *)

RepairSteps ==
  <<"account", "directories", "check-config", "verify-installed", "write-unit",
    "chown", "daemon-reload", "enable">>

Activate == RepairSteps \o <<"restart", "is-active">>

\* After the binaries are back: `repair' and a restart, whatever they answer.
Revive == Steps(RepairSteps, "skip") \o Steps(<<"restart">>, "ignore")

SaveCurrent == Steps(<<"stage-server", "stage-ctl">>, "abort")
Publish == Steps(<<"drop-rollback", "name-rollback">>, "abort")
Restore == <<"restore-server", "restore-ctl">>

\* As UpdateScript, saving the old pair only once the new one works.
UpdateSavesLate ==
  Steps(<<"download", "validate-new">>, "abort")
    \o Steps(<<"copy-server", "copy-ctl">> \o Activate, "undo") \o SaveCurrent \o Publish

UpdateScript ==
  Steps(<<"download", "validate-new">>, "abort") \o SaveCurrent \o Publish
    \o Steps(<<"copy-server", "copy-ctl">> \o Activate, "undo")
UpdateUndo == Steps(Restore, "abort") \o Revive

RollbackScript ==
  Steps(<<"validate-rollback">>, "abort") \o SaveCurrent
    \o Steps(Restore \o Activate, "undo") \o Publish
RollbackUndo == Steps(<<"unstage-server", "unstage-ctl">>, "abort") \o Revive

EditScript ==
  Steps(<<"check-config", "editor", "check-edited", "backup-config", "install-config",
          "chown">>, "abort") \o Steps(<<"restart">>, "undo")
EditUndo == Steps(<<"restore-config", "chown">>, "abort") \o Steps(<<"restart">>, "ignore")

\* install_manual_tls and install_site, when the wizard asked for them.
Resources(tls, dist) ==
  (IF tls THEN Steps(<<"snapshot-cert">>, "abort")
                 \o Steps(<<"copy-cert", "snapshot-key", "copy-key">>, "undo") ELSE <<>>)
    \o (IF dist THEN Steps(<<"stage-site", "site-out", "site-in">>, "undo") ELSE <<>>)

InstallScript(tls, dist, start) ==
  Steps(<<"verify-new", "account", "directories", "select-config">>, "abort")
    \o Resources(tls, dist)
    \o Steps(<<"check-candidate">>, "undo")
    \o Steps(<<"backup-old-config", "install-config", "copy-server", "copy-ctl",
               "write-unit", "chown", "check-config", "daemon-reload">>
             \o (IF start THEN <<"enable", "restart", "is-active">> ELSE <<>>), "abort")
InstallUndo ==
  Steps(<<"site-back">>, "ignore")
    \o Steps(<<"site-remove", "site-restore", "key-back", "cert-back">>, "abort")

UninstallScript(purge) ==
  Steps(<<"disable-now">>, "ignore") \o Steps(<<"remove-unit">>, "abort")
    \o Steps(<<"remove-server", "remove-ctl">>, "abort")
    \o (IF purge THEN Steps(<<"purge-config", "purge-state", "purge-manager">>, "abort") ELSE <<>>)

-------------------------------------------------------------------------------
(* commands *)

\* One manager runs; what its command works with are the fields of args.
Begin(op, todo, undo, args) ==
  /\ ~Running
  /\ commands < MaxCommands
  /\ commands' = commands + 1
  /\ before' = disk
  /\ job' = [op |-> op, todo |-> todo, undo |-> undo, undoing |-> FALSE, args |-> args,
             snap |-> NoSnap, outcome |-> "none"]
  /\ UNCHANGED <<disk, interrupted>>

\* What the wizard can answer: a certificate and key to copy, a site to copy.
Wizard == {w \in Parsed \X ({<<>>} \cup Idents \X Idents) \X (Sites \cup {None}) :
             (w[2] # <<>>) <=> w[1] \in Manual}

\* install with --config, with the installed config, or with the wizard's.
Install ==
  \E v \in Versions, start \in BOOLEAN, choice \in Wizard \cup {<<c, <<>>, None>> : c \in Configs} :
    LET args == [NoArgs EXCEPT !.new = [server |-> v, ctl |-> v], !.cfg = choice[1],
                               !.tls = choice[2], !.dist = choice[3]]
    IN  Begin(IF start THEN "install" ELSE "install-no-start",
              InstallScript(choice[2] # <<>>, choice[3] # None, start), InstallUndo, args)

Update ==
  /\ disk.ctl # None /\ disk.server # None
  /\ \E tag \in Versions, force \in BOOLEAN :
       /\ force \/ disk.server # tag
       /\ Begin("update", UpdateScript, UpdateUndo, [NoArgs EXCEPT !.tag = tag])

Rollback == disk.ctl # None /\ Begin("rollback", RollbackScript, RollbackUndo, NoArgs)
Edit == disk.ctl # None /\ Begin("edit", EditScript, EditUndo, NoArgs)
Repair ==
  /\ disk.ctl # None
  /\ \/ Begin("repair", Steps(RepairSteps \o <<"restart">>, "abort"), <<>>, NoArgs)
     \/ Begin("repair-no-restart", Steps(RepairSteps, "abort"), <<>>, NoArgs)
Uninstall ==
  /\ disk.ctl # None
  /\ \E purge \in BOOLEAN : Begin("uninstall", UninstallScript(purge), <<>>, NoArgs)
Service ==
  /\ disk.ctl # None
  /\ \E a \in {"restart", "stop", "enable", "disable"} :
       Begin("service", Steps(<<a>>, "abort"), <<>>, NoArgs)

-------------------------------------------------------------------------------
(* what a step's result does to the script *)

\* As Proceed, reporting nothing after a restore.
ProceedSilently(rest, j) ==
  job' = [j EXCEPT !.todo = rest,
                   !.outcome = IF rest # <<>> \/ j.undoing THEN "none" ELSE "ok"]

Proceed(rest, j) ==
  job' = [j EXCEPT !.todo = rest,
                   !.outcome = IF rest # <<>> THEN "none"
                               ELSE IF j.undoing THEN "restored" ELSE "ok"]

Error ==
  LET s == Head(job.todo)
  IN  \/ /\ s.on = "abort"
         /\ job' = [job EXCEPT !.todo = <<>>, !.outcome = "error"]
         /\ interrupted' = (interrupted \/ job.undoing)
      \/ /\ s.on = "undo"
         /\ job' = [job EXCEPT !.todo = job.undo, !.undoing = TRUE]
         /\ UNCHANGED interrupted
      \/ /\ s.on = "ignore"
         /\ Proceed(Tail(job.todo), job)
         /\ interrupted' = (interrupted \/ s.do = "site-back")
      \/ /\ s.on = "skip"
         /\ \E k \in 1 .. Len(job.todo) + 1 :
              /\ \A i \in 1 .. k - 1 : job.todo[i].on = "skip"
              /\ k <= Len(job.todo) => job.todo[k].on # "skip"
              /\ Proceed(SubSeq(job.todo, k, Len(job.todo)), job)
         /\ UNCHANGED interrupted

At(step) == Running /\ Head(job.todo).do = step

\* The call succeeds, leaving the disk d and the job j.
Done(d, j) ==
  /\ disk' = d
  /\ Proceed(Tail(job.todo), j)
  /\ UNCHANGED <<before, interrupted, commands>>

\* copy_atomic, atomic_write: a temporary file is renamed over the destination,
\* and the directory is synced; when only that fails the file is there already.
Write(step, d) ==
  /\ At(step)
  /\ \/ Done(d, job)
     \/ disk' = d /\ Error /\ UNCHANGED <<before, commands>>

\* Any call can fail without an effect; a failed restart leaves no service.
Fail ==
  /\ Running
  /\ disk' = IF Head(job.todo).do \in {"restart", "is-active"}
             THEN [disk EXCEPT !.active = None] ELSE disk
  /\ Error
  /\ UNCHANGED <<before, commands>>

\* The manager is killed, or the machine stops.
Die ==
  /\ Running
  /\ job' = [job EXCEPT !.todo = <<>>, !.outcome = "died"]
  /\ interrupted' = TRUE
  /\ UNCHANGED <<disk, before, commands>>

-------------------------------------------------------------------------------
(* the steps *)

\* Calls that only check, or whose effect (accounts, modes, reloads) no other
\* step depends on.
Check(step, ok) == At(step) /\ ok /\ Done(disk, job)

Verify ==
  \/ Check("verify-new", TRUE)
  \/ Check("account", TRUE)
  \/ Check("chown", TRUE)
  \/ Check("daemon-reload", TRUE)
  \/ Check("select-config", job.args.cfg \in Parsed)
  \/ Check("verify-installed", disk.server # None /\ disk.ctl # None)
  \/ Check("is-active", disk.active # None)
  \/ Check("stage-site", TRUE)

\* validate_config_file on the installed config and on a candidate.
CheckConfig ==
  \/ Check("check-config", Accepts(disk.ctl, disk.config, disk))
  \/ Check("check-candidate", Accepts(job.args.new.ctl, job.args.cfg, disk))
  \/ Check("check-edited", Accepts(disk.ctl, job.args.cfg, disk))

\* Both binaries run, report one version (the tag's), and the daemon accepts the
\* installed config.
ValidateRelease ==
  \/ /\ At("validate-new")
     /\ Matched(job.args.new) /\ job.args.new.server = job.args.tag
     /\ Accepts(job.args.new.server, disk.config, disk)
     /\ Done(disk, job)
  \/ /\ At("validate-rollback")
     /\ Matched(disk.rollback)
     /\ Accepts(disk.rollback.server, disk.config, disk)
     /\ Done(disk, job)

\* An archive that passes the checksum and path checks; what it holds is only
\* known once its binaries are asked for their versions.
Download ==
  /\ At("download")
  /\ \E s, c \in Versions :
       Done(disk, [job EXCEPT !.args.new = [server |-> s, ctl |-> c]])

Directories ==
  /\ At("directories")
  /\ Done([disk EXCEPT !.site = IF @ = None THEN Empty ELSE @], job)

\* create_rollback, rollback: the current pair goes to a new directory, ...
StageServer ==
  /\ disk.server # None
  /\ Write("stage-server", [disk EXCEPT !.stage = [NoPair EXCEPT !.server = disk.server]])
StageCtl == disk.ctl # None /\ Write("stage-ctl", [disk EXCEPT !.stage.ctl = disk.ctl])

\* ... which takes the place of the rollback directory.
DropRollback == At("drop-rollback") /\ Done([disk EXCEPT !.rollback = NoPair], job)
NameRollback ==
  /\ At("name-rollback")
  /\ disk.rollback = NoPair
  /\ Done([disk EXCEPT !.rollback = disk.stage, !.stage = NoPair], job)

CopyServer == Write("copy-server", [disk EXCEPT !.server = job.args.new.server])
CopyCtl == Write("copy-ctl", [disk EXCEPT !.ctl = job.args.new.ctl])

\* As RestoreCtl, forgetting the manager.
RestoreCtlForgotten == At("restore-ctl") /\ Done(disk, job)

RestoreServer ==
  /\ disk.rollback.server # None
  /\ Write("restore-server", [disk EXCEPT !.server = disk.rollback.server])
RestoreCtl ==
  /\ disk.rollback.ctl # None
  /\ Write("restore-ctl", [disk EXCEPT !.ctl = disk.rollback.ctl])
Unstage ==
  \/ Write("unstage-server", [disk EXCEPT !.server = disk.stage.server])
  \/ Write("unstage-ctl", [disk EXCEPT !.ctl = disk.stage.ctl])

\* The unit text is compiled into the manager that runs.
WriteUnit == Write("write-unit", [disk EXCEPT !.unit = disk.ctl])

Enable == At("enable") /\ disk.unit # None /\ Done([disk EXCEPT !.enabled = TRUE], job)
Disable ==
  \/ At("disable") /\ Done([disk EXCEPT !.enabled = FALSE], job)
  \/ At("stop") /\ Done([disk EXCEPT !.active = None], job)
  \/ At("disable-now") /\ Done([disk EXCEPT !.enabled = FALSE, !.active = None], job)

\* systemd runs the daemon's own check before it starts it (ExecStartPre).
Restart ==
  /\ At("restart")
  /\ disk.unit # None /\ disk.server # None
  /\ Accepts(disk.server, disk.config, disk)
  /\ Done([disk EXCEPT !.active = disk.server], job)

\* The administrator saves anything.
Editor ==
  /\ At("editor")
  /\ \E c \in Configs : Done(disk, [job EXCEPT !.args.cfg = c])

\* As BackupConfig, skipped by edit.
BackupOnInstall ==
  \/ At("backup-config") /\ Done(disk, job)
  \/ /\ At("backup-old-config")
     /\ IF disk.config = None THEN Done(disk, job)
        ELSE Write("backup-old-config", [disk EXCEPT !.backups = @ \cup {disk.config}])

BackupConfig ==
  \/ Write("backup-config", [disk EXCEPT !.backups = @ \cup {disk.config}])
  \/ /\ At("backup-old-config")
     /\ IF disk.config = None THEN Done(disk, job)
        ELSE Write("backup-old-config", [disk EXCEPT !.backups = @ \cup {disk.config}])
InstallConfig == Write("install-config", [disk EXCEPT !.config = job.args.cfg])
RestoreConfig == Write("restore-config", [disk EXCEPT !.config = before.config])

\* install_manual_tls: each file is saved before it is replaced.
SnapshotTls ==
  \/ At("snapshot-cert") /\ Done(disk, [job EXCEPT !.snap.cert = <<disk.cert>>])
  \/ At("snapshot-key") /\ Done(disk, [job EXCEPT !.snap.key = <<disk.key>>])
CopyTls ==
  \/ Write("copy-cert", [disk EXCEPT !.cert = job.args.tls[1]])
  \/ Write("copy-key", [disk EXCEPT !.key = job.args.tls[2]])

\* install_site: the old directory is moved away, the new one takes its place.
SiteOut ==
  /\ At("site-out")
  /\ Done([disk EXCEPT !.site = None], [job EXCEPT !.snap.site = <<disk.site>>])
SiteIn ==
  /\ At("site-in")
  /\ Done([disk EXCEPT !.site = job.args.dist], [job EXCEPT !.snap.siteIn = TRUE])

\* restore_resources undoes what was done, last first.
RestoreResources ==
  \/ /\ At("site-back")
     /\ Done([disk EXCEPT !.site = IF job.snap.site # <<>> /\ ~job.snap.siteIn
                                   THEN job.snap.site[1] ELSE @], job)
  \/ At("site-remove") /\ Done([disk EXCEPT !.site = IF job.snap.siteIn THEN None ELSE @], job)
  \/ /\ At("site-restore")
     /\ Done([disk EXCEPT !.site = IF job.snap.siteIn THEN job.snap.site[1] ELSE @], job)
  \/ Write("key-back", [disk EXCEPT !.key = IF job.snap.key # <<>> THEN job.snap.key[1] ELSE @])
  \/ Write("cert-back", [disk EXCEPT !.cert = IF job.snap.cert # <<>> THEN job.snap.cert[1] ELSE @])

Remove ==
  \/ At("remove-unit") /\ Done([disk EXCEPT !.unit = None], job)
  \/ At("remove-server") /\ Done([disk EXCEPT !.server = None], job)
  \/ At("remove-ctl") /\ Done([disk EXCEPT !.ctl = None], job)
Purge ==
  \/ /\ At("purge-config")
     /\ Done([disk EXCEPT !.config = None, !.backups = {}, !.cert = None, !.key = None], job)
  \/ At("purge-state") /\ Done([disk EXCEPT !.site = None], job)
  \/ At("purge-manager") /\ Done([disk EXCEPT !.rollback = NoPair, !.stage = NoPair], job)

-------------------------------------------------------------------------------
Command == Install \/ Update \/ Rollback \/ Edit \/ Repair \/ Uninstall \/ Service

Next ==
  \/ Command \/ Fail \/ Die
  \/ Verify \/ CheckConfig \/ ValidateRelease \/ Download \/ Directories
  \/ StageServer \/ StageCtl \/ DropRollback \/ NameRollback
  \/ CopyServer \/ CopyCtl \/ RestoreServer \/ RestoreCtl \/ Unstage
  \/ WriteUnit \/ Enable \/ Disable \/ Restart
  \/ Editor \/ BackupConfig \/ InstallConfig \/ RestoreConfig
  \/ SnapshotTls \/ CopyTls \/ SiteOut \/ SiteIn \/ RestoreResources
  \/ Remove \/ Purge

Spec == Init /\ [][Next]_vars

-------------------------------------------------------------------------------
(* properties *)

TypeOK ==
  /\ disk \in Disk /\ before \in Disk
  /\ job.outcome \in {"none", "ok", "error", "restored", "died"}
  /\ job.args.new \in Pair
  /\ (job.outcome = "none") <=> (Running \/ job.op = "none")
  /\ interrupted \in BOOLEAN
  /\ commands \in 0 .. MaxCommands

Ended(op, outcome) == job.op = op /\ job.outcome = outcome

\* docs/installation-management.md: "Failed activation restores both old
\* binaries", and update's own words, "previous binaries were restored": it says
\* so only when the old pair is installed again, and it reports success only
\* when the requested pair is installed, running, and the old pair saved.
UpdateReports ==
  /\ Ended("update", "ok") =>
       /\ disk.server = job.args.tag /\ disk.ctl = job.args.tag
       /\ disk.unit = job.args.tag /\ disk.active = job.args.tag
       /\ disk.rollback = Installed(before)
  /\ Ended("update", "restored") =>
       Installed(disk) = Installed(before) /\ disk.rollback = Installed(before)

\* "a successful rollback swaps the two sets so the operation can be reversed",
\* and a failed one that says "current binaries were restored" has changed
\* neither.
RollbackReports ==
  /\ Ended("rollback", "ok") =>
       Installed(disk) = before.rollback /\ disk.rollback = Installed(before)
  /\ Ended("rollback", "restored") =>
       Installed(disk) = Installed(before) /\ disk.rollback = before.rollback

\* An install that gives up after touching certificate, key or site puts them
\* back, and then it has not touched the configuration either.
InstallReports ==
  job.op \in {"install", "install-no-start"} /\ job.outcome = "restored" /\ ~interrupted =>
    /\ disk.cert = before.cert /\ disk.key = before.key
    /\ disk.site = before.site \/ before.site = None
    /\ disk.config = before.config

\* Wherever an update or a rollback is stopped, one matching pair of binaries is
\* left, in place or in the rollback directory ("retains the current daemon and
\* manager as one rollback set"), if there was one to begin with.
Recoverable ==
  job.op \in {"update", "rollback"} /\ Matched(Installed(before)) =>
    Matched(Installed(disk)) \/ Matched(disk.rollback)

\* The checks of doctor.
Doctor ==
  /\ disk.server # None /\ disk.ctl # None /\ disk.unit # None /\ disk.config # None
  /\ Accepts(disk.ctl, disk.config, disk)
  /\ disk.enabled
  /\ disk.active # None

\* A command that reports success where it activates the service leaves an
\* installation that doctor finds nothing wrong with.
Healthy ==
  job.op \in {"install", "update", "rollback", "repair"} /\ job.outcome = "ok" => Doctor

\* The live configuration is only ever replaced by one that was validated with
\* the resources in place, after a backup of the one it replaces; or by that
\* backup, when the service does not come up with the new one.
ConfigReplaced ==
  [][disk'.config # disk.config /\ disk'.config # None =>
       \/ job.undoing /\ disk'.config = before.config
       \/ /\ disk.config # None => disk.config \in disk.backups
          /\ \E v \in Versions : Accepts(v, disk'.config, disk)]_vars

\* What a command says when it ends is what it left behind, although each of its
\* calls may have failed, before or after its effect.
Reports == UpdateReports /\ RollbackReports /\ InstallReports /\ Healthy

===============================================================================
