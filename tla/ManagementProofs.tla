-------------------------- MODULE ManagementProofs --------------------------
(***************************************************************************)
(* What is proved about the lifecycle manager, for any releases,             *)
(* configurations, certificates and sites, any number of commands, and       *)
(* whatever call fails or whenever a command is stopped.                     *)
(***************************************************************************)
EXTENDS Management, TLAPS

-------------------------------------------------------------------------------
(* Where a command is: the number of calls it has left to make.              *)

Left == Len(job.todo)

Names ==
  {"account", "directories", "check-config", "verify-installed", "write-unit", "chown",
   "daemon-reload", "enable", "restart", "is-active",
   "download", "validate-new", "stage-server", "stage-ctl", "drop-rollback", "name-rollback",
   "copy-server", "copy-ctl", "restore-server", "restore-ctl",
   "validate-rollback", "unstage-server", "unstage-ctl",
   "editor", "check-edited", "backup-config", "install-config", "restore-config",
   "verify-new", "select-config", "check-candidate", "backup-old-config",
   "snapshot-cert", "copy-cert", "snapshot-key", "copy-key", "stage-site", "site-out", "site-in",
   "site-back", "site-remove", "site-restore", "key-back", "cert-back",
   "disable-now", "remove-unit", "remove-server", "remove-ctl",
   "purge-config", "purge-state", "purge-manager", "stop", "disable"}
Call == [do : Names, on : {"abort", "undo", "ignore", "skip"}]

\* The last n calls of a script.
Rest(s, n) == SubSeq(s, Len(s) - n + 1, Len(s))

\* The first of them.
End(s, n) == s[Len(s) - n + 1]

Installs == {"install", "install-no-start"}
Restores == {"update", "rollback", "edit"} \cup Installs
Others == {"repair-no-restart", "uninstall", "service"}
Ops == Restores \cup {"repair", "none"} \cup Others

RepairScript == Steps(RepairSteps \o <<"restart">>, "abort")
Wanted == job.op = "install"

\* The script of the command that runs, and the one that undoes it.
Main ==
  IF job.op = "update" THEN UpdateScript
  ELSE IF job.op = "rollback" THEN RollbackScript
  ELSE IF job.op = "edit" THEN EditScript
  ELSE IF job.op = "repair" THEN RepairScript
  ELSE InstallScript(job.args.tls # <<>>, job.args.dist # None, Wanted)
Undo ==
  IF job.op = "update" THEN UpdateUndo
  ELSE IF job.op = "rollback" THEN RollbackUndo
  ELSE IF job.op = "edit" THEN EditUndo
  ELSE InstallUndo
Script == IF job.undoing THEN Undo ELSE Main

\* A command is at some place of its script; one of the others makes no call that
\* replaces a configuration or restores something, and has nothing to undo.
Guarded ==
  {"install-config", "restore-config", "backup-config", "copy-cert", "copy-key", "site-restore"}
InScript ==
  /\ job.undoing => job.op \in Restores
  /\ job.op \in Restores => job.undo = Undo
  /\ Running /\ job.op \in Restores \cup {"repair"} => Left <= Len(Script) /\ job.todo = Rest(Script, Left)
  /\ Running /\ job.op \in Others =>
       \A i \in 1 .. Left : /\ job.todo[i].do \notin Guarded
                             /\ job.todo[i].on \in {"abort", "ignore"}
  /\ job.op = "none" => ~Running

\* A command that has met no error, and one that undoes what it did and has met
\* none since.
Forth(ops) == job.op \in ops /\ ~job.undoing /\ (Running \/ job.outcome = "ok")
Back(ops) == job.op \in ops /\ job.undoing /\ (Running \/ job.outcome = "restored")

-------------------------------------------------------------------------------
(* The invariant, by command: what holds at each place of its script.        *)

Snapshot(S) == {<<>>} \cup {<<x>> : x \in S}
Outcomes == {"none", "ok", "error", "restored", "died"}
JobFields == {"op", "todo", "undo", "undoing", "args", "snap", "outcome"}
Args ==
  [tag : Versions \cup {None}, new : Pair, cfg : Configs \cup {None},
   tls : {<<>>} \cup Idents \X Idents, dist : Sites \cup {None}]
Snaps ==
  [cert : Snapshot(Idents \cup {None}), key : Snapshot(Idents \cup {None}),
   site : Snapshot(Sites \cup {Empty, None}), siteIn : BOOLEAN]
Typed ==
  /\ disk \in Disk /\ before \in Disk
  /\ DOMAIN job = JobFields /\ job.op \in Ops /\ job.undoing \in BOOLEAN
  /\ job.outcome \in Outcomes
  /\ job.todo \in Seq(Call)
  /\ job.args \in Args /\ job.snap \in Snaps
  /\ (job.outcome = "none") <=> (Running \/ job.op = "none")
  /\ job.outcome = "restored" => job.undoing
  /\ job.outcome = "ok" => ~job.undoing
  /\ interrupted \in BOOLEAN /\ commands \in 0 .. MaxCommands

Usable == Accepts(disk.ctl, disk.config, disk)

\* update: the old pair is in place until it is the rollback pair, then the new
\* one takes its place, then the service is activated.
UpdateForth ==
  Forth({"update"}) =>
    /\ Left >= 12 => disk.server = before.server
    /\ Left >= 11 => disk.ctl = before.ctl
    /\ Left <= 16 => job.args.tag # None /\ job.args.new = [server |-> job.args.tag, ctl |-> job.args.tag]
    /\ Left \in 13 .. 15 => disk.stage.server = before.server
    /\ Left \in 13 .. 14 => disk.stage.ctl = before.ctl
    /\ Left <= 12 => disk.rollback = Installed(before)
    /\ Left <= 11 => disk.server = job.args.tag
    /\ Left <= 10 => disk.ctl = job.args.tag
    /\ Left <= 7 => Usable
    /\ Left <= 5 => disk.unit = disk.ctl
    /\ Left <= 2 => disk.enabled
    /\ Left <= 1 => disk.active = disk.server
UpdateBack ==
  Back({"update"}) =>
    /\ disk.rollback = Installed(before)
    /\ Left <= 10 => disk.server = before.server
    /\ Left <= 9 => disk.ctl = before.ctl

\* rollback: the current pair is staged, the saved one, which matches, put in place
\* and activated, and only then the staged one is saved.
RollbackForth ==
  Forth({"rollback"}) =>
    /\ Left >= 14 => disk.server = before.server
    /\ Left >= 13 => disk.ctl = before.ctl
    /\ Left >= 2 => disk.rollback = before.rollback
    /\ Left <= 16 => Matched(before.rollback)
    /\ Left \in 1 .. 15 => disk.stage.server = before.server
    /\ Left \in 1 .. 14 => disk.stage.ctl = before.ctl
    /\ Left <= 13 => disk.server = before.rollback.server
    /\ Left <= 12 => disk.ctl = before.rollback.ctl
    /\ Left <= 9 => Usable
    /\ Left <= 7 => disk.unit = disk.ctl
    /\ Left <= 4 => disk.enabled
    /\ Left <= 3 => disk.active = disk.server
    /\ Left = 0 => disk.rollback = Installed(before)
RollbackBack ==
  Back({"rollback"}) =>
    /\ disk.rollback = before.rollback /\ Matched(before.rollback)
    /\ disk.stage = Installed(before)
    /\ Left <= 10 => disk.server = before.server
    /\ Left <= 9 => disk.ctl = before.ctl

\* edit: what was edited is checked, and the old text saved, before it is replaced.
EditForth ==
  Forth({"edit"}) =>
    /\ Left <= 6 => disk.config # None
    /\ Left <= 5 => job.args.cfg # None
    /\ Left \in 3 .. 4 => Accepts(disk.ctl, job.args.cfg, disk)
    /\ Left = 3 => disk.config \in disk.backups

\* repair: every check is made, in order.
RepairForth ==
  Forth({"repair"}) =>
    /\ Left <= 6 => Usable
    /\ Left <= 5 => disk.server # None /\ disk.ctl # None
    /\ Left <= 4 => disk.unit = disk.ctl
    /\ Left <= 1 => disk.enabled
    /\ Left = 0 => disk.active = disk.server

\* install: how many calls follow the resources, and how many the site and the
\* certificate have.
After == IF Wanted THEN 12 ELSE 9
ForSite == IF job.args.dist # None THEN 3 ELSE 0
ForTls == IF job.args.tls # <<>> THEN 4 ELSE 0

\* What is saved of a resource is what it was, and it is saved before it changes.
SiteWas(x) == x = before.site \/ before.site = None
Saved ==
  /\ job.snap.cert # <<>> => job.snap.cert = <<before.cert>>
  /\ job.snap.key # <<>> => job.snap.key = <<before.key>>
  /\ job.snap.site # <<>> => SiteWas(job.snap.site[1])
  /\ job.snap.siteIn => job.snap.site # <<>>
InstallForth ==
  Forth(Installs) =>
    /\ job.args.new.server = job.args.new.ctl /\ job.args.new.server # None
    /\ job.args.cfg # None
    /\ Saved
    /\ Left >= After =>
         /\ job.snap.cert = <<>> => disk.cert = before.cert
         /\ job.snap.key = <<>> => disk.key = before.key
         /\ job.snap.site = <<>> => SiteWas(disk.site)
    /\ Left >= After + ForSite + 4 => job.snap.cert = <<>>
    /\ Left >= After + ForSite + 2 => job.snap.key = <<>>
    /\ Left >= After + 2 => job.snap.site = <<>>
    /\ Left > After => ~job.snap.siteIn
    /\ job.args.tls # <<>> /\ Left <= After + ForSite + 3 => job.snap.cert # <<>>
    /\ job.args.tls # <<>> /\ Left <= After + ForSite + 1 => job.snap.key # <<>>
    /\ job.args.dist # None /\ Left <= After + 1 => job.snap.site # <<>>
    /\ Left >= After - 2 => disk.config = before.config
    /\ Left \in After - 2 .. After - 1 => Accepts(job.args.new.ctl, job.args.cfg, disk)
    /\ Left = After - 2 /\ disk.config # None => disk.config \in disk.backups
    /\ Left <= After - 4 => disk.server = job.args.new.server
    /\ Left <= After - 5 => disk.ctl = job.args.new.ctl
    /\ Left <= After - 6 => disk.unit = disk.ctl
    /\ Left <= After - 8 => Usable
    /\ Wanted /\ Left <= 2 => disk.enabled
    /\ Wanted /\ Left <= 1 => disk.active = disk.server
InstallBack ==
  Back(Installs) =>
    /\ Saved /\ disk.config = before.config
    /\ job.snap.cert = <<>> => disk.cert = before.cert
    /\ job.snap.key = <<>> => disk.key = before.key
    /\ job.snap.site = <<>> => SiteWas(disk.site)
    /\ ~interrupted /\ Left <= 4 /\ ~job.snap.siteIn => SiteWas(disk.site)
    /\ ~interrupted /\ Left <= 2 => SiteWas(disk.site)
    /\ Left <= 1 => disk.key = before.key
    /\ Left = 0 => disk.cert = before.cert

Placed ==
  /\ UpdateForth /\ UpdateBack /\ RollbackForth /\ RollbackBack
  /\ EditForth /\ RepairForth /\ InstallForth /\ InstallBack

Managed == Typed /\ InScript /\ Placed /\ Recoverable

-------------------------------------------------------------------------------
(* Scripts.                                                                  *)

LEMMA JoinSeq ==
  ASSUME NEW T, NEW s \in Seq(T), NEW t \in Seq(T)
  PROVE  /\ s \o t \in Seq(T) /\ Len(s \o t) = Len(s) + Len(t)
         /\ \A i \in 1 .. Len(s) : (s \o t)[i] = s[i]
         /\ \A i \in 1 .. Len(t) : (s \o t)[Len(s) + i] = t[i]
  OBVIOUS

LEMMA StepsSeq ==
  ASSUME NEW names \in Seq(Names), NEW on \in {"abort", "undo", "ignore", "skip"}
  PROVE  /\ Steps(names, on) \in Seq(Call) /\ Len(Steps(names, on)) = Len(names)
         /\ \A i \in 1 .. Len(names) : Steps(names, on)[i] = [do |-> names[i], on |-> on]
<1> DEFINE n == Len(names)
<1>1. n \in Nat /\ DOMAIN names = 1 .. n /\ \A i \in 1 .. n : names[i] \in Names
  OBVIOUS
<1>2. Steps(names, on) = [i \in 1 .. n |-> [do |-> names[i], on |-> on]]
  BY <1>1 DEF Steps, Step
<1>3. \A i \in 1 .. n : [do |-> names[i], on |-> on] \in Call
  BY <1>1 DEF Call
<1> HIDE DEF n
<1>4. [i \in 1 .. n |-> [do |-> names[i], on |-> on]] \in [1 .. n -> Call]
  BY <1>3
<1>5. Steps(names, on) \in Seq(Call) /\ Len(Steps(names, on)) = n
  BY <1>1, <1>2, <1>4
<1> QED
  BY <1>2, <1>5 DEF n

\* What is left of a script.
LEMMA RestSeq ==
  ASSUME NEW T, NEW s \in Seq(T), NEW n \in 0 .. Len(s)
  PROVE  /\ Rest(s, n) \in Seq(T) /\ Len(Rest(s, n)) = n
         /\ \A i \in 1 .. n : Rest(s, n)[i] = s[Len(s) - n + i]
         /\ Rest(s, n) = <<>> <=> n = 0
<1>1. /\ Rest(s, n) \in Seq(T) /\ Len(Rest(s, n)) = n
      /\ \A i \in 1 .. n : Rest(s, n)[i] = s[Len(s) - n + i]
  BY DEF Rest
<1>2. \A t \in Seq(T) : t = <<>> <=> Len(t) = 0
  OBVIOUS
<1> QED
  BY <1>1, <1>2

LEMMA RestSub ==
  ASSUME NEW T, NEW s \in Seq(T), NEW n \in 0 .. Len(s), NEW k \in 1 .. n + 1
  PROVE  SubSeq(Rest(s, n), k, n) = Rest(s, n - k + 1)
  BY RestSeq DEF Rest

\* The call that is due when n of them are left.
LEMMA RestTail ==
  ASSUME NEW T, NEW s \in Seq(T), NEW n \in 1 .. Len(s)
  PROVE  /\ Head(Rest(s, n)) = End(s, n)
         /\ Tail(Rest(s, n)) = Rest(s, n - 1)
  BY RestSeq DEF Rest, End

LEMMA RestAll ==
  ASSUME NEW T, NEW s \in Seq(T)
  PROVE  Rest(s, Len(s)) = s
  BY DEF Rest

\* What the calls of two scripts in a row are, counted from the end.
Joined(T, s, t) ==
  /\ s \o t \in Seq(T) /\ Len(s \o t) = Len(s) + Len(t)
  /\ \A n \in 1 .. Len(t) : End(s \o t, n) = End(t, n)
  /\ \A m \in 1 .. Len(s), n \in Nat : n = Len(t) + m => End(s \o t, n) = End(s, m)

LEMMA EndJoin ==
  ASSUME NEW T, NEW s \in Seq(T), NEW t \in Seq(T)
  PROVE  Joined(T, s, t)
<1>1. /\ Len(s) \in Nat /\ Len(t) \in Nat /\ Len(s \o t) = Len(s) + Len(t) /\ s \o t \in Seq(T)
  BY JoinSeq
<1>2. ASSUME NEW n \in 1 .. Len(t)
      PROVE  End(s \o t, n) = End(t, n)
  <2>1. Len(t) - n + 1 \in 1 .. Len(t) /\ Len(s \o t) - n + 1 = Len(s) + (Len(t) - n + 1)
    BY <1>1
  <2> QED
    BY <2>1, JoinSeq DEF End
<1>3. ASSUME NEW m \in 1 .. Len(s), NEW n \in Nat, n = Len(t) + m
      PROVE  End(s \o t, n) = End(s, m)
  <2>1. Len(s) - m + 1 \in 1 .. Len(s) /\ Len(s \o t) - n + 1 = Len(s) - m + 1
    BY <1>1, <1>3
  <2> QED
    BY <2>1, JoinSeq DEF End
<1> QED
  BY <1>1, <1>2, <1>3 DEF Joined

Made(names, on) ==
  /\ Steps(names, on) \in Seq(Call) /\ Len(Steps(names, on)) = Len(names)
  /\ \A n \in 1 .. Len(names) : End(Steps(names, on), n) = Step(End(names, n), on)

LEMMA EndSteps ==
  ASSUME NEW names \in Seq(Names), NEW on \in {"abort", "undo", "ignore", "skip"}
  PROVE  Made(names, on)
<1>1. Len(names) \in Nat
  OBVIOUS
<1>2. \A n \in 1 .. Len(names) : Len(names) - n + 1 \in 1 .. Len(names)
  BY <1>1
<1> QED
  BY <1>2, StepsSeq DEF End, Step, Made

LEMMA RepairNames ==
  /\ RepairSteps \in Seq(Names) /\ Len(RepairSteps) = 8
  /\ End(RepairSteps, 8) = "account" /\ End(RepairSteps, 7) = "directories"
  /\ End(RepairSteps, 6) = "check-config" /\ End(RepairSteps, 5) = "verify-installed"
  /\ End(RepairSteps, 4) = "write-unit" /\ End(RepairSteps, 3) = "chown"
  /\ End(RepairSteps, 2) = "daemon-reload" /\ End(RepairSteps, 1) = "enable"
<1>1. RepairSteps \in Seq(Names) /\ Len(RepairSteps) = 8
  BY DEF RepairSteps, Names
<1>2. /\ RepairSteps[1] = "account" /\ RepairSteps[2] = "directories"
      /\ RepairSteps[3] = "check-config" /\ RepairSteps[4] = "verify-installed"
      /\ RepairSteps[5] = "write-unit" /\ RepairSteps[6] = "chown"
      /\ RepairSteps[7] = "daemon-reload" /\ RepairSteps[8] = "enable"
  BY DEF RepairSteps
<1> QED
  BY <1>1, <1>2 DEF End

LEMMA ActivateNames ==
  /\ Activate \in Seq(Names) /\ Len(Activate) = 10
  /\ End(Activate, 10) = "account" /\ End(Activate, 9) = "directories"
  /\ End(Activate, 8) = "check-config" /\ End(Activate, 7) = "verify-installed"
  /\ End(Activate, 6) = "write-unit" /\ End(Activate, 5) = "chown"
  /\ End(Activate, 4) = "daemon-reload" /\ End(Activate, 3) = "enable"
  /\ End(Activate, 2) = "restart" /\ End(Activate, 1) = "is-active"
<1> DEFINE last == <<"restart", "is-active">>
<1>1. last \in Seq(Names) /\ Len(last) = 2 /\ End(last, 2) = "restart" /\ End(last, 1) = "is-active"
  BY DEF Names, End
<1> HIDE DEF last
<1>2. /\ Activate \in Seq(Names) /\ Len(Activate) = 10
      /\ \A n \in 1 .. 2 : End(Activate, n) = End(last, n)
      /\ \A m \in 1 .. 8, n \in Nat : n = 2 + m => End(Activate, n) = End(RepairSteps, m)
  <2>1. Activate = RepairSteps \o last
    BY DEF Activate, last
  <2>2. RepairSteps \in Seq(Names) /\ Len(RepairSteps) = 8
    BY RepairNames
  <2>3. Joined(Names, RepairSteps, last)
    BY <1>1, <2>2, EndJoin
  <2> QED
    BY <1>1, <2>1, <2>2, <2>3 DEF Joined
<1> QED
  BY <1>1, <1>2, RepairNames
CopyBoth == <<"copy-server", "copy-ctl">> \o Activate
RestoreBoth == Restore \o Activate

LEMMA CopyNames ==
  /\ CopyBoth \in Seq(Names) /\ Len(CopyBoth) = 12 /\ End(CopyBoth, 12) = "copy-server"
  /\ End(CopyBoth, 11) = "copy-ctl" /\ End(CopyBoth, 10) = "account"
  /\ End(CopyBoth, 9) = "directories" /\ End(CopyBoth, 8) = "check-config"
  /\ End(CopyBoth, 7) = "verify-installed" /\ End(CopyBoth, 6) = "write-unit"
  /\ End(CopyBoth, 5) = "chown" /\ End(CopyBoth, 4) = "daemon-reload"
  /\ End(CopyBoth, 3) = "enable" /\ End(CopyBoth, 2) = "restart"
  /\ End(CopyBoth, 1) = "is-active"
<1> DEFINE first == <<"copy-server", "copy-ctl">>
<1> DEFINE second == Activate
<1>1. /\ first \in Seq(Names) /\ Len(first) = 2 /\ End(first, 2) = "copy-server"
      /\ End(first, 1) = "copy-ctl"
  BY DEF Names, End
<1>2. /\ second \in Seq(Names) /\ Len(second) = 10 /\ End(second, 10) = "account"
      /\ End(second, 9) = "directories" /\ End(second, 8) = "check-config"
      /\ End(second, 7) = "verify-installed" /\ End(second, 6) = "write-unit"
      /\ End(second, 5) = "chown" /\ End(second, 4) = "daemon-reload"
      /\ End(second, 3) = "enable" /\ End(second, 2) = "restart"
      /\ End(second, 1) = "is-active"
  BY ActivateNames
<1>3. CopyBoth = first \o second
  BY DEF CopyBoth
<1> HIDE DEF first, second
<1>4. Joined(Names, first, second)
  BY <1>1, <1>2, EndJoin
<1> QED
  BY <1>1, <1>2, <1>3, <1>4 DEF Joined

LEMMA RestoreNames ==
  /\ RestoreBoth \in Seq(Names) /\ Len(RestoreBoth) = 12
  /\ End(RestoreBoth, 12) = "restore-server" /\ End(RestoreBoth, 11) = "restore-ctl"
  /\ End(RestoreBoth, 10) = "account" /\ End(RestoreBoth, 9) = "directories"
  /\ End(RestoreBoth, 8) = "check-config" /\ End(RestoreBoth, 7) = "verify-installed"
  /\ End(RestoreBoth, 6) = "write-unit" /\ End(RestoreBoth, 5) = "chown"
  /\ End(RestoreBoth, 4) = "daemon-reload" /\ End(RestoreBoth, 3) = "enable"
  /\ End(RestoreBoth, 2) = "restart" /\ End(RestoreBoth, 1) = "is-active"
<1> DEFINE first == Restore
<1> DEFINE second == Activate
<1>1. /\ first \in Seq(Names) /\ Len(first) = 2 /\ End(first, 2) = "restore-server"
      /\ End(first, 1) = "restore-ctl"
  BY DEF Names, End, Restore
<1>2. /\ second \in Seq(Names) /\ Len(second) = 10 /\ End(second, 10) = "account"
      /\ End(second, 9) = "directories" /\ End(second, 8) = "check-config"
      /\ End(second, 7) = "verify-installed" /\ End(second, 6) = "write-unit"
      /\ End(second, 5) = "chown" /\ End(second, 4) = "daemon-reload"
      /\ End(second, 3) = "enable" /\ End(second, 2) = "restart"
      /\ End(second, 1) = "is-active"
  BY ActivateNames
<1>3. RestoreBoth = first \o second
  BY DEF RestoreBoth
<1> HIDE DEF first, second
<1>4. Joined(Names, first, second)
  BY <1>1, <1>2, EndJoin
<1> QED
  BY <1>1, <1>2, <1>3, <1>4 DEF Joined

LEMMA SaveCalls ==
  /\ SaveCurrent \in Seq(Call) /\ Len(SaveCurrent) = 2
  /\ End(SaveCurrent, 2) = Step("stage-server", "abort")
  /\ End(SaveCurrent, 1) = Step("stage-ctl", "abort")
<1> DEFINE names == <<"stage-server", "stage-ctl">>
<1>1. /\ names \in Seq(Names) /\ Len(names) = 2 /\ names[1] = "stage-server"
      /\ names[2] = "stage-ctl"
  BY DEF Names
<1>2. SaveCurrent = Steps(names, "abort")
  BY DEF SaveCurrent
<1> HIDE DEF names
<1>3. /\ End(names, 2) = "stage-server" /\ End(names, 1) = "stage-ctl"
  BY <1>1 DEF End
<1>4. Made(names, "abort")
  BY <1>1, EndSteps
<1> QED
  BY <1>1, <1>2, <1>3, <1>4 DEF Made

LEMMA PublishCalls ==
  /\ Publish \in Seq(Call) /\ Len(Publish) = 2
  /\ End(Publish, 2) = Step("drop-rollback", "abort")
  /\ End(Publish, 1) = Step("name-rollback", "abort")
<1> DEFINE names == <<"drop-rollback", "name-rollback">>
<1>1. /\ names \in Seq(Names) /\ Len(names) = 2 /\ names[1] = "drop-rollback"
      /\ names[2] = "name-rollback"
  BY DEF Names
<1>2. Publish = Steps(names, "abort")
  BY DEF Publish
<1> HIDE DEF names
<1>3. /\ End(names, 2) = "drop-rollback" /\ End(names, 1) = "name-rollback"
  BY <1>1 DEF End
<1>4. Made(names, "abort")
  BY <1>1, EndSteps
<1> QED
  BY <1>1, <1>2, <1>3, <1>4 DEF Made

LEMMA UpdateCalls ==
  /\ UpdateScript \in Seq(Call) /\ Len(UpdateScript) = 18
  /\ End(UpdateScript, 18) = Step("download", "abort")
  /\ End(UpdateScript, 17) = Step("validate-new", "abort")
  /\ End(UpdateScript, 16) = Step("stage-server", "abort")
  /\ End(UpdateScript, 15) = Step("stage-ctl", "abort")
  /\ End(UpdateScript, 14) = Step("drop-rollback", "abort")
  /\ End(UpdateScript, 13) = Step("name-rollback", "abort")
  /\ End(UpdateScript, 12) = Step("copy-server", "undo")
  /\ End(UpdateScript, 11) = Step("copy-ctl", "undo")
  /\ End(UpdateScript, 10) = Step("account", "undo")
  /\ End(UpdateScript, 9) = Step("directories", "undo")
  /\ End(UpdateScript, 8) = Step("check-config", "undo")
  /\ End(UpdateScript, 7) = Step("verify-installed", "undo")
  /\ End(UpdateScript, 6) = Step("write-unit", "undo")
  /\ End(UpdateScript, 5) = Step("chown", "undo")
  /\ End(UpdateScript, 4) = Step("daemon-reload", "undo")
  /\ End(UpdateScript, 3) = Step("enable", "undo")
  /\ End(UpdateScript, 2) = Step("restart", "undo")
  /\ End(UpdateScript, 1) = Step("is-active", "undo")
<1> DEFINE first == Steps(<<"download", "validate-new">>, "abort")
<1> DEFINE last == Steps(CopyBoth, "undo")
<1>1. /\ first \in Seq(Call) /\ Len(first) = 2 /\ End(first, 2) = Step("download", "abort")
      /\ End(first, 1) = Step("validate-new", "abort")
  <2> DEFINE names == <<"download", "validate-new">>
  <2>1. /\ names \in Seq(Names) /\ Len(names) = 2 /\ names[1] = "download"
        /\ names[2] = "validate-new"
    BY DEF Names
  <2>2. first = Steps(names, "abort")
    BY DEF first
  <2> HIDE DEF names
  <2>3. /\ End(names, 2) = "download" /\ End(names, 1) = "validate-new"
    BY <2>1 DEF End
  <2>4. Made(names, "abort")
    BY <2>1, EndSteps
  <2> QED
    BY <2>1, <2>2, <2>3, <2>4 DEF Made
<1>2. /\ SaveCurrent \in Seq(Call) /\ Len(SaveCurrent) = 2
      /\ End(SaveCurrent, 2) = Step("stage-server", "abort")
      /\ End(SaveCurrent, 1) = Step("stage-ctl", "abort")
  BY SaveCalls
<1>3. /\ Publish \in Seq(Call) /\ Len(Publish) = 2
      /\ End(Publish, 2) = Step("drop-rollback", "abort")
      /\ End(Publish, 1) = Step("name-rollback", "abort")
  BY PublishCalls
<1>4. /\ last \in Seq(Call) /\ Len(last) = 12 /\ End(last, 12) = Step("copy-server", "undo")
      /\ End(last, 11) = Step("copy-ctl", "undo") /\ End(last, 10) = Step("account", "undo")
      /\ End(last, 9) = Step("directories", "undo")
      /\ End(last, 8) = Step("check-config", "undo")
      /\ End(last, 7) = Step("verify-installed", "undo")
      /\ End(last, 6) = Step("write-unit", "undo") /\ End(last, 5) = Step("chown", "undo")
      /\ End(last, 4) = Step("daemon-reload", "undo")
      /\ End(last, 3) = Step("enable", "undo") /\ End(last, 2) = Step("restart", "undo")
      /\ End(last, 1) = Step("is-active", "undo")
  <2>1. /\ CopyBoth \in Seq(Names) /\ Len(CopyBoth) = 12
        /\ End(CopyBoth, 12) = "copy-server" /\ End(CopyBoth, 11) = "copy-ctl"
        /\ End(CopyBoth, 10) = "account" /\ End(CopyBoth, 9) = "directories"
        /\ End(CopyBoth, 8) = "check-config" /\ End(CopyBoth, 7) = "verify-installed"
        /\ End(CopyBoth, 6) = "write-unit" /\ End(CopyBoth, 5) = "chown"
        /\ End(CopyBoth, 4) = "daemon-reload" /\ End(CopyBoth, 3) = "enable"
        /\ End(CopyBoth, 2) = "restart" /\ End(CopyBoth, 1) = "is-active"
    BY CopyNames
  <2>2. Made(CopyBoth, "undo")
    BY <2>1, EndSteps
  <2>3. last = Steps(CopyBoth, "undo")
    BY DEF last
  <2> QED
    BY <2>1, <2>2, <2>3 DEF Made
<1>5. UpdateScript = first \o SaveCurrent \o Publish \o last
  BY DEF UpdateScript, CopyBoth
<1> HIDE DEF first, last
<1>6. Joined(Call, first, SaveCurrent)
  BY <1>1, <1>2, EndJoin
<1> DEFINE upto2 == first \o SaveCurrent
<1>7. /\ upto2 \in Seq(Call) /\ Len(upto2) = 4 /\ End(upto2, 4) = Step("download", "abort")
      /\ End(upto2, 3) = Step("validate-new", "abort")
      /\ End(upto2, 2) = Step("stage-server", "abort")
      /\ End(upto2, 1) = Step("stage-ctl", "abort")
  BY <1>1, <1>2, <1>6 DEF Joined
<1> HIDE DEF upto2
<1>8. UpdateScript = upto2 \o Publish \o last
  BY <1>5 DEF upto2
<1>9. Joined(Call, upto2, Publish)
  BY <1>7, <1>3, EndJoin
<1> DEFINE upto3 == upto2 \o Publish
<1>10. /\ upto3 \in Seq(Call) /\ Len(upto3) = 6 /\ End(upto3, 6) = Step("download", "abort")
      /\ End(upto3, 5) = Step("validate-new", "abort")
      /\ End(upto3, 4) = Step("stage-server", "abort")
      /\ End(upto3, 3) = Step("stage-ctl", "abort")
      /\ End(upto3, 2) = Step("drop-rollback", "abort")
      /\ End(upto3, 1) = Step("name-rollback", "abort")
  BY <1>7, <1>3, <1>9 DEF Joined
<1> HIDE DEF upto3
<1>11. UpdateScript = upto3 \o last
  BY <1>8 DEF upto3
<1>12. Joined(Call, upto3, last)
  BY <1>10, <1>4, EndJoin
<1> QED
  BY <1>10, <1>4, <1>11, <1>12 DEF Joined

LEMMA ReviveCalls ==
  /\ Revive \in Seq(Call) /\ Len(Revive) = 9 /\ End(Revive, 9) = Step("account", "skip")
  /\ End(Revive, 8) = Step("directories", "skip")
  /\ End(Revive, 7) = Step("check-config", "skip")
  /\ End(Revive, 6) = Step("verify-installed", "skip")
  /\ End(Revive, 5) = Step("write-unit", "skip") /\ End(Revive, 4) = Step("chown", "skip")
  /\ End(Revive, 3) = Step("daemon-reload", "skip")
  /\ End(Revive, 2) = Step("enable", "skip") /\ End(Revive, 1) = Step("restart", "ignore")
<1> DEFINE first == Steps(RepairSteps, "skip")
<1> DEFINE last == Steps(<<"restart">>, "ignore")
<1>1. /\ first \in Seq(Call) /\ Len(first) = 8 /\ End(first, 8) = Step("account", "skip")
      /\ End(first, 7) = Step("directories", "skip")
      /\ End(first, 6) = Step("check-config", "skip")
      /\ End(first, 5) = Step("verify-installed", "skip")
      /\ End(first, 4) = Step("write-unit", "skip") /\ End(first, 3) = Step("chown", "skip")
      /\ End(first, 2) = Step("daemon-reload", "skip")
      /\ End(first, 1) = Step("enable", "skip")
  <2>1. /\ RepairSteps \in Seq(Names) /\ Len(RepairSteps) = 8
        /\ End(RepairSteps, 8) = "account" /\ End(RepairSteps, 7) = "directories"
        /\ End(RepairSteps, 6) = "check-config" /\ End(RepairSteps, 5) = "verify-installed"
        /\ End(RepairSteps, 4) = "write-unit" /\ End(RepairSteps, 3) = "chown"
        /\ End(RepairSteps, 2) = "daemon-reload" /\ End(RepairSteps, 1) = "enable"
    BY RepairNames
  <2>2. Made(RepairSteps, "skip")
    BY <2>1, EndSteps
  <2>3. first = Steps(RepairSteps, "skip")
    BY DEF first
  <2> QED
    BY <2>1, <2>2, <2>3 DEF Made
<1>2. /\ last \in Seq(Call) /\ Len(last) = 1 /\ End(last, 1) = Step("restart", "ignore")
  <2> DEFINE names == <<"restart">>
  <2>1. /\ names \in Seq(Names) /\ Len(names) = 1 /\ names[1] = "restart"
    BY DEF Names
  <2>2. last = Steps(names, "ignore")
    BY DEF last
  <2> HIDE DEF names
  <2>3. /\ End(names, 1) = "restart"
    BY <2>1 DEF End
  <2>4. Made(names, "ignore")
    BY <2>1, EndSteps
  <2> QED
    BY <2>1, <2>2, <2>3, <2>4 DEF Made
<1>3. Revive = first \o last
  BY DEF Revive
<1> HIDE DEF first, last
<1>4. Joined(Call, first, last)
  BY <1>1, <1>2, EndJoin
<1> QED
  BY <1>1, <1>2, <1>3, <1>4 DEF Joined

LEMMA UpdateUndoCalls ==
  /\ UpdateUndo \in Seq(Call) /\ Len(UpdateUndo) = 11
  /\ End(UpdateUndo, 11) = Step("restore-server", "abort")
  /\ End(UpdateUndo, 10) = Step("restore-ctl", "abort")
  /\ End(UpdateUndo, 9) = Step("account", "skip")
  /\ End(UpdateUndo, 8) = Step("directories", "skip")
  /\ End(UpdateUndo, 7) = Step("check-config", "skip")
  /\ End(UpdateUndo, 6) = Step("verify-installed", "skip")
  /\ End(UpdateUndo, 5) = Step("write-unit", "skip")
  /\ End(UpdateUndo, 4) = Step("chown", "skip")
  /\ End(UpdateUndo, 3) = Step("daemon-reload", "skip")
  /\ End(UpdateUndo, 2) = Step("enable", "skip")
  /\ End(UpdateUndo, 1) = Step("restart", "ignore")
<1> DEFINE first == Steps(<<"restore-server", "restore-ctl">>, "abort")
<1>1. /\ first \in Seq(Call) /\ Len(first) = 2
      /\ End(first, 2) = Step("restore-server", "abort")
      /\ End(first, 1) = Step("restore-ctl", "abort")
  <2> DEFINE names == <<"restore-server", "restore-ctl">>
  <2>1. /\ names \in Seq(Names) /\ Len(names) = 2 /\ names[1] = "restore-server"
        /\ names[2] = "restore-ctl"
    BY DEF Names
  <2>2. first = Steps(names, "abort")
    BY DEF first
  <2> HIDE DEF names
  <2>3. /\ End(names, 2) = "restore-server" /\ End(names, 1) = "restore-ctl"
    BY <2>1 DEF End
  <2>4. Made(names, "abort")
    BY <2>1, EndSteps
  <2> QED
    BY <2>1, <2>2, <2>3, <2>4 DEF Made
<1>2. /\ Revive \in Seq(Call) /\ Len(Revive) = 9 /\ End(Revive, 9) = Step("account", "skip")
      /\ End(Revive, 8) = Step("directories", "skip")
      /\ End(Revive, 7) = Step("check-config", "skip")
      /\ End(Revive, 6) = Step("verify-installed", "skip")
      /\ End(Revive, 5) = Step("write-unit", "skip")
      /\ End(Revive, 4) = Step("chown", "skip")
      /\ End(Revive, 3) = Step("daemon-reload", "skip")
      /\ End(Revive, 2) = Step("enable", "skip")
      /\ End(Revive, 1) = Step("restart", "ignore")
  BY ReviveCalls
<1>3. UpdateUndo = first \o Revive
  BY DEF UpdateUndo, Restore
<1> HIDE DEF first
<1>4. Joined(Call, first, Revive)
  BY <1>1, <1>2, EndJoin
<1> QED
  BY <1>1, <1>2, <1>3, <1>4 DEF Joined

LEMMA RollbackCalls ==
  /\ RollbackScript \in Seq(Call) /\ Len(RollbackScript) = 17
  /\ End(RollbackScript, 17) = Step("validate-rollback", "abort")
  /\ End(RollbackScript, 16) = Step("stage-server", "abort")
  /\ End(RollbackScript, 15) = Step("stage-ctl", "abort")
  /\ End(RollbackScript, 14) = Step("restore-server", "undo")
  /\ End(RollbackScript, 13) = Step("restore-ctl", "undo")
  /\ End(RollbackScript, 12) = Step("account", "undo")
  /\ End(RollbackScript, 11) = Step("directories", "undo")
  /\ End(RollbackScript, 10) = Step("check-config", "undo")
  /\ End(RollbackScript, 9) = Step("verify-installed", "undo")
  /\ End(RollbackScript, 8) = Step("write-unit", "undo")
  /\ End(RollbackScript, 7) = Step("chown", "undo")
  /\ End(RollbackScript, 6) = Step("daemon-reload", "undo")
  /\ End(RollbackScript, 5) = Step("enable", "undo")
  /\ End(RollbackScript, 4) = Step("restart", "undo")
  /\ End(RollbackScript, 3) = Step("is-active", "undo")
  /\ End(RollbackScript, 2) = Step("drop-rollback", "abort")
  /\ End(RollbackScript, 1) = Step("name-rollback", "abort")
<1> DEFINE first == Steps(<<"validate-rollback">>, "abort")
<1> DEFINE main == Steps(RestoreBoth, "undo")
<1>1. /\ first \in Seq(Call) /\ Len(first) = 1
      /\ End(first, 1) = Step("validate-rollback", "abort")
  <2> DEFINE names == <<"validate-rollback">>
  <2>1. /\ names \in Seq(Names) /\ Len(names) = 1 /\ names[1] = "validate-rollback"
    BY DEF Names
  <2>2. first = Steps(names, "abort")
    BY DEF first
  <2> HIDE DEF names
  <2>3. /\ End(names, 1) = "validate-rollback"
    BY <2>1 DEF End
  <2>4. Made(names, "abort")
    BY <2>1, EndSteps
  <2> QED
    BY <2>1, <2>2, <2>3, <2>4 DEF Made
<1>2. /\ SaveCurrent \in Seq(Call) /\ Len(SaveCurrent) = 2
      /\ End(SaveCurrent, 2) = Step("stage-server", "abort")
      /\ End(SaveCurrent, 1) = Step("stage-ctl", "abort")
  BY SaveCalls
<1>3. /\ main \in Seq(Call) /\ Len(main) = 12
      /\ End(main, 12) = Step("restore-server", "undo")
      /\ End(main, 11) = Step("restore-ctl", "undo")
      /\ End(main, 10) = Step("account", "undo")
      /\ End(main, 9) = Step("directories", "undo")
      /\ End(main, 8) = Step("check-config", "undo")
      /\ End(main, 7) = Step("verify-installed", "undo")
      /\ End(main, 6) = Step("write-unit", "undo") /\ End(main, 5) = Step("chown", "undo")
      /\ End(main, 4) = Step("daemon-reload", "undo")
      /\ End(main, 3) = Step("enable", "undo") /\ End(main, 2) = Step("restart", "undo")
      /\ End(main, 1) = Step("is-active", "undo")
  <2>1. /\ RestoreBoth \in Seq(Names) /\ Len(RestoreBoth) = 12
        /\ End(RestoreBoth, 12) = "restore-server" /\ End(RestoreBoth, 11) = "restore-ctl"
        /\ End(RestoreBoth, 10) = "account" /\ End(RestoreBoth, 9) = "directories"
        /\ End(RestoreBoth, 8) = "check-config" /\ End(RestoreBoth, 7) = "verify-installed"
        /\ End(RestoreBoth, 6) = "write-unit" /\ End(RestoreBoth, 5) = "chown"
        /\ End(RestoreBoth, 4) = "daemon-reload" /\ End(RestoreBoth, 3) = "enable"
        /\ End(RestoreBoth, 2) = "restart" /\ End(RestoreBoth, 1) = "is-active"
    BY RestoreNames
  <2>2. Made(RestoreBoth, "undo")
    BY <2>1, EndSteps
  <2>3. main = Steps(RestoreBoth, "undo")
    BY DEF main
  <2> QED
    BY <2>1, <2>2, <2>3 DEF Made
<1>4. /\ Publish \in Seq(Call) /\ Len(Publish) = 2
      /\ End(Publish, 2) = Step("drop-rollback", "abort")
      /\ End(Publish, 1) = Step("name-rollback", "abort")
  BY PublishCalls
<1>5. RollbackScript = first \o SaveCurrent \o main \o Publish
  BY DEF RollbackScript, RestoreBoth
<1> HIDE DEF first, main
<1>6. Joined(Call, first, SaveCurrent)
  BY <1>1, <1>2, EndJoin
<1> DEFINE upto2 == first \o SaveCurrent
<1>7. /\ upto2 \in Seq(Call) /\ Len(upto2) = 3
      /\ End(upto2, 3) = Step("validate-rollback", "abort")
      /\ End(upto2, 2) = Step("stage-server", "abort")
      /\ End(upto2, 1) = Step("stage-ctl", "abort")
  BY <1>1, <1>2, <1>6 DEF Joined
<1> HIDE DEF upto2
<1>8. RollbackScript = upto2 \o main \o Publish
  BY <1>5 DEF upto2
<1>9. Joined(Call, upto2, main)
  BY <1>7, <1>3, EndJoin
<1> DEFINE upto3 == upto2 \o main
<1>10. /\ upto3 \in Seq(Call) /\ Len(upto3) = 15
      /\ End(upto3, 15) = Step("validate-rollback", "abort")
      /\ End(upto3, 14) = Step("stage-server", "abort")
      /\ End(upto3, 13) = Step("stage-ctl", "abort")
      /\ End(upto3, 12) = Step("restore-server", "undo")
      /\ End(upto3, 11) = Step("restore-ctl", "undo")
      /\ End(upto3, 10) = Step("account", "undo")
      /\ End(upto3, 9) = Step("directories", "undo")
      /\ End(upto3, 8) = Step("check-config", "undo")
      /\ End(upto3, 7) = Step("verify-installed", "undo")
      /\ End(upto3, 6) = Step("write-unit", "undo") /\ End(upto3, 5) = Step("chown", "undo")
      /\ End(upto3, 4) = Step("daemon-reload", "undo")
      /\ End(upto3, 3) = Step("enable", "undo") /\ End(upto3, 2) = Step("restart", "undo")
      /\ End(upto3, 1) = Step("is-active", "undo")
  BY <1>7, <1>3, <1>9 DEF Joined
<1> HIDE DEF upto3
<1>11. RollbackScript = upto3 \o Publish
  BY <1>8 DEF upto3
<1>12. Joined(Call, upto3, Publish)
  BY <1>10, <1>4, EndJoin
<1> QED
  BY <1>10, <1>4, <1>11, <1>12 DEF Joined

LEMMA RollbackUndoCalls ==
  /\ RollbackUndo \in Seq(Call) /\ Len(RollbackUndo) = 11
  /\ End(RollbackUndo, 11) = Step("unstage-server", "abort")
  /\ End(RollbackUndo, 10) = Step("unstage-ctl", "abort")
  /\ End(RollbackUndo, 9) = Step("account", "skip")
  /\ End(RollbackUndo, 8) = Step("directories", "skip")
  /\ End(RollbackUndo, 7) = Step("check-config", "skip")
  /\ End(RollbackUndo, 6) = Step("verify-installed", "skip")
  /\ End(RollbackUndo, 5) = Step("write-unit", "skip")
  /\ End(RollbackUndo, 4) = Step("chown", "skip")
  /\ End(RollbackUndo, 3) = Step("daemon-reload", "skip")
  /\ End(RollbackUndo, 2) = Step("enable", "skip")
  /\ End(RollbackUndo, 1) = Step("restart", "ignore")
<1> DEFINE first == Steps(<<"unstage-server", "unstage-ctl">>, "abort")
<1>1. /\ first \in Seq(Call) /\ Len(first) = 2
      /\ End(first, 2) = Step("unstage-server", "abort")
      /\ End(first, 1) = Step("unstage-ctl", "abort")
  <2> DEFINE names == <<"unstage-server", "unstage-ctl">>
  <2>1. /\ names \in Seq(Names) /\ Len(names) = 2 /\ names[1] = "unstage-server"
        /\ names[2] = "unstage-ctl"
    BY DEF Names
  <2>2. first = Steps(names, "abort")
    BY DEF first
  <2> HIDE DEF names
  <2>3. /\ End(names, 2) = "unstage-server" /\ End(names, 1) = "unstage-ctl"
    BY <2>1 DEF End
  <2>4. Made(names, "abort")
    BY <2>1, EndSteps
  <2> QED
    BY <2>1, <2>2, <2>3, <2>4 DEF Made
<1>2. /\ Revive \in Seq(Call) /\ Len(Revive) = 9 /\ End(Revive, 9) = Step("account", "skip")
      /\ End(Revive, 8) = Step("directories", "skip")
      /\ End(Revive, 7) = Step("check-config", "skip")
      /\ End(Revive, 6) = Step("verify-installed", "skip")
      /\ End(Revive, 5) = Step("write-unit", "skip")
      /\ End(Revive, 4) = Step("chown", "skip")
      /\ End(Revive, 3) = Step("daemon-reload", "skip")
      /\ End(Revive, 2) = Step("enable", "skip")
      /\ End(Revive, 1) = Step("restart", "ignore")
  BY ReviveCalls
<1>3. RollbackUndo = first \o Revive
  BY DEF RollbackUndo
<1> HIDE DEF first
<1>4. Joined(Call, first, Revive)
  BY <1>1, <1>2, EndJoin
<1> QED
  BY <1>1, <1>2, <1>3, <1>4 DEF Joined

LEMMA EditCalls ==
  /\ EditScript \in Seq(Call) /\ Len(EditScript) = 7
  /\ End(EditScript, 7) = Step("check-config", "abort")
  /\ End(EditScript, 6) = Step("editor", "abort")
  /\ End(EditScript, 5) = Step("check-edited", "abort")
  /\ End(EditScript, 4) = Step("backup-config", "abort")
  /\ End(EditScript, 3) = Step("install-config", "abort")
  /\ End(EditScript, 2) = Step("chown", "abort")
  /\ End(EditScript, 1) = Step("restart", "undo")
<1> DEFINE first == Steps(<<"check-config", "editor", "check-edited", "backup-config",
                           "install-config", "chown">>, "abort")
<1> DEFINE last == Steps(<<"restart">>, "undo")
<1>1. /\ first \in Seq(Call) /\ Len(first) = 6
      /\ End(first, 6) = Step("check-config", "abort")
      /\ End(first, 5) = Step("editor", "abort")
      /\ End(first, 4) = Step("check-edited", "abort")
      /\ End(first, 3) = Step("backup-config", "abort")
      /\ End(first, 2) = Step("install-config", "abort")
      /\ End(first, 1) = Step("chown", "abort")
  <2> DEFINE names == <<"check-config", "editor", "check-edited", "backup-config",
                      "install-config", "chown">>
  <2>1. /\ names \in Seq(Names) /\ Len(names) = 6 /\ names[1] = "check-config"
        /\ names[2] = "editor" /\ names[3] = "check-edited" /\ names[4] = "backup-config"
        /\ names[5] = "install-config" /\ names[6] = "chown"
    BY DEF Names
  <2>2. first = Steps(names, "abort")
    BY DEF first
  <2> HIDE DEF names
  <2>3. /\ End(names, 6) = "check-config" /\ End(names, 5) = "editor"
        /\ End(names, 4) = "check-edited" /\ End(names, 3) = "backup-config"
        /\ End(names, 2) = "install-config" /\ End(names, 1) = "chown"
    BY <2>1 DEF End
  <2>4. Made(names, "abort")
    BY <2>1, EndSteps
  <2> QED
    BY <2>1, <2>2, <2>3, <2>4 DEF Made
<1>2. /\ last \in Seq(Call) /\ Len(last) = 1 /\ End(last, 1) = Step("restart", "undo")
  <2> DEFINE names == <<"restart">>
  <2>1. /\ names \in Seq(Names) /\ Len(names) = 1 /\ names[1] = "restart"
    BY DEF Names
  <2>2. last = Steps(names, "undo")
    BY DEF last
  <2> HIDE DEF names
  <2>3. /\ End(names, 1) = "restart"
    BY <2>1 DEF End
  <2>4. Made(names, "undo")
    BY <2>1, EndSteps
  <2> QED
    BY <2>1, <2>2, <2>3, <2>4 DEF Made
<1>3. EditScript = first \o last
  BY DEF EditScript
<1> HIDE DEF first, last
<1>4. Joined(Call, first, last)
  BY <1>1, <1>2, EndJoin
<1> QED
  BY <1>1, <1>2, <1>3, <1>4 DEF Joined

LEMMA EditUndoCalls ==
  /\ EditUndo \in Seq(Call) /\ Len(EditUndo) = 3
  /\ End(EditUndo, 3) = Step("restore-config", "abort")
  /\ End(EditUndo, 2) = Step("chown", "abort")
  /\ End(EditUndo, 1) = Step("restart", "ignore")
<1> DEFINE first == Steps(<<"restore-config", "chown">>, "abort")
<1> DEFINE last == Steps(<<"restart">>, "ignore")
<1>1. /\ first \in Seq(Call) /\ Len(first) = 2
      /\ End(first, 2) = Step("restore-config", "abort")
      /\ End(first, 1) = Step("chown", "abort")
  <2> DEFINE names == <<"restore-config", "chown">>
  <2>1. /\ names \in Seq(Names) /\ Len(names) = 2 /\ names[1] = "restore-config"
        /\ names[2] = "chown"
    BY DEF Names
  <2>2. first = Steps(names, "abort")
    BY DEF first
  <2> HIDE DEF names
  <2>3. /\ End(names, 2) = "restore-config" /\ End(names, 1) = "chown"
    BY <2>1 DEF End
  <2>4. Made(names, "abort")
    BY <2>1, EndSteps
  <2> QED
    BY <2>1, <2>2, <2>3, <2>4 DEF Made
<1>2. /\ last \in Seq(Call) /\ Len(last) = 1 /\ End(last, 1) = Step("restart", "ignore")
  <2> DEFINE names == <<"restart">>
  <2>1. /\ names \in Seq(Names) /\ Len(names) = 1 /\ names[1] = "restart"
    BY DEF Names
  <2>2. last = Steps(names, "ignore")
    BY DEF last
  <2> HIDE DEF names
  <2>3. /\ End(names, 1) = "restart"
    BY <2>1 DEF End
  <2>4. Made(names, "ignore")
    BY <2>1, EndSteps
  <2> QED
    BY <2>1, <2>2, <2>3, <2>4 DEF Made
<1>3. EditUndo = first \o last
  BY DEF EditUndo
<1> HIDE DEF first, last
<1>4. Joined(Call, first, last)
  BY <1>1, <1>2, EndJoin
<1> QED
  BY <1>1, <1>2, <1>3, <1>4 DEF Joined

LEMMA InstallUndoCalls ==
  /\ InstallUndo \in Seq(Call) /\ Len(InstallUndo) = 5
  /\ End(InstallUndo, 5) = Step("site-back", "ignore")
  /\ End(InstallUndo, 4) = Step("site-remove", "abort")
  /\ End(InstallUndo, 3) = Step("site-restore", "abort")
  /\ End(InstallUndo, 2) = Step("key-back", "abort")
  /\ End(InstallUndo, 1) = Step("cert-back", "abort")
<1> DEFINE first == Steps(<<"site-back">>, "ignore")
<1> DEFINE last == Steps(<<"site-remove", "site-restore", "key-back", "cert-back">>, "abort")
<1>1. /\ first \in Seq(Call) /\ Len(first) = 1
      /\ End(first, 1) = Step("site-back", "ignore")
  <2> DEFINE names == <<"site-back">>
  <2>1. /\ names \in Seq(Names) /\ Len(names) = 1 /\ names[1] = "site-back"
    BY DEF Names
  <2>2. first = Steps(names, "ignore")
    BY DEF first
  <2> HIDE DEF names
  <2>3. /\ End(names, 1) = "site-back"
    BY <2>1 DEF End
  <2>4. Made(names, "ignore")
    BY <2>1, EndSteps
  <2> QED
    BY <2>1, <2>2, <2>3, <2>4 DEF Made
<1>2. /\ last \in Seq(Call) /\ Len(last) = 4 /\ End(last, 4) = Step("site-remove", "abort")
      /\ End(last, 3) = Step("site-restore", "abort")
      /\ End(last, 2) = Step("key-back", "abort")
      /\ End(last, 1) = Step("cert-back", "abort")
  <2> DEFINE names == <<"site-remove", "site-restore", "key-back", "cert-back">>
  <2>1. /\ names \in Seq(Names) /\ Len(names) = 4 /\ names[1] = "site-remove"
        /\ names[2] = "site-restore" /\ names[3] = "key-back" /\ names[4] = "cert-back"
    BY DEF Names
  <2>2. last = Steps(names, "abort")
    BY DEF last
  <2> HIDE DEF names
  <2>3. /\ End(names, 4) = "site-remove" /\ End(names, 3) = "site-restore"
        /\ End(names, 2) = "key-back" /\ End(names, 1) = "cert-back"
    BY <2>1 DEF End
  <2>4. Made(names, "abort")
    BY <2>1, EndSteps
  <2> QED
    BY <2>1, <2>2, <2>3, <2>4 DEF Made
<1>3. InstallUndo = first \o last
  BY DEF InstallUndo
<1> HIDE DEF first, last
<1>4. Joined(Call, first, last)
  BY <1>1, <1>2, EndJoin
<1> QED
  BY <1>1, <1>2, <1>3, <1>4 DEF Joined

RepairBoth == RepairSteps \o <<"restart">>

LEMMA RepairBothNames ==
  /\ RepairBoth \in Seq(Names) /\ Len(RepairBoth) = 9 /\ End(RepairBoth, 9) = "account"
  /\ End(RepairBoth, 8) = "directories" /\ End(RepairBoth, 7) = "check-config"
  /\ End(RepairBoth, 6) = "verify-installed" /\ End(RepairBoth, 5) = "write-unit"
  /\ End(RepairBoth, 4) = "chown" /\ End(RepairBoth, 3) = "daemon-reload"
  /\ End(RepairBoth, 2) = "enable" /\ End(RepairBoth, 1) = "restart"
<1> DEFINE first == RepairSteps
<1> DEFINE second == <<"restart">>
<1>1. /\ first \in Seq(Names) /\ Len(first) = 8 /\ End(first, 8) = "account"
      /\ End(first, 7) = "directories" /\ End(first, 6) = "check-config"
      /\ End(first, 5) = "verify-installed" /\ End(first, 4) = "write-unit"
      /\ End(first, 3) = "chown" /\ End(first, 2) = "daemon-reload"
      /\ End(first, 1) = "enable"
  BY RepairNames
<1>2. /\ second \in Seq(Names) /\ Len(second) = 1 /\ End(second, 1) = "restart"
  BY DEF Names, End
<1>3. RepairBoth = first \o second
  BY DEF RepairBoth
<1> HIDE DEF first, second
<1>4. Joined(Names, first, second)
  BY <1>1, <1>2, EndJoin
<1> QED
  BY <1>1, <1>2, <1>3, <1>4 DEF Joined

LEMMA RepairCalls ==
  /\ RepairScript \in Seq(Call) /\ Len(RepairScript) = 9
  /\ End(RepairScript, 9) = Step("account", "abort")
  /\ End(RepairScript, 8) = Step("directories", "abort")
  /\ End(RepairScript, 7) = Step("check-config", "abort")
  /\ End(RepairScript, 6) = Step("verify-installed", "abort")
  /\ End(RepairScript, 5) = Step("write-unit", "abort")
  /\ End(RepairScript, 4) = Step("chown", "abort")
  /\ End(RepairScript, 3) = Step("daemon-reload", "abort")
  /\ End(RepairScript, 2) = Step("enable", "abort")
  /\ End(RepairScript, 1) = Step("restart", "abort")
<1>1. /\ RepairBoth \in Seq(Names) /\ Len(RepairBoth) = 9
      /\ End(RepairBoth, 9) = "account" /\ End(RepairBoth, 8) = "directories"
      /\ End(RepairBoth, 7) = "check-config" /\ End(RepairBoth, 6) = "verify-installed"
      /\ End(RepairBoth, 5) = "write-unit" /\ End(RepairBoth, 4) = "chown"
      /\ End(RepairBoth, 3) = "daemon-reload" /\ End(RepairBoth, 2) = "enable"
      /\ End(RepairBoth, 1) = "restart"
  BY RepairBothNames
<1>2. Made(RepairBoth, "abort")
  BY <1>1, EndSteps
<1>3. RepairScript = Steps(RepairBoth, "abort")
  BY DEF RepairScript, RepairBoth
<1> QED
  BY <1>1, <1>2, <1>3 DEF Made
-------------------------------------------------------------------------------
(* The script of install, by the parts it has.                               *)

InstallFront == Steps(<<"verify-new", "account", "directories", "select-config">>, "abort")
InstallTls ==
  Steps(<<"snapshot-cert">>, "abort") \o Steps(<<"copy-cert", "snapshot-key", "copy-key">>, "undo")
InstallSite == Steps(<<"stage-site", "site-out", "site-in">>, "undo")
InstallCheck == Steps(<<"check-candidate">>, "undo")
InstallNames == <<"backup-old-config", "install-config", "copy-server", "copy-ctl",
                  "write-unit", "chown", "check-config", "daemon-reload">>
StartNames == <<"enable", "restart", "is-active">>
InstallLast(start) == Steps(InstallNames \o (IF start THEN StartNames ELSE <<>>), "abort")

LEMMA FrontCalls ==
  /\ InstallFront \in Seq(Call) /\ Len(InstallFront) = 4
  /\ End(InstallFront, 4) = Step("verify-new", "abort")
  /\ End(InstallFront, 3) = Step("account", "abort")
  /\ End(InstallFront, 2) = Step("directories", "abort")
  /\ End(InstallFront, 1) = Step("select-config", "abort")
<1> DEFINE names == <<"verify-new", "account", "directories", "select-config">>
<1>1. /\ names \in Seq(Names) /\ Len(names) = 4 /\ names[1] = "verify-new"
      /\ names[2] = "account" /\ names[3] = "directories" /\ names[4] = "select-config"
  BY DEF Names
<1>2. InstallFront = Steps(names, "abort")
  BY DEF InstallFront
<1> HIDE DEF names
<1>3. /\ End(names, 4) = "verify-new" /\ End(names, 3) = "account"
      /\ End(names, 2) = "directories" /\ End(names, 1) = "select-config"
  BY <1>1 DEF End
<1>4. Made(names, "abort")
  BY <1>1, EndSteps
<1> QED
  BY <1>1, <1>2, <1>3, <1>4 DEF Made

LEMMA TlsCalls ==
  /\ InstallTls \in Seq(Call) /\ Len(InstallTls) = 4
  /\ End(InstallTls, 4) = Step("snapshot-cert", "abort")
  /\ End(InstallTls, 3) = Step("copy-cert", "undo")
  /\ End(InstallTls, 2) = Step("snapshot-key", "undo")
  /\ End(InstallTls, 1) = Step("copy-key", "undo")
<1> DEFINE first == Steps(<<"snapshot-cert">>, "abort")
<1> DEFINE last == Steps(<<"copy-cert", "snapshot-key", "copy-key">>, "undo")
<1>1. /\ first \in Seq(Call) /\ Len(first) = 1
      /\ End(first, 1) = Step("snapshot-cert", "abort")
  <2> DEFINE names == <<"snapshot-cert">>
  <2>1. /\ names \in Seq(Names) /\ Len(names) = 1 /\ names[1] = "snapshot-cert"
    BY DEF Names
  <2>2. first = Steps(names, "abort")
    BY DEF first
  <2> HIDE DEF names
  <2>3. /\ End(names, 1) = "snapshot-cert"
    BY <2>1 DEF End
  <2>4. Made(names, "abort")
    BY <2>1, EndSteps
  <2> QED
    BY <2>1, <2>2, <2>3, <2>4 DEF Made
<1>2. /\ last \in Seq(Call) /\ Len(last) = 3 /\ End(last, 3) = Step("copy-cert", "undo")
      /\ End(last, 2) = Step("snapshot-key", "undo")
      /\ End(last, 1) = Step("copy-key", "undo")
  <2> DEFINE names == <<"copy-cert", "snapshot-key", "copy-key">>
  <2>1. /\ names \in Seq(Names) /\ Len(names) = 3 /\ names[1] = "copy-cert"
        /\ names[2] = "snapshot-key" /\ names[3] = "copy-key"
    BY DEF Names
  <2>2. last = Steps(names, "undo")
    BY DEF last
  <2> HIDE DEF names
  <2>3. /\ End(names, 3) = "copy-cert" /\ End(names, 2) = "snapshot-key"
        /\ End(names, 1) = "copy-key"
    BY <2>1 DEF End
  <2>4. Made(names, "undo")
    BY <2>1, EndSteps
  <2> QED
    BY <2>1, <2>2, <2>3, <2>4 DEF Made
<1>3. InstallTls = first \o last
  BY DEF InstallTls
<1> HIDE DEF first, last
<1>4. Joined(Call, first, last)
  BY <1>1, <1>2, EndJoin
<1> QED
  BY <1>1, <1>2, <1>3, <1>4 DEF Joined

LEMMA SiteCalls ==
  /\ InstallSite \in Seq(Call) /\ Len(InstallSite) = 3
  /\ End(InstallSite, 3) = Step("stage-site", "undo")
  /\ End(InstallSite, 2) = Step("site-out", "undo")
  /\ End(InstallSite, 1) = Step("site-in", "undo")
<1> DEFINE names == <<"stage-site", "site-out", "site-in">>
<1>1. /\ names \in Seq(Names) /\ Len(names) = 3 /\ names[1] = "stage-site"
      /\ names[2] = "site-out" /\ names[3] = "site-in"
  BY DEF Names
<1>2. InstallSite = Steps(names, "undo")
  BY DEF InstallSite
<1> HIDE DEF names
<1>3. /\ End(names, 3) = "stage-site" /\ End(names, 2) = "site-out"
      /\ End(names, 1) = "site-in"
  BY <1>1 DEF End
<1>4. Made(names, "undo")
  BY <1>1, EndSteps
<1> QED
  BY <1>1, <1>2, <1>3, <1>4 DEF Made

LEMMA CheckCalls ==
  /\ InstallCheck \in Seq(Call) /\ Len(InstallCheck) = 1
  /\ End(InstallCheck, 1) = Step("check-candidate", "undo")
<1> DEFINE names == <<"check-candidate">>
<1>1. /\ names \in Seq(Names) /\ Len(names) = 1 /\ names[1] = "check-candidate"
  BY DEF Names
<1>2. InstallCheck = Steps(names, "undo")
  BY DEF InstallCheck
<1> HIDE DEF names
<1>3. /\ End(names, 1) = "check-candidate"
  BY <1>1 DEF End
<1>4. Made(names, "undo")
  BY <1>1, EndSteps
<1> QED
  BY <1>1, <1>2, <1>3, <1>4 DEF Made

LEMMA LastNames ==
  /\ InstallNames \in Seq(Names) /\ Len(InstallNames) = 8
  /\ End(InstallNames, 8) = "backup-old-config" /\ End(InstallNames, 7) = "install-config"
  /\ End(InstallNames, 6) = "copy-server" /\ End(InstallNames, 5) = "copy-ctl"
  /\ End(InstallNames, 4) = "write-unit" /\ End(InstallNames, 3) = "chown"
  /\ End(InstallNames, 2) = "check-config" /\ End(InstallNames, 1) = "daemon-reload"
<1>1. InstallNames \in Seq(Names) /\ Len(InstallNames) = 8
  BY DEF InstallNames, Names
<1>2. /\ InstallNames[1] = "backup-old-config" /\ InstallNames[2] = "install-config"
      /\ InstallNames[3] = "copy-server" /\ InstallNames[4] = "copy-ctl"
      /\ InstallNames[5] = "write-unit" /\ InstallNames[6] = "chown"
      /\ InstallNames[7] = "check-config" /\ InstallNames[8] = "daemon-reload"
  BY DEF InstallNames
<1> QED
  BY <1>1, <1>2 DEF End

LEMMA StartSeq ==
  /\ StartNames \in Seq(Names) /\ Len(StartNames) = 3 /\ End(StartNames, 3) = "enable"
  /\ End(StartNames, 2) = "restart" /\ End(StartNames, 1) = "is-active"
  BY DEF StartNames, Names, End

LEMMA LastCalls ==
  ASSUME NEW start \in BOOLEAN, NEW a, a = IF start THEN 12 ELSE 9
  PROVE  /\ InstallLast(start) \in Seq(Call) /\ Len(InstallLast(start)) = a - 1
         /\ End(InstallLast(start), a - 1) = Step("backup-old-config", "abort")
         /\ End(InstallLast(start), a - 2) = Step("install-config", "abort")
         /\ End(InstallLast(start), a - 3) = Step("copy-server", "abort")
         /\ End(InstallLast(start), a - 4) = Step("copy-ctl", "abort")
         /\ End(InstallLast(start), a - 5) = Step("write-unit", "abort")
         /\ End(InstallLast(start), a - 6) = Step("chown", "abort")
         /\ End(InstallLast(start), a - 7) = Step("check-config", "abort")
         /\ End(InstallLast(start), a - 8) = Step("daemon-reload", "abort")
         /\ start => /\ End(InstallLast(start), 3) = Step("enable", "abort")
                     /\ End(InstallLast(start), 2) = Step("restart", "abort")
                     /\ End(InstallLast(start), 1) = Step("is-active", "abort")
<1>1. CASE start
  <2> DEFINE names == InstallNames \o StartNames
  <2>1. Joined(Names, InstallNames, StartNames)
    BY LastNames, StartSeq, EndJoin
  <2>2. /\ names \in Seq(Names) /\ Len(names) = 11 /\ End(names, 11) = "backup-old-config"
        /\ End(names, 10) = "install-config" /\ End(names, 9) = "copy-server"
        /\ End(names, 8) = "copy-ctl" /\ End(names, 7) = "write-unit"
        /\ End(names, 6) = "chown" /\ End(names, 5) = "check-config"
        /\ End(names, 4) = "daemon-reload" /\ End(names, 3) = "enable"
        /\ End(names, 2) = "restart" /\ End(names, 1) = "is-active"
    BY <2>1, LastNames, StartSeq DEF Joined
  <2>3. InstallLast(start) = Steps(names, "abort")
    BY <1>1 DEF InstallLast
  <2> HIDE DEF names
  <2>4. Made(names, "abort")
    BY <2>2, EndSteps
  <2>5. /\ InstallLast(start) \in Seq(Call) /\ Len(InstallLast(start)) = 11
        /\ End(InstallLast(start), 11) = Step("backup-old-config", "abort")
        /\ End(InstallLast(start), 10) = Step("install-config", "abort")
        /\ End(InstallLast(start), 9) = Step("copy-server", "abort")
        /\ End(InstallLast(start), 8) = Step("copy-ctl", "abort")
        /\ End(InstallLast(start), 7) = Step("write-unit", "abort")
        /\ End(InstallLast(start), 6) = Step("chown", "abort")
        /\ End(InstallLast(start), 5) = Step("check-config", "abort")
        /\ End(InstallLast(start), 4) = Step("daemon-reload", "abort")
        /\ End(InstallLast(start), 3) = Step("enable", "abort")
        /\ End(InstallLast(start), 2) = Step("restart", "abort")
        /\ End(InstallLast(start), 1) = Step("is-active", "abort")
    BY <2>2, <2>3, <2>4 DEF Made
  <2>6. a = 12 /\ a - 1 = 11 /\ a - 2 = 10 /\ a - 3 = 9 /\ a - 4 = 8 /\ a - 5 = 7 /\ a - 6 = 6 /\ a - 7 = 5 /\ a - 8 = 4
    BY <1>1
  <2> QED
    BY <1>1, <2>5, <2>6
<1>2. CASE ~start
  <2>1. InstallNames \o <<>> = InstallNames
    BY LastNames
  <2>2. InstallLast(start) = Steps(InstallNames, "abort")
    BY <1>2, <2>1 DEF InstallLast
  <2>3. Made(InstallNames, "abort")
    BY LastNames, EndSteps
  <2>4. /\ InstallLast(start) \in Seq(Call) /\ Len(InstallLast(start)) = 8
        /\ End(InstallLast(start), 8) = Step("backup-old-config", "abort")
        /\ End(InstallLast(start), 7) = Step("install-config", "abort")
        /\ End(InstallLast(start), 6) = Step("copy-server", "abort")
        /\ End(InstallLast(start), 5) = Step("copy-ctl", "abort")
        /\ End(InstallLast(start), 4) = Step("write-unit", "abort")
        /\ End(InstallLast(start), 3) = Step("chown", "abort")
        /\ End(InstallLast(start), 2) = Step("check-config", "abort")
        /\ End(InstallLast(start), 1) = Step("daemon-reload", "abort")
    BY <2>2, <2>3, LastNames DEF Made
  <2>5. a = 9 /\ a - 1 = 8 /\ a - 2 = 7 /\ a - 3 = 6 /\ a - 4 = 5 /\ a - 5 = 4 /\ a - 6 = 3 /\ a - 7 = 2 /\ a - 8 = 1
    BY <1>2
  <2> QED
    BY <1>2, <2>4, <2>5
<1> QED
  BY <1>1, <1>2

LEMMA NoCalls == <<>> \in Seq(Call) /\ Len(<<>>) = 0
  OBVIOUS

LEMMA ResourceCalls ==
  ASSUME NEW tls \in BOOLEAN, NEW dist \in BOOLEAN, NEW r, r = (IF dist THEN 3 ELSE 0)
  PROVE  /\ Resources(tls, dist) \in Seq(Call)
         /\ Len(Resources(tls, dist)) = (IF tls THEN 4 ELSE 0) + r
         /\ tls => /\ End(Resources(tls, dist), r + 4) = Step("snapshot-cert", "abort")
                   /\ End(Resources(tls, dist), r + 3) = Step("copy-cert", "undo")
                   /\ End(Resources(tls, dist), r + 2) = Step("snapshot-key", "undo")
                   /\ End(Resources(tls, dist), r + 1) = Step("copy-key", "undo")
         /\ dist => /\ End(Resources(tls, dist), 3) = Step("stage-site", "undo")
                    /\ End(Resources(tls, dist), 2) = Step("site-out", "undo")
                    /\ End(Resources(tls, dist), 1) = Step("site-in", "undo")
<1> DEFINE first == IF tls THEN InstallTls ELSE <<>>
<1> DEFINE last == IF dist THEN InstallSite ELSE <<>>
<1>1. /\ first \in Seq(Call) /\ Len(first) = (IF tls THEN 4 ELSE 0)
      /\ tls => first = InstallTls
  <2>1. CASE tls
    BY <2>1, TlsCalls
  <2>2. CASE ~tls
    BY <2>2, NoCalls
  <2> QED
    BY <2>1, <2>2
<1>2. last \in Seq(Call) /\ Len(last) = r /\ (dist => last = InstallSite)
  <2>1. CASE dist
    BY <2>1, SiteCalls
  <2>2. CASE ~dist
    BY <2>2, NoCalls
  <2> QED
    BY <2>1, <2>2
<1>3. Resources(tls, dist) = first \o last
  BY DEF Resources, InstallTls, InstallSite
<1> HIDE DEF first, last
<1>4. Joined(Call, first, last)
  BY <1>1, <1>2, EndJoin
<1>5. r \in {0, 3} /\ (dist => r = 3)
  OBVIOUS
<1>6. /\ Resources(tls, dist) \in Seq(Call)
      /\ Len(Resources(tls, dist)) = (IF tls THEN 4 ELSE 0) + r
  BY <1>1, <1>2, <1>3, <1>4 DEF Joined
<1>7. ASSUME dist PROVE \A n \in 1 .. 3 : End(Resources(tls, dist), n) = End(InstallSite, n)
  BY <1>2, <1>3, <1>4, <1>5, <1>7 DEF Joined
<1>8. ASSUME tls PROVE \A m \in 1 .. 4, n \in Nat : n = r + m => End(Resources(tls, dist), n) = End(InstallTls, m)
  BY <1>1, <1>2, <1>3, <1>4, <1>5, <1>8, TlsCalls DEF Joined
<1> QED
  BY <1>5, <1>6, <1>7, <1>8, TlsCalls, SiteCalls

InstallTable(s, tls, dist, start, a, r, t) ==
  /\ s \in Seq(Call) /\ Len(s) = a + r + t + 4
  /\ End(s, a + r + t + 4) = Step("verify-new", "abort")
  /\ End(s, a + r + t + 3) = Step("account", "abort")
  /\ End(s, a + r + t + 2) = Step("directories", "abort")
  /\ End(s, a + r + t + 1) = Step("select-config", "abort")
  /\ tls => /\ End(s, a + r + 4) = Step("snapshot-cert", "abort")
            /\ End(s, a + r + 3) = Step("copy-cert", "undo")
            /\ End(s, a + r + 2) = Step("snapshot-key", "undo")
            /\ End(s, a + r + 1) = Step("copy-key", "undo")
  /\ dist => /\ End(s, a + 3) = Step("stage-site", "undo")
             /\ End(s, a + 2) = Step("site-out", "undo")
             /\ End(s, a + 1) = Step("site-in", "undo")
  /\ End(s, a) = Step("check-candidate", "undo")
  /\ End(s, a - 1) = Step("backup-old-config", "abort")
  /\ End(s, a - 2) = Step("install-config", "abort")
  /\ End(s, a - 3) = Step("copy-server", "abort")
  /\ End(s, a - 4) = Step("copy-ctl", "abort")
  /\ End(s, a - 5) = Step("write-unit", "abort") /\ End(s, a - 6) = Step("chown", "abort")
  /\ End(s, a - 7) = Step("check-config", "abort")
  /\ End(s, a - 8) = Step("daemon-reload", "abort")
  /\ start => /\ End(s, 3) = Step("enable", "abort") /\ End(s, 2) = Step("restart", "abort")
              /\ End(s, 1) = Step("is-active", "abort")

LEMMA InstallCalls ==
  ASSUME NEW tls \in BOOLEAN, NEW dist \in BOOLEAN, NEW start \in BOOLEAN,
         NEW a, a = (IF start THEN 12 ELSE 9), NEW r, r = (IF dist THEN 3 ELSE 0),
         NEW t, t = (IF tls THEN 4 ELSE 0), NEW s, s = InstallScript(tls, dist, start)
  PROVE  InstallTable(s, tls, dist, start, a, r, t)
<1> DEFINE res == Resources(tls, dist)
<1> DEFINE last == InstallLast(start)
<1>1. s = InstallFront \o res \o InstallCheck \o last
  BY DEF InstallScript, InstallFront, InstallCheck, InstallLast, InstallNames, StartNames
<1>2. /\ res \in Seq(Call) /\ Len(res) = t + r
      /\ tls => /\ End(res, r + 4) = Step("snapshot-cert", "abort") /\ End(res, r + 3) = Step("copy-cert", "undo")
                /\ End(res, r + 2) = Step("snapshot-key", "undo") /\ End(res, r + 1) = Step("copy-key", "undo")
      /\ dist => /\ End(res, 3) = Step("stage-site", "undo") /\ End(res, 2) = Step("site-out", "undo")
                 /\ End(res, 1) = Step("site-in", "undo")
  BY ResourceCalls
<1>3. /\ last \in Seq(Call) /\ Len(last) = a - 1
      /\ End(last, a - 1) = Step("backup-old-config", "abort")
      /\ End(last, a - 2) = Step("install-config", "abort")
      /\ End(last, a - 3) = Step("copy-server", "abort")
      /\ End(last, a - 4) = Step("copy-ctl", "abort")
      /\ End(last, a - 5) = Step("write-unit", "abort")
      /\ End(last, a - 6) = Step("chown", "abort")
      /\ End(last, a - 7) = Step("check-config", "abort")
      /\ End(last, a - 8) = Step("daemon-reload", "abort")
      /\ start => /\ End(last, 3) = Step("enable", "abort")
                  /\ End(last, 2) = Step("restart", "abort")
                  /\ End(last, 1) = Step("is-active", "abort")
  BY LastCalls
<1>4. a \in {9, 12} /\ (start => a = 12) /\ r \in {0, 3} /\ (dist => r = 3) /\ t \in {0, 4} /\ (tls => t = 4)
  OBVIOUS
<1> HIDE DEF res, last
<1> DEFINE one == InstallFront \o res
<1> DEFINE two == one \o InstallCheck
<1>5. Joined(Call, InstallFront, res)
  BY <1>2, FrontCalls, EndJoin
<1>6. one \in Seq(Call) /\ Len(one) = r + t + 4
  BY <1>2, <1>4, <1>5, FrontCalls DEF Joined
<1>7. /\ \A n \in 1 .. r + t : End(one, n) = End(res, n)
      /\ \A m \in 1 .. 4, n \in Nat : n = r + t + m => End(one, n) = End(InstallFront, m)
  BY <1>2, <1>4, <1>5, FrontCalls DEF Joined
<1> HIDE DEF one
<1>8. Joined(Call, one, InstallCheck)
  BY <1>6, CheckCalls, EndJoin
<1>9. two \in Seq(Call) /\ Len(two) = r + t + 5
  BY <1>4, <1>6, <1>8, CheckCalls DEF Joined
<1>10. /\ End(two, 1) = End(InstallCheck, 1)
       /\ \A m \in 1 .. r + t + 4, n \in Nat : n = 1 + m => End(two, n) = End(one, m)
  BY <1>4, <1>6, <1>8, CheckCalls DEF Joined
<1> HIDE DEF two
<1>11. Joined(Call, two, last)
  BY <1>3, <1>9, EndJoin
<1>12. s = two \o last
  BY <1>1 DEF two, one
<1>13. s \in Seq(Call) /\ Len(s) = a + r + t + 4
  BY <1>3, <1>4, <1>9, <1>11, <1>12 DEF Joined
<1>14. \A n \in 1 .. a - 1 : End(s, n) = End(last, n)
  BY <1>3, <1>11, <1>12 DEF Joined
<1>15. \A m \in 1 .. r + t + 5, n \in Nat : n = a - 1 + m => End(s, n) = End(two, m)
  <2>1. \A m \in 1 .. Len(two), n \in Nat : n = Len(last) + m => End(s, n) = End(two, m)
    BY <1>11, <1>12 DEF Joined
  <2>2. Len(last) = a - 1 /\ Len(two) = r + t + 5
    BY <1>3, <1>9
  <2> QED
    BY <2>1, <2>2
<1>16. End(s, a) = Step("check-candidate", "undo")
  BY <1>4, <1>10, <1>15, CheckCalls
<1>17. \A m \in 1 .. r + t + 4 : End(s, a + m) = End(one, m)
  <2> TAKE m \in 1 .. r + t + 4
  <2>1. m + 1 \in 1 .. r + t + 5 /\ m + 1 \in Nat /\ a + m \in Nat /\ a + m = a - 1 + (m + 1)
    BY <1>4
  <2>2. End(s, a + m) = End(two, m + 1)
    BY <1>15, <2>1
  <2>3. End(two, m + 1) = End(one, m)
    BY <1>10, <2>1
  <2> QED
    BY <2>2, <2>3
<1>18. \A m \in 1 .. r + t : End(s, a + m) = End(res, m)
  BY <1>4, <1>7, <1>17
<1>19. \A m \in 1 .. 4 : End(s, a + r + t + m) = End(InstallFront, m)
  <2> TAKE m \in 1 .. 4
  <2>1. r + t + m \in 1 .. r + t + 4 /\ r + t + m \in Nat /\ a + r + t + m = a + (r + t + m)
    BY <1>4
  <2>2. End(s, a + (r + t + m)) = End(one, r + t + m)
    BY <1>17, <2>1
  <2>3. End(one, r + t + m) = End(InstallFront, m)
    BY <1>7, <2>1
  <2> QED
    BY <2>1, <2>2, <2>3
<1>20. ASSUME tls
       PROVE  /\ End(s, a + r + 4) = Step("snapshot-cert", "abort")
              /\ End(s, a + r + 3) = Step("copy-cert", "undo")
              /\ End(s, a + r + 2) = Step("snapshot-key", "undo")
              /\ End(s, a + r + 1) = Step("copy-key", "undo")
  <2>1. ASSUME NEW m \in 1 .. 4 PROVE End(s, a + r + m) = End(res, r + m)
    <3>1. r + m \in 1 .. r + t /\ a + r + m = a + (r + m)
      BY <1>4, <1>20
    <3> QED
      BY <1>18, <3>1
  <2>2. /\ End(s, a + r + 4) = End(res, r + 4) /\ End(s, a + r + 3) = End(res, r + 3)
        /\ End(s, a + r + 2) = End(res, r + 2) /\ End(s, a + r + 1) = End(res, r + 1)
    BY <2>1
  <2> QED
    BY <1>2, <1>20, <2>2
<1>21. ASSUME dist
       PROVE  /\ End(s, a + 3) = Step("stage-site", "undo")
              /\ End(s, a + 2) = Step("site-out", "undo")
              /\ End(s, a + 1) = Step("site-in", "undo")
  <2>1. r = 3
    BY <1>4, <1>21
  <2>2. /\ End(s, a + 3) = End(res, 3) /\ End(s, a + 2) = End(res, 2) /\ End(s, a + 1) = End(res, 1)
    BY <1>4, <1>18, <2>1
  <2> QED
    BY <1>2, <1>21, <2>2
<1>22. /\ End(s, a - 1) = Step("backup-old-config", "abort")
       /\ End(s, a - 2) = Step("install-config", "abort")
       /\ End(s, a - 3) = Step("copy-server", "abort")
       /\ End(s, a - 4) = Step("copy-ctl", "abort")
       /\ End(s, a - 5) = Step("write-unit", "abort")
       /\ End(s, a - 6) = Step("chown", "abort")
       /\ End(s, a - 7) = Step("check-config", "abort")
       /\ End(s, a - 8) = Step("daemon-reload", "abort")
  BY <1>3, <1>4, <1>14
<1>23. ASSUME start
       PROVE  /\ End(s, 3) = Step("enable", "abort") /\ End(s, 2) = Step("restart", "abort")
              /\ End(s, 1) = Step("is-active", "abort")
  <2>1. End(s, 3) = End(last, 3) /\ End(s, 2) = End(last, 2) /\ End(s, 1) = End(last, 1)
    BY <1>4, <1>14
  <2> QED
    BY <1>3, <1>23, <2>1
<1> QED
  BY <1>13, <1>16, <1>19, <1>20, <1>21, <1>22, <1>23, FrontCalls DEF InstallTable
-------------------------------------------------------------------------------
(* What a call does: the one that is due, and what follows if it fails.      *)

Due == Head(job.todo).do
On == Head(job.todo).on

\* No call touches what is not its own, whether it succeeds or not, and one that
\* replaces the configuration can put only one in its place.
Kept ==
  /\ Due \notin {"copy-server", "restore-server", "unstage-server", "remove-server"} =>
       disk'.server = disk.server
  /\ Due \notin {"copy-ctl", "restore-ctl", "unstage-ctl", "remove-ctl"} =>
       disk'.ctl = disk.ctl
  /\ Due \notin {"write-unit", "remove-unit"} =>
       disk'.unit = disk.unit
  /\ Due \notin {"install-config", "restore-config", "purge-config"} =>
       disk'.config = disk.config
  /\ Due \notin {"backup-config", "backup-old-config", "purge-config"} =>
       disk'.backups = disk.backups
  /\ Due \notin {"copy-cert", "cert-back", "purge-config"} =>
       disk'.cert = disk.cert
  /\ Due \notin {"copy-key", "key-back", "purge-config"} =>
       disk'.key = disk.key
  /\ Due \notin {"directories", "site-out", "site-in", "site-back", "site-remove", "site-restore", "purge-state"} =>
       disk'.site = disk.site
  /\ Due \notin {"drop-rollback", "name-rollback", "purge-manager"} =>
       disk'.rollback = disk.rollback
  /\ Due \notin {"stage-server", "stage-ctl", "name-rollback", "purge-manager"} =>
       disk'.stage = disk.stage
  /\ Due \notin {"enable", "disable", "disable-now"} =>
       disk'.enabled = disk.enabled
  /\ Due \notin {"restart", "is-active", "stop", "disable-now"} =>
       disk'.active = disk.active
  /\ Due = "install-config" => disk'.config \in {disk.config, job.args.cfg}
  /\ Due = "restore-config" => disk'.config \in {disk.config, before.config}
  /\ Due = "purge-config" => disk'.config \in {disk.config, None}

\* What a call that succeeds leaves.
Effect ==
  /\ Due = "copy-server" => disk'.server = job.args.new.server
  /\ Due = "restore-server" => disk'.server = disk.rollback.server
  /\ Due = "unstage-server" => disk'.server = disk.stage.server
  /\ Due = "copy-ctl" => disk'.ctl = job.args.new.ctl
  /\ Due = "restore-ctl" => disk'.ctl = disk.rollback.ctl
  /\ Due = "unstage-ctl" => disk'.ctl = disk.stage.ctl
  /\ Due = "write-unit" => disk'.unit = disk.ctl
  /\ Due = "install-config" => disk'.config = job.args.cfg
  /\ Due = "restore-config" => disk'.config = before.config
  /\ Due \in {"backup-config", "backup-old-config"} /\ disk.config # None => disk.config \in disk'.backups
  /\ Due = "cert-back" => disk'.cert = IF job.snap.cert # <<>> THEN job.snap.cert[1] ELSE disk.cert
  /\ Due = "key-back" => disk'.key = IF job.snap.key # <<>> THEN job.snap.key[1] ELSE disk.key
  /\ Due = "site-back" =>
       disk'.site = IF job.snap.site # <<>> /\ ~job.snap.siteIn THEN job.snap.site[1] ELSE disk.site
  /\ Due = "site-remove" => disk'.site = IF job.snap.siteIn THEN None ELSE disk.site
  /\ Due = "site-restore" => disk'.site = IF job.snap.siteIn THEN job.snap.site[1] ELSE disk.site
  /\ Due = "directories" => disk'.site = disk.site \/ disk.site = None
  /\ Due = "name-rollback" => disk'.rollback = disk.stage
  /\ Due = "drop-rollback" => disk'.rollback = NoPair
  /\ Due = "stage-server" => disk'.stage.server = disk.server
  /\ Due = "stage-ctl" => disk'.stage.ctl = disk.ctl /\ disk'.stage.server = disk.stage.server
  /\ Due = "enable" => disk'.enabled
  /\ Due = "restart" => disk'.active = disk.server
  /\ Due = "is-active" => disk'.active = disk.active

\* What a call has checked when it succeeds.
Checked ==
  /\ Due = "check-config" => Usable
  /\ Due = "check-candidate" => Accepts(job.args.new.ctl, job.args.cfg, disk)
  /\ Due = "check-edited" => Accepts(disk.ctl, job.args.cfg, disk)
  /\ Due = "verify-installed" => disk.server # None /\ disk.ctl # None
  /\ Due = "validate-new" => Matched(job.args.new) /\ job.args.new.server = job.args.tag
  /\ Due = "validate-rollback" => Matched(disk.rollback)
  /\ Due = "enable" => disk.unit # None
  /\ Due = "restart" => disk.unit # None /\ disk.server # None

\* What a command works with changes where it downloads and edits, what it saved
\* where it saves.
Carried ==
  /\ DOMAIN job' = JobFields /\ job'.op = job.op /\ job'.undo = job.undo
  /\ job'.args \in Args /\ job'.snap \in Snaps
  /\ job'.args.tag = job.args.tag /\ job'.args.tls = job.args.tls /\ job'.args.dist = job.args.dist
  /\ Due # "download" => job'.args.new = job.args.new
  /\ Due # "editor" => job'.args.cfg = job.args.cfg
  /\ Due = "editor" => job'.args.cfg \in Configs
  /\ Due # "snapshot-cert" => job'.snap.cert = job.snap.cert
  /\ Due = "snapshot-cert" => job'.snap.cert = <<disk.cert>>
  /\ Due # "snapshot-key" => job'.snap.key = job.snap.key
  /\ Due = "snapshot-key" => job'.snap.key = <<disk.key>>
  /\ Due # "site-out" => job'.snap.site = job.snap.site
  /\ Due = "site-out" => job'.snap.site = <<disk.site>>
  /\ Due # "site-in" => job'.snap.siteIn = job.snap.siteIn
  /\ Due = "site-in" => job'.snap.siteIn = TRUE
Same ==
  /\ DOMAIN job' = JobFields /\ job'.op = job.op /\ job'.undo = job.undo
  /\ job'.args = job.args /\ job'.snap = job.snap

Ends(s) == job'.outcome = IF s # <<>> THEN "none" ELSE IF job.undoing THEN "restored" ELSE "ok"
Moved ==
  /\ job'.todo = Tail(job.todo) /\ job'.undoing = job.undoing /\ Ends(Tail(job.todo))
  /\ interrupted' = interrupted

Succeeds == Effect /\ Checked /\ Carried /\ Moved
Aborts ==
  /\ On = "abort" /\ Same
  /\ job'.todo = <<>> /\ job'.undoing = job.undoing /\ job'.outcome = "error"
  /\ interrupted' \in BOOLEAN
Undoes ==
  /\ On = "undo" /\ Same
  /\ job'.todo = job.undo /\ job'.undoing = TRUE /\ job'.outcome = job.outcome
  /\ interrupted' = interrupted
Ignores ==
  /\ On = "ignore" /\ Same
  /\ job'.todo = Tail(job.todo) /\ job'.undoing = job.undoing /\ Ends(Tail(job.todo))
  /\ interrupted' = (interrupted \/ Due = "site-back")
Skips ==
  /\ On = "skip" /\ Same
  /\ \E k \in 1 .. Len(job.todo) + 1 :
       /\ \A i \in 1 .. k - 1 : job.todo[i].on = "skip"
       /\ k <= Len(job.todo) => job.todo[k].on # "skip"
       /\ job'.todo = SubSeq(job.todo, k, Len(job.todo)) /\ Ends(job'.todo)
  /\ job'.undoing = job.undoing /\ interrupted' = interrupted
Fails == Aborts \/ Undoes \/ Ignores \/ Skips
Dies ==
  /\ Same /\ disk' = disk
  /\ job'.todo = <<>> /\ job'.undoing = job.undoing /\ job'.outcome = "died"
  /\ interrupted' = TRUE

\* Where the scripts put a call, it finds what it needs.
Legal ==
  /\ Due = "backup-config" => disk.config # None
  /\ Due \in {"copy-cert", "copy-key"} => job.args.tls # <<>>
  /\ Due = "site-restore" /\ job.snap.siteIn => job.snap.site # <<>>

Quiet == disk' \in Disk /\ Kept /\ before' = before /\ commands' = commands

\* The directories are not moved by a call that fails.
Spared == disk'.site = disk.site
Stepped == Quiet /\ (Succeeds \/ (Fails /\ Spared) \/ Dies)

LEMMA DoneMoves ==
  ASSUME NEW d, NEW j, Running, Done(d, j), DOMAIN j = JobFields, j.op = job.op,
         j.undo = job.undo, j.undoing = job.undoing
  PROVE  /\ disk' = d /\ before' = before /\ commands' = commands
         /\ DOMAIN job' = JobFields /\ job'.op = job.op /\ job'.undo = job.undo
         /\ job'.args = j.args /\ job'.snap = j.snap /\ Moved
<1>1. /\ disk' = d /\ before' = before /\ commands' = commands /\ interrupted' = interrupted
      /\ Proceed(Tail(job.todo), j)
  BY DEF Done
<1>2. job' = [j EXCEPT !.todo = Tail(job.todo),
                       !.outcome = IF Tail(job.todo) # <<>> THEN "none"
                                   ELSE IF j.undoing THEN "restored" ELSE "ok"]
  BY <1>1 DEF Proceed
<1> DEFINE rest == Tail(job.todo)
<1> HIDE DEF rest
<1>3. /\ DOMAIN job' = JobFields /\ job'.op = j.op /\ job'.undo = j.undo /\ job'.undoing = j.undoing
      /\ job'.args = j.args /\ job'.snap = j.snap
  BY <1>2 DEF JobFields
<1>4. /\ job'.todo = Tail(job.todo)
      /\ job'.outcome = IF Tail(job.todo) # <<>> THEN "none"
                        ELSE IF j.undoing THEN "restored" ELSE "ok"
  BY <1>2 DEF JobFields
<1> QED
  BY <1>1, <1>3, <1>4 DEF Moved, Ends

LEMMA ErrorFails ==
  ASSUME Running, DOMAIN job = JobFields, interrupted \in BOOLEAN, Error
  PROVE  Fails
<1>1. CASE On = "abort" /\ job' = [job EXCEPT !.todo = <<>>, !.outcome = "error"]
           /\ interrupted' = (interrupted \/ job.undoing)
  BY <1>1 DEF Fails, Aborts, Same, JobFields
<1>2. CASE On = "undo" /\ job' = [job EXCEPT !.todo = job.undo, !.undoing = TRUE]
           /\ interrupted' = interrupted
  BY <1>2 DEF Fails, Undoes, Same, JobFields
<1>3. CASE On = "ignore" /\ Proceed(Tail(job.todo), job)
           /\ interrupted' = (interrupted \/ Due = "site-back")
  BY <1>3 DEF Fails, Ignores, Same, JobFields, Proceed, Ends
<1>4. CASE /\ On = "skip"
           /\ \E k \in 1 .. Len(job.todo) + 1 :
                /\ \A i \in 1 .. k - 1 : job.todo[i].on = "skip"
                /\ k <= Len(job.todo) => job.todo[k].on # "skip"
                /\ Proceed(SubSeq(job.todo, k, Len(job.todo)), job)
           /\ interrupted' = interrupted
  <2>1. PICK k \in 1 .. Len(job.todo) + 1 :
                /\ \A i \in 1 .. k - 1 : job.todo[i].on = "skip"
                /\ k <= Len(job.todo) => job.todo[k].on # "skip"
                /\ Proceed(SubSeq(job.todo, k, Len(job.todo)), job)
    BY <1>4
  <2>2. /\ Same /\ job'.undoing = job.undoing
        /\ job'.todo = SubSeq(job.todo, k, Len(job.todo)) /\ Ends(job'.todo)
    BY <2>1 DEF Proceed, Same, JobFields, Ends
  <2> QED
    BY <1>4, <2>1, <2>2 DEF Fails, Skips
<1> QED
  BY <1>1, <1>2, <1>3, <1>4 DEF Error, On, Due

\* A call that takes effect at once and may still report an error.
LEMMA WriteSteps ==
  ASSUME NEW step, NEW d, Typed, Write(step, d)
  PROVE  /\ Running /\ Due = step /\ disk' = d /\ before' = before /\ commands' = commands
         /\ (Same /\ Moved) \/ Fails
<1>1. Running /\ Due = step /\ DOMAIN job = JobFields /\ interrupted \in BOOLEAN
  BY DEF Write, At, Typed, Due
<1>2. CASE Done(d, job)
  BY <1>1, <1>2, DoneMoves DEF Same
<1>3. CASE disk' = d /\ Error /\ UNCHANGED <<before, commands>>
  BY <1>1, <1>3, ErrorFails
<1> QED
  BY <1>1, <1>2, <1>3 DEF Write

LEMMA SameCarried ==
  ASSUME Typed, Same, Due \notin {"editor", "snapshot-cert", "snapshot-key", "site-out", "site-in"}
  PROVE  Carried
  BY DEF Typed, Same, Carried

LEMMA DoneSteps ==
  ASSUME NEW step, NEW d, Typed, At(step), Done(d, job)
  PROVE  /\ Running /\ Due = step /\ disk' = d /\ before' = before /\ commands' = commands
         /\ Same /\ Moved
<1>1. Running /\ Due = step /\ DOMAIN job = JobFields
  BY DEF At, Typed, Due
<1> QED
  BY <1>1, DoneMoves DEF Same

\* The types of what the calls write.
LEMMA Parts ==
  ASSUME Typed
  PROVE  /\ disk \in Disk
         /\ job.args.new.server \in Versions \cup {None} /\ job.args.new.ctl \in Versions \cup {None}
         /\ job.args.cfg \in Configs \cup {None} /\ job.args.dist \in Sites \cup {None}
         /\ job.args.tls # <<>> => job.args.tls[1] \in Idents /\ job.args.tls[2] \in Idents
         /\ before.config \in Configs \cup {None}
         /\ job.snap.cert # <<>> => job.snap.cert[1] \in Idents \cup {None}
         /\ job.snap.key # <<>> => job.snap.key[1] \in Idents \cup {None}
         /\ job.snap.site # <<>> => job.snap.site[1] \in Sites \cup {Empty, None}
<1>1. disk \in Disk /\ before \in Disk /\ job.args \in Args /\ job.snap \in Snaps
  BY DEF Typed
<1>2. /\ job.args.new \in Pair /\ job.args.cfg \in Configs \cup {None} /\ job.args.dist \in Sites \cup {None}
      /\ job.args.tls \in {<<>>} \cup Idents \X Idents
  BY <1>1 DEF Args
<1>3. /\ job.snap.cert \in Snapshot(Idents \cup {None}) /\ job.snap.key \in Snapshot(Idents \cup {None})
      /\ job.snap.site \in Snapshot(Sites \cup {Empty, None})
  BY <1>1 DEF Snaps
<1>4. ASSUME NEW S, NEW x \in Snapshot(S), x # <<>>
      PROVE  x[1] \in S
  BY <1>4 DEF Snapshot
<1>5. job.args.new.server \in Versions \cup {None} /\ job.args.new.ctl \in Versions \cup {None}
  BY <1>2 DEF Pair
<1>6. before.config \in Configs \cup {None}
  BY <1>1 DEF Disk
<1>7. job.args.tls # <<>> => job.args.tls[1] \in Idents /\ job.args.tls[2] \in Idents
  BY <1>2
<1> QED
  BY <1>1, <1>2, <1>3, <1>4, <1>5, <1>6, <1>7

LEMMA StageServerStep ==
  ASSUME Typed, Legal, StageServer
  PROVE  Stepped
<1>1. /\ Due = "stage-server" /\ disk' = [disk EXCEPT !.stage = [NoPair EXCEPT !.server = disk.server]]
      /\ before' = before /\ commands' = commands
      /\ (Same /\ Moved) \/ Fails
  BY WriteSteps DEF StageServer
<1>2. Quiet /\ Effect /\ Checked /\ Spared
  BY <1>1, Parts DEF Quiet, Kept, Effect, Checked, Disk, Pair, NoPair, Spared
<1>3. Same => Carried
  BY <1>1, SameCarried
<1> QED
  BY <1>1, <1>2, <1>3 DEF Stepped, Succeeds

LEMMA StageCtlStep ==
  ASSUME Typed, Legal, StageCtl
  PROVE  Stepped
<1>1. /\ Due = "stage-ctl" /\ disk' = [disk EXCEPT !.stage.ctl = disk.ctl]
      /\ before' = before /\ commands' = commands
      /\ (Same /\ Moved) \/ Fails
  BY WriteSteps DEF StageCtl
<1>2. Quiet /\ Effect /\ Checked /\ Spared
  BY <1>1, Parts DEF Quiet, Kept, Effect, Checked, Disk, Pair, NoPair, Spared
<1>3. Same => Carried
  BY <1>1, SameCarried
<1> QED
  BY <1>1, <1>2, <1>3 DEF Stepped, Succeeds

LEMMA DropRollbackStep ==
  ASSUME Typed, Legal, DropRollback
  PROVE  Stepped
<1>1. /\ Due = "drop-rollback" /\ disk' = [disk EXCEPT !.rollback = NoPair]
      /\ before' = before /\ commands' = commands /\ Same /\ Moved
  BY DoneSteps DEF DropRollback
<1>2. Quiet /\ Effect /\ Checked
  BY <1>1, Parts DEF Quiet, Kept, Effect, Checked, Disk, Pair, NoPair
<1>3. Same => Carried
  BY <1>1, SameCarried
<1> QED
  BY <1>1, <1>2, <1>3 DEF Stepped, Succeeds

LEMMA NameRollbackStep ==
  ASSUME Typed, Legal, NameRollback
  PROVE  Stepped
<1>1. /\ Due = "name-rollback" /\ disk' = [disk EXCEPT !.rollback = disk.stage, !.stage = NoPair]
      /\ before' = before /\ commands' = commands /\ Same /\ Moved
  BY DoneSteps DEF NameRollback
<1>2. Quiet /\ Effect /\ Checked
  BY <1>1, Parts DEF Quiet, Kept, Effect, Checked, Disk, Pair, NoPair
<1>3. Same => Carried
  BY <1>1, SameCarried
<1> QED
  BY <1>1, <1>2, <1>3 DEF Stepped, Succeeds

LEMMA CopyServerStep ==
  ASSUME Typed, Legal, CopyServer
  PROVE  Stepped
<1>1. /\ Due = "copy-server" /\ disk' = [disk EXCEPT !.server = job.args.new.server]
      /\ before' = before /\ commands' = commands
      /\ (Same /\ Moved) \/ Fails
  BY WriteSteps DEF CopyServer
<1>2. Quiet /\ Effect /\ Checked /\ Spared
  BY <1>1, Parts DEF Quiet, Kept, Effect, Checked, Disk, Pair, NoPair, Spared
<1>3. Same => Carried
  BY <1>1, SameCarried
<1> QED
  BY <1>1, <1>2, <1>3 DEF Stepped, Succeeds

LEMMA CopyCtlStep ==
  ASSUME Typed, Legal, CopyCtl
  PROVE  Stepped
<1>1. /\ Due = "copy-ctl" /\ disk' = [disk EXCEPT !.ctl = job.args.new.ctl]
      /\ before' = before /\ commands' = commands
      /\ (Same /\ Moved) \/ Fails
  BY WriteSteps DEF CopyCtl
<1>2. Quiet /\ Effect /\ Checked /\ Spared
  BY <1>1, Parts DEF Quiet, Kept, Effect, Checked, Disk, Pair, NoPair, Spared
<1>3. Same => Carried
  BY <1>1, SameCarried
<1> QED
  BY <1>1, <1>2, <1>3 DEF Stepped, Succeeds

LEMMA RestoreServerStep ==
  ASSUME Typed, Legal, RestoreServer
  PROVE  Stepped
<1>1. /\ Due = "restore-server" /\ disk' = [disk EXCEPT !.server = disk.rollback.server]
      /\ before' = before /\ commands' = commands
      /\ (Same /\ Moved) \/ Fails
  BY WriteSteps DEF RestoreServer
<1>2. Quiet /\ Effect /\ Checked /\ Spared
  BY <1>1, Parts DEF Quiet, Kept, Effect, Checked, Disk, Pair, NoPair, Spared
<1>3. Same => Carried
  BY <1>1, SameCarried
<1> QED
  BY <1>1, <1>2, <1>3 DEF Stepped, Succeeds

LEMMA RestoreCtlStep ==
  ASSUME Typed, Legal, RestoreCtl
  PROVE  Stepped
<1>1. /\ Due = "restore-ctl" /\ disk' = [disk EXCEPT !.ctl = disk.rollback.ctl]
      /\ before' = before /\ commands' = commands
      /\ (Same /\ Moved) \/ Fails
  BY WriteSteps DEF RestoreCtl
<1>2. Quiet /\ Effect /\ Checked /\ Spared
  BY <1>1, Parts DEF Quiet, Kept, Effect, Checked, Disk, Pair, NoPair, Spared
<1>3. Same => Carried
  BY <1>1, SameCarried
<1> QED
  BY <1>1, <1>2, <1>3 DEF Stepped, Succeeds

LEMMA UnstageStep ==
  ASSUME Typed, Legal, Unstage
  PROVE  Stepped
<1>1. CASE Write("unstage-server", [disk EXCEPT !.server = disk.stage.server])
  <2>1. /\ Due = "unstage-server" /\ disk' = [disk EXCEPT !.server = disk.stage.server]
        /\ before' = before /\ commands' = commands
        /\ (Same /\ Moved) \/ Fails
    BY <1>1, WriteSteps
  <2>2. Quiet /\ Effect /\ Checked /\ Spared
    BY <2>1, Parts DEF Quiet, Kept, Effect, Checked, Disk, Pair, NoPair, Spared
  <2>3. Same => Carried
    BY <2>1, SameCarried
  <2> QED
    BY <2>1, <2>2, <2>3 DEF Stepped, Succeeds
<1>2. CASE Write("unstage-ctl", [disk EXCEPT !.ctl = disk.stage.ctl])
  <2>1. /\ Due = "unstage-ctl" /\ disk' = [disk EXCEPT !.ctl = disk.stage.ctl]
        /\ before' = before /\ commands' = commands
        /\ (Same /\ Moved) \/ Fails
    BY <1>2, WriteSteps
  <2>2. Quiet /\ Effect /\ Checked /\ Spared
    BY <2>1, Parts DEF Quiet, Kept, Effect, Checked, Disk, Pair, NoPair, Spared
  <2>3. Same => Carried
    BY <2>1, SameCarried
  <2> QED
    BY <2>1, <2>2, <2>3 DEF Stepped, Succeeds
<1> QED
  BY <1>1, <1>2 DEF Unstage

LEMMA WriteUnitStep ==
  ASSUME Typed, Legal, WriteUnit
  PROVE  Stepped
<1>1. /\ Due = "write-unit" /\ disk' = [disk EXCEPT !.unit = disk.ctl]
      /\ before' = before /\ commands' = commands
      /\ (Same /\ Moved) \/ Fails
  BY WriteSteps DEF WriteUnit
<1>2. Quiet /\ Effect /\ Checked /\ Spared
  BY <1>1, Parts DEF Quiet, Kept, Effect, Checked, Disk, Pair, NoPair, Spared
<1>3. Same => Carried
  BY <1>1, SameCarried
<1> QED
  BY <1>1, <1>2, <1>3 DEF Stepped, Succeeds

LEMMA DisableStep ==
  ASSUME Typed, Legal, Disable
  PROVE  Stepped
<1>1. CASE At("disable") /\ Done([disk EXCEPT !.enabled = FALSE], job)
  <2>1. /\ Due = "disable" /\ disk' = [disk EXCEPT !.enabled = FALSE]
        /\ before' = before /\ commands' = commands /\ Same /\ Moved
    BY <1>1, DoneSteps
  <2>2. Quiet /\ Effect /\ Checked
    BY <2>1, Parts DEF Quiet, Kept, Effect, Checked, Disk, Pair, NoPair
  <2>3. Same => Carried
    BY <2>1, SameCarried
  <2> QED
    BY <2>1, <2>2, <2>3 DEF Stepped, Succeeds
<1>2. CASE At("stop") /\ Done([disk EXCEPT !.active = None], job)
  <2>1. /\ Due = "stop" /\ disk' = [disk EXCEPT !.active = None]
        /\ before' = before /\ commands' = commands /\ Same /\ Moved
    BY <1>2, DoneSteps
  <2>2. Quiet /\ Effect /\ Checked
    BY <2>1, Parts DEF Quiet, Kept, Effect, Checked, Disk, Pair, NoPair
  <2>3. Same => Carried
    BY <2>1, SameCarried
  <2> QED
    BY <2>1, <2>2, <2>3 DEF Stepped, Succeeds
<1>3. CASE At("disable-now") /\ Done([disk EXCEPT !.enabled = FALSE, !.active = None], job)
  <2>1. /\ Due = "disable-now" /\ disk' = [disk EXCEPT !.enabled = FALSE, !.active = None]
        /\ before' = before /\ commands' = commands /\ Same /\ Moved
    BY <1>3, DoneSteps
  <2>2. Quiet /\ Effect /\ Checked
    BY <2>1, Parts DEF Quiet, Kept, Effect, Checked, Disk, Pair, NoPair
  <2>3. Same => Carried
    BY <2>1, SameCarried
  <2> QED
    BY <2>1, <2>2, <2>3 DEF Stepped, Succeeds
<1> QED
  BY <1>1, <1>2, <1>3 DEF Disable

LEMMA InstallConfigStep ==
  ASSUME Typed, Legal, InstallConfig
  PROVE  Stepped
<1>1. /\ Due = "install-config" /\ disk' = [disk EXCEPT !.config = job.args.cfg]
      /\ before' = before /\ commands' = commands
      /\ (Same /\ Moved) \/ Fails
  BY WriteSteps DEF InstallConfig
<1>2. Quiet /\ Effect /\ Checked /\ Spared
  BY <1>1, Parts DEF Quiet, Kept, Effect, Checked, Disk, Pair, NoPair, Spared
<1>3. Same => Carried
  BY <1>1, SameCarried
<1> QED
  BY <1>1, <1>2, <1>3 DEF Stepped, Succeeds

LEMMA RestoreConfigStep ==
  ASSUME Typed, Legal, RestoreConfig
  PROVE  Stepped
<1>1. /\ Due = "restore-config" /\ disk' = [disk EXCEPT !.config = before.config]
      /\ before' = before /\ commands' = commands
      /\ (Same /\ Moved) \/ Fails
  BY WriteSteps DEF RestoreConfig
<1>2. Quiet /\ Effect /\ Checked /\ Spared
  BY <1>1, Parts DEF Quiet, Kept, Effect, Checked, Disk, Pair, NoPair, Spared
<1>3. Same => Carried
  BY <1>1, SameCarried
<1> QED
  BY <1>1, <1>2, <1>3 DEF Stepped, Succeeds

LEMMA CopyTlsStep ==
  ASSUME Typed, Legal, CopyTls
  PROVE  Stepped
<1>1. CASE Write("copy-cert", [disk EXCEPT !.cert = job.args.tls[1]])
  <2>1. /\ Due = "copy-cert" /\ disk' = [disk EXCEPT !.cert = job.args.tls[1]]
        /\ before' = before /\ commands' = commands
        /\ (Same /\ Moved) \/ Fails
    BY <1>1, WriteSteps
  <2>2. Quiet /\ Effect /\ Checked /\ Spared
    BY <2>1, Parts DEF Legal, Quiet, Kept, Effect, Checked, Disk, Pair, NoPair, Spared
  <2>3. Same => Carried
    BY <2>1, SameCarried
  <2> QED
    BY <2>1, <2>2, <2>3 DEF Stepped, Succeeds
<1>2. CASE Write("copy-key", [disk EXCEPT !.key = job.args.tls[2]])
  <2>1. /\ Due = "copy-key" /\ disk' = [disk EXCEPT !.key = job.args.tls[2]]
        /\ before' = before /\ commands' = commands
        /\ (Same /\ Moved) \/ Fails
    BY <1>2, WriteSteps
  <2>2. Quiet /\ Effect /\ Checked /\ Spared
    BY <2>1, Parts DEF Legal, Quiet, Kept, Effect, Checked, Disk, Pair, NoPair, Spared
  <2>3. Same => Carried
    BY <2>1, SameCarried
  <2> QED
    BY <2>1, <2>2, <2>3 DEF Stepped, Succeeds
<1> QED
  BY <1>1, <1>2 DEF CopyTls

LEMMA RemoveStep ==
  ASSUME Typed, Legal, Remove
  PROVE  Stepped
<1>1. CASE At("remove-unit") /\ Done([disk EXCEPT !.unit = None], job)
  <2>1. /\ Due = "remove-unit" /\ disk' = [disk EXCEPT !.unit = None]
        /\ before' = before /\ commands' = commands /\ Same /\ Moved
    BY <1>1, DoneSteps
  <2>2. Quiet /\ Effect /\ Checked
    BY <2>1, Parts DEF Quiet, Kept, Effect, Checked, Disk, Pair, NoPair
  <2>3. Same => Carried
    BY <2>1, SameCarried
  <2> QED
    BY <2>1, <2>2, <2>3 DEF Stepped, Succeeds
<1>2. CASE At("remove-server") /\ Done([disk EXCEPT !.server = None], job)
  <2>1. /\ Due = "remove-server" /\ disk' = [disk EXCEPT !.server = None]
        /\ before' = before /\ commands' = commands /\ Same /\ Moved
    BY <1>2, DoneSteps
  <2>2. Quiet /\ Effect /\ Checked
    BY <2>1, Parts DEF Quiet, Kept, Effect, Checked, Disk, Pair, NoPair
  <2>3. Same => Carried
    BY <2>1, SameCarried
  <2> QED
    BY <2>1, <2>2, <2>3 DEF Stepped, Succeeds
<1>3. CASE At("remove-ctl") /\ Done([disk EXCEPT !.ctl = None], job)
  <2>1. /\ Due = "remove-ctl" /\ disk' = [disk EXCEPT !.ctl = None]
        /\ before' = before /\ commands' = commands /\ Same /\ Moved
    BY <1>3, DoneSteps
  <2>2. Quiet /\ Effect /\ Checked
    BY <2>1, Parts DEF Quiet, Kept, Effect, Checked, Disk, Pair, NoPair
  <2>3. Same => Carried
    BY <2>1, SameCarried
  <2> QED
    BY <2>1, <2>2, <2>3 DEF Stepped, Succeeds
<1> QED
  BY <1>1, <1>2, <1>3 DEF Remove

LEMMA PurgeStep ==
  ASSUME Typed, Legal, Purge
  PROVE  Stepped
<1>1. CASE At("purge-config") /\ Done([disk EXCEPT !.config = None, !.backups = {}, !.cert = None, !.key = None], job)
  <2>1. /\ Due = "purge-config" /\ disk' = [disk EXCEPT !.config = None, !.backups = {}, !.cert = None, !.key = None]
        /\ before' = before /\ commands' = commands /\ Same /\ Moved
    BY <1>1, DoneSteps
  <2>2. Quiet /\ Effect /\ Checked
    BY <2>1, Parts DEF Quiet, Kept, Effect, Checked, Disk, Pair, NoPair
  <2>3. Same => Carried
    BY <2>1, SameCarried
  <2> QED
    BY <2>1, <2>2, <2>3 DEF Stepped, Succeeds
<1>2. CASE At("purge-state") /\ Done([disk EXCEPT !.site = None], job)
  <2>1. /\ Due = "purge-state" /\ disk' = [disk EXCEPT !.site = None]
        /\ before' = before /\ commands' = commands /\ Same /\ Moved
    BY <1>2, DoneSteps
  <2>2. Quiet /\ Effect /\ Checked
    BY <2>1, Parts DEF Quiet, Kept, Effect, Checked, Disk, Pair, NoPair
  <2>3. Same => Carried
    BY <2>1, SameCarried
  <2> QED
    BY <2>1, <2>2, <2>3 DEF Stepped, Succeeds
<1>3. CASE At("purge-manager") /\ Done([disk EXCEPT !.rollback = NoPair, !.stage = NoPair], job)
  <2>1. /\ Due = "purge-manager" /\ disk' = [disk EXCEPT !.rollback = NoPair, !.stage = NoPair]
        /\ before' = before /\ commands' = commands /\ Same /\ Moved
    BY <1>3, DoneSteps
  <2>2. Quiet /\ Effect /\ Checked
    BY <2>1, Parts DEF Quiet, Kept, Effect, Checked, Disk, Pair, NoPair
  <2>3. Same => Carried
    BY <2>1, SameCarried
  <2> QED
    BY <2>1, <2>2, <2>3 DEF Stepped, Succeeds
<1> QED
  BY <1>1, <1>2, <1>3 DEF Purge

LEMMA RestoreResourcesStep ==
  ASSUME Typed, Legal, RestoreResources
  PROVE  Stepped
<1>1. CASE At("site-back") /\ Done([disk EXCEPT !.site = IF job.snap.site # <<>> /\ ~job.snap.siteIn
                                   THEN job.snap.site[1] ELSE @], job)
  <2>1. /\ Due = "site-back" /\ disk' = [disk EXCEPT !.site = IF job.snap.site # <<>> /\ ~job.snap.siteIn
                                   THEN job.snap.site[1] ELSE @]
        /\ before' = before /\ commands' = commands /\ Same /\ Moved
    BY <1>1, DoneSteps
  <2>2. Quiet /\ Effect /\ Checked
    BY <2>1, Parts DEF Quiet, Kept, Effect, Checked, Disk, Pair, NoPair
  <2>3. Same => Carried
    BY <2>1, SameCarried
  <2> QED
    BY <2>1, <2>2, <2>3 DEF Stepped, Succeeds
<1>2. CASE At("site-remove") /\ Done([disk EXCEPT !.site = IF job.snap.siteIn THEN None ELSE @], job)
  <2>1. /\ Due = "site-remove" /\ disk' = [disk EXCEPT !.site = IF job.snap.siteIn THEN None ELSE @]
        /\ before' = before /\ commands' = commands /\ Same /\ Moved
    BY <1>2, DoneSteps
  <2>2. Quiet /\ Effect /\ Checked
    BY <2>1, Parts DEF Quiet, Kept, Effect, Checked, Disk, Pair, NoPair
  <2>3. Same => Carried
    BY <2>1, SameCarried
  <2> QED
    BY <2>1, <2>2, <2>3 DEF Stepped, Succeeds
<1>3. CASE At("site-restore") /\ Done([disk EXCEPT !.site = IF job.snap.siteIn THEN job.snap.site[1] ELSE @], job)
  <2>1. /\ Due = "site-restore" /\ disk' = [disk EXCEPT !.site = IF job.snap.siteIn THEN job.snap.site[1] ELSE @]
        /\ before' = before /\ commands' = commands /\ Same /\ Moved
    BY <1>3, DoneSteps
  <2>2. Quiet /\ Effect /\ Checked
    BY <2>1, Parts DEF Legal, Quiet, Kept, Effect, Checked, Disk, Pair, NoPair
  <2>3. Same => Carried
    BY <2>1, SameCarried
  <2> QED
    BY <2>1, <2>2, <2>3 DEF Stepped, Succeeds
<1>4. CASE Write("key-back", [disk EXCEPT !.key = IF job.snap.key # <<>> THEN job.snap.key[1] ELSE @])
  <2>1. /\ Due = "key-back" /\ disk' = [disk EXCEPT !.key = IF job.snap.key # <<>> THEN job.snap.key[1] ELSE @]
        /\ before' = before /\ commands' = commands
        /\ (Same /\ Moved) \/ Fails
    BY <1>4, WriteSteps
  <2>2. Quiet /\ Effect /\ Checked /\ Spared
    BY <2>1, Parts DEF Quiet, Kept, Effect, Checked, Disk, Pair, NoPair, Spared
  <2>3. Same => Carried
    BY <2>1, SameCarried
  <2> QED
    BY <2>1, <2>2, <2>3 DEF Stepped, Succeeds
<1>5. CASE Write("cert-back", [disk EXCEPT !.cert = IF job.snap.cert # <<>> THEN job.snap.cert[1] ELSE @])
  <2>1. /\ Due = "cert-back" /\ disk' = [disk EXCEPT !.cert = IF job.snap.cert # <<>> THEN job.snap.cert[1] ELSE @]
        /\ before' = before /\ commands' = commands
        /\ (Same /\ Moved) \/ Fails
    BY <1>5, WriteSteps
  <2>2. Quiet /\ Effect /\ Checked /\ Spared
    BY <2>1, Parts DEF Quiet, Kept, Effect, Checked, Disk, Pair, NoPair, Spared
  <2>3. Same => Carried
    BY <2>1, SameCarried
  <2> QED
    BY <2>1, <2>2, <2>3 DEF Stepped, Succeeds
<1> QED
  BY <1>1, <1>2, <1>3, <1>4, <1>5 DEF RestoreResources

LEMMA DirectoriesStep ==
  ASSUME Typed, Legal, Directories
  PROVE  Stepped
<1>1. /\ Due = "directories" /\ disk' = [disk EXCEPT !.site = IF @ = None THEN Empty ELSE @]
      /\ before' = before /\ commands' = commands /\ Same /\ Moved
  BY DoneSteps DEF Directories
<1>2. Quiet /\ Effect /\ Checked
  BY <1>1, Parts DEF Quiet, Kept, Effect, Checked, Disk, Pair, NoPair
<1>3. Same => Carried
  BY <1>1, SameCarried
<1> QED
  BY <1>1, <1>2, <1>3 DEF Stepped, Succeeds

LEMMA VerifyStep ==
  ASSUME Typed, Verify
  PROVE  Stepped
<1>1. disk \in Disk
  BY DEF Typed
<1>2. CASE Check("verify-new", TRUE)
  <2>1. /\ Due = "verify-new" /\ TRUE /\ disk' = disk
        /\ before' = before /\ commands' = commands /\ Same /\ Moved
    BY <1>2, DoneSteps DEF Check
  <2>2. Quiet /\ Effect /\ Checked
    BY <1>1, <2>1 DEF Quiet, Kept, Effect, Checked
  <2>3. Carried
    BY <2>1, SameCarried
  <2> QED
    BY <2>1, <2>2, <2>3 DEF Stepped, Succeeds
<1>3. CASE Check("account", TRUE)
  <2>1. /\ Due = "account" /\ TRUE /\ disk' = disk
        /\ before' = before /\ commands' = commands /\ Same /\ Moved
    BY <1>3, DoneSteps DEF Check
  <2>2. Quiet /\ Effect /\ Checked
    BY <1>1, <2>1 DEF Quiet, Kept, Effect, Checked
  <2>3. Carried
    BY <2>1, SameCarried
  <2> QED
    BY <2>1, <2>2, <2>3 DEF Stepped, Succeeds
<1>4. CASE Check("chown", TRUE)
  <2>1. /\ Due = "chown" /\ TRUE /\ disk' = disk
        /\ before' = before /\ commands' = commands /\ Same /\ Moved
    BY <1>4, DoneSteps DEF Check
  <2>2. Quiet /\ Effect /\ Checked
    BY <1>1, <2>1 DEF Quiet, Kept, Effect, Checked
  <2>3. Carried
    BY <2>1, SameCarried
  <2> QED
    BY <2>1, <2>2, <2>3 DEF Stepped, Succeeds
<1>5. CASE Check("daemon-reload", TRUE)
  <2>1. /\ Due = "daemon-reload" /\ TRUE /\ disk' = disk
        /\ before' = before /\ commands' = commands /\ Same /\ Moved
    BY <1>5, DoneSteps DEF Check
  <2>2. Quiet /\ Effect /\ Checked
    BY <1>1, <2>1 DEF Quiet, Kept, Effect, Checked
  <2>3. Carried
    BY <2>1, SameCarried
  <2> QED
    BY <2>1, <2>2, <2>3 DEF Stepped, Succeeds
<1>6. CASE Check("select-config", job.args.cfg \in Parsed)
  <2>1. /\ Due = "select-config" /\ job.args.cfg \in Parsed /\ disk' = disk
        /\ before' = before /\ commands' = commands /\ Same /\ Moved
    BY <1>6, DoneSteps DEF Check
  <2>2. Quiet /\ Effect /\ Checked
    BY <1>1, <2>1 DEF Quiet, Kept, Effect, Checked
  <2>3. Carried
    BY <2>1, SameCarried
  <2> QED
    BY <2>1, <2>2, <2>3 DEF Stepped, Succeeds
<1>7. CASE Check("verify-installed", disk.server # None /\ disk.ctl # None)
  <2>1. /\ Due = "verify-installed" /\ disk.server # None /\ disk.ctl # None /\ disk' = disk
        /\ before' = before /\ commands' = commands /\ Same /\ Moved
    BY <1>7, DoneSteps DEF Check
  <2>2. Quiet /\ Effect /\ Checked
    BY <1>1, <2>1 DEF Quiet, Kept, Effect, Checked
  <2>3. Carried
    BY <2>1, SameCarried
  <2> QED
    BY <2>1, <2>2, <2>3 DEF Stepped, Succeeds
<1>8. CASE Check("is-active", disk.active # None)
  <2>1. /\ Due = "is-active" /\ disk.active # None /\ disk' = disk
        /\ before' = before /\ commands' = commands /\ Same /\ Moved
    BY <1>8, DoneSteps DEF Check
  <2>2. Quiet /\ Effect /\ Checked
    BY <1>1, <2>1 DEF Quiet, Kept, Effect, Checked
  <2>3. Carried
    BY <2>1, SameCarried
  <2> QED
    BY <2>1, <2>2, <2>3 DEF Stepped, Succeeds
<1>9. CASE Check("stage-site", TRUE)
  <2>1. /\ Due = "stage-site" /\ TRUE /\ disk' = disk
        /\ before' = before /\ commands' = commands /\ Same /\ Moved
    BY <1>9, DoneSteps DEF Check
  <2>2. Quiet /\ Effect /\ Checked
    BY <1>1, <2>1 DEF Quiet, Kept, Effect, Checked
  <2>3. Carried
    BY <2>1, SameCarried
  <2> QED
    BY <2>1, <2>2, <2>3 DEF Stepped, Succeeds
<1> QED
  BY <1>2, <1>3, <1>4, <1>5, <1>6, <1>7, <1>8, <1>9 DEF Verify

LEMMA CheckConfigStep ==
  ASSUME Typed, CheckConfig
  PROVE  Stepped
<1>1. disk \in Disk
  BY DEF Typed
<1>2. CASE Check("check-config", Accepts(disk.ctl, disk.config, disk))
  <2>1. /\ Due = "check-config" /\ Accepts(disk.ctl, disk.config, disk) /\ disk' = disk
        /\ before' = before /\ commands' = commands /\ Same /\ Moved
    BY <1>2, DoneSteps DEF Check
  <2>2. Quiet /\ Effect /\ Checked
    BY <1>1, <2>1 DEF Quiet, Kept, Effect, Checked, Usable
  <2>3. Carried
    BY <2>1, SameCarried
  <2> QED
    BY <2>1, <2>2, <2>3 DEF Stepped, Succeeds
<1>3. CASE Check("check-candidate", Accepts(job.args.new.ctl, job.args.cfg, disk))
  <2>1. /\ Due = "check-candidate" /\ Accepts(job.args.new.ctl, job.args.cfg, disk) /\ disk' = disk
        /\ before' = before /\ commands' = commands /\ Same /\ Moved
    BY <1>3, DoneSteps DEF Check
  <2>2. Quiet /\ Effect /\ Checked
    BY <1>1, <2>1 DEF Quiet, Kept, Effect, Checked
  <2>3. Carried
    BY <2>1, SameCarried
  <2> QED
    BY <2>1, <2>2, <2>3 DEF Stepped, Succeeds
<1>4. CASE Check("check-edited", Accepts(disk.ctl, job.args.cfg, disk))
  <2>1. /\ Due = "check-edited" /\ Accepts(disk.ctl, job.args.cfg, disk) /\ disk' = disk
        /\ before' = before /\ commands' = commands /\ Same /\ Moved
    BY <1>4, DoneSteps DEF Check
  <2>2. Quiet /\ Effect /\ Checked
    BY <1>1, <2>1 DEF Quiet, Kept, Effect, Checked
  <2>3. Carried
    BY <2>1, SameCarried
  <2> QED
    BY <2>1, <2>2, <2>3 DEF Stepped, Succeeds
<1> QED
  BY <1>2, <1>3, <1>4 DEF CheckConfig

LEMMA ValidateReleaseStep ==
  ASSUME Typed, ValidateRelease
  PROVE  Stepped
<1>1. disk \in Disk
  BY DEF Typed
<1>2. CASE /\ At("validate-new") /\ Matched(job.args.new) /\ job.args.new.server = job.args.tag
           /\ Done(disk, job)
  <2>1. /\ Due = "validate-new" /\ disk' = disk /\ before' = before /\ commands' = commands
        /\ Same /\ Moved
    BY <1>2, DoneSteps
  <2>2. Quiet /\ Effect /\ Checked
    BY <1>1, <1>2, <2>1 DEF Quiet, Kept, Effect, Checked
  <2> QED
    BY <2>1, <2>2, SameCarried DEF Stepped, Succeeds
<1>3. CASE At("validate-rollback") /\ Matched(disk.rollback) /\ Done(disk, job)
  <2>1. /\ Due = "validate-rollback" /\ disk' = disk /\ before' = before /\ commands' = commands
        /\ Same /\ Moved
    BY <1>3, DoneSteps
  <2>2. Quiet /\ Effect /\ Checked
    BY <1>1, <1>3, <2>1 DEF Quiet, Kept, Effect, Checked
  <2> QED
    BY <2>1, <2>2, SameCarried DEF Stepped, Succeeds
<1> QED
  BY <1>2, <1>3 DEF ValidateRelease

LEMMA EnableStep ==
  ASSUME Typed, Enable
  PROVE  Stepped
<1>1. /\ Due = "enable" /\ disk' = [disk EXCEPT !.enabled = TRUE] /\ disk.unit # None
      /\ before' = before /\ commands' = commands /\ Same /\ Moved
  BY DoneSteps DEF Enable
<1>2. Quiet /\ Effect /\ Checked
  BY <1>1, Parts DEF Quiet, Kept, Effect, Checked, Disk
<1> QED
  BY <1>1, <1>2, SameCarried DEF Stepped, Succeeds

LEMMA RestartStep ==
  ASSUME Typed, Restart
  PROVE  Stepped
<1>1. /\ Due = "restart" /\ disk' = [disk EXCEPT !.active = disk.server] /\ disk.unit # None /\ disk.server # None
      /\ before' = before /\ commands' = commands /\ Same /\ Moved
  BY DoneSteps DEF Restart
<1>2. Quiet /\ Effect /\ Checked
  BY <1>1, Parts DEF Quiet, Kept, Effect, Checked, Disk
<1> QED
  BY <1>1, <1>2, SameCarried DEF Stepped, Succeeds

LEMMA BackupConfigStep ==
  ASSUME Typed, Legal, BackupConfig
  PROVE  Stepped
<1>1. CASE Write("backup-config", [disk EXCEPT !.backups = @ \cup {disk.config}])
  <2>1. /\ Due = "backup-config" /\ disk' = [disk EXCEPT !.backups = @ \cup {disk.config}]
        /\ before' = before /\ commands' = commands
        /\ (Same /\ Moved) \/ Fails
    BY <1>1, WriteSteps
  <2> DEFINE both == disk.backups \cup {disk.config}
  <2>2. both \in SUBSET Configs /\ disk.config \in both
    BY <2>1, Parts DEF Legal, Disk
  <2>3. disk' = [disk EXCEPT !.backups = both] /\ disk \in Disk
    BY <2>1, Parts
  <2> HIDE DEF both
  <2>4. disk' \in Disk
    BY <2>2, <2>3 DEF Disk
  <2>5. /\ disk'.server = disk.server /\ disk'.ctl = disk.ctl /\ disk'.unit = disk.unit
        /\ disk'.config = disk.config /\ disk'.backups = both /\ disk'.cert = disk.cert
        /\ disk'.key = disk.key /\ disk'.site = disk.site /\ disk'.rollback = disk.rollback
        /\ disk'.stage = disk.stage /\ disk'.enabled = disk.enabled /\ disk'.active = disk.active
    BY <2>3 DEF Disk
  <2>6. Due = "backup-config" /\ before' = before /\ commands' = commands
    BY <2>1
  <2>7. Quiet /\ Effect /\ Checked /\ Spared
    BY <2>2, <2>4, <2>5, <2>6 DEF Quiet, Kept, Effect, Checked, Spared
  <2> QED
    BY <2>1, <2>7, SameCarried DEF Stepped, Succeeds
<1>2. CASE At("backup-old-config") /\ disk.config = None /\ Done(disk, job)
  <2>1. /\ Due = "backup-old-config" /\ disk' = disk
        /\ before' = before /\ commands' = commands /\ Same /\ Moved
    BY <1>2, DoneSteps
  <2>2. Quiet /\ Effect /\ Checked
    BY <1>2, <2>1, Parts DEF Quiet, Kept, Effect, Checked
  <2> QED
    BY <2>1, <2>2, SameCarried DEF Stepped, Succeeds
<1>3. CASE /\ disk.config # None
           /\ Write("backup-old-config", [disk EXCEPT !.backups = @ \cup {disk.config}])
  <2>1. /\ Due = "backup-old-config" /\ disk' = [disk EXCEPT !.backups = @ \cup {disk.config}]
        /\ before' = before /\ commands' = commands
        /\ (Same /\ Moved) \/ Fails
    BY <1>3, WriteSteps
  <2> DEFINE both == disk.backups \cup {disk.config}
  <2>2. both \in SUBSET Configs /\ disk.config \in both
    BY <1>3, <2>1, Parts DEF Disk
  <2>3. disk' = [disk EXCEPT !.backups = both] /\ disk \in Disk
    BY <2>1, Parts
  <2> HIDE DEF both
  <2>4. disk' \in Disk
    BY <2>2, <2>3 DEF Disk
  <2>5. /\ disk'.server = disk.server /\ disk'.ctl = disk.ctl /\ disk'.unit = disk.unit
        /\ disk'.config = disk.config /\ disk'.backups = both /\ disk'.cert = disk.cert
        /\ disk'.key = disk.key /\ disk'.site = disk.site /\ disk'.rollback = disk.rollback
        /\ disk'.stage = disk.stage /\ disk'.enabled = disk.enabled /\ disk'.active = disk.active
    BY <2>3 DEF Disk
  <2>6. Due = "backup-old-config" /\ before' = before /\ commands' = commands
    BY <2>1
  <2>7. Quiet /\ Effect /\ Checked /\ Spared
    BY <2>2, <2>4, <2>5, <2>6 DEF Quiet, Kept, Effect, Checked, Spared
  <2> QED
    BY <2>1, <2>7, SameCarried DEF Stepped, Succeeds
<1> QED
  BY <1>1, <1>2, <1>3 DEF BackupConfig

LEMMA DownloadStep ==
  ASSUME Typed, Download
  PROVE  Stepped
<1>1. PICK s \in Versions, c \in Versions : Done(disk, [job EXCEPT !.args.new = [server |-> s, ctl |-> c]])
  BY DEF Download
<1> DEFINE j == [job EXCEPT !.args.new = [server |-> s, ctl |-> c]]
<1>2. Running /\ Due = "download" /\ DOMAIN job = JobFields /\ job.args \in Args /\ job.snap \in Snaps /\ disk \in Disk
  BY DEF Download, At, Due, Typed
<1>3. /\ DOMAIN j = JobFields /\ j.op = job.op /\ j.undo = job.undo /\ j.undoing = job.undoing
      /\ j.snap = job.snap /\ j.args = [job.args EXCEPT !.new = [server |-> s, ctl |-> c]]
  BY <1>2 DEF JobFields
<1> HIDE DEF j
<1>4. /\ disk' = disk /\ before' = before /\ commands' = commands
      /\ DOMAIN job' = JobFields /\ job'.op = job.op /\ job'.undo = job.undo
      /\ job'.args = j.args /\ job'.snap = j.snap /\ Moved
  <2>1. Done(disk, j)
    BY <1>1 DEF j
  <2> QED
    BY <1>2, <1>3, <2>1, DoneMoves
<1>5. /\ j.args \in Args /\ j.args.tag = job.args.tag /\ j.args.tls = job.args.tls
      /\ j.args.dist = job.args.dist /\ j.args.cfg = job.args.cfg
  BY <1>2, <1>3 DEF Args, Pair
<1>6. Carried
  BY <1>2, <1>3, <1>4, <1>5 DEF Carried
<1>7. Quiet /\ Effect /\ Checked
  BY <1>2, <1>4 DEF Quiet, Kept, Effect, Checked
<1> QED
  BY <1>4, <1>6, <1>7 DEF Stepped, Succeeds

LEMMA EditorStep ==
  ASSUME Typed, Editor
  PROVE  Stepped
<1>1. PICK c \in Configs : Done(disk, [job EXCEPT !.args.cfg = c])
  BY DEF Editor
<1> DEFINE j == [job EXCEPT !.args.cfg = c]
<1>2. Running /\ Due = "editor" /\ DOMAIN job = JobFields /\ job.args \in Args /\ job.snap \in Snaps /\ disk \in Disk
  BY DEF Editor, At, Due, Typed
<1>3. /\ DOMAIN j = JobFields /\ j.op = job.op /\ j.undo = job.undo /\ j.undoing = job.undoing
      /\ j.snap = job.snap /\ j.args = [job.args EXCEPT !.cfg = c]
  BY <1>2 DEF JobFields
<1> HIDE DEF j
<1>4. /\ disk' = disk /\ before' = before /\ commands' = commands
      /\ DOMAIN job' = JobFields /\ job'.op = job.op /\ job'.undo = job.undo
      /\ job'.args = j.args /\ job'.snap = j.snap /\ Moved
  <2>1. Done(disk, j)
    BY <1>1 DEF j
  <2> QED
    BY <1>2, <1>3, <2>1, DoneMoves
<1>5. /\ j.args \in Args /\ j.args.tag = job.args.tag /\ j.args.tls = job.args.tls
      /\ j.args.dist = job.args.dist /\ j.args.new = job.args.new /\ j.args.cfg = c
  BY <1>2, <1>3 DEF Args
<1>6. Carried
  BY <1>2, <1>3, <1>4, <1>5 DEF Carried
<1>7. Quiet /\ Effect /\ Checked
  BY <1>2, <1>4 DEF Quiet, Kept, Effect, Checked
<1> QED
  BY <1>4, <1>6, <1>7 DEF Stepped, Succeeds

LEMMA SnapshotCertStep ==
  ASSUME Typed, At("snapshot-cert"), Done(disk, [job EXCEPT !.snap.cert = <<disk.cert>>])
  PROVE  Stepped
<1> DEFINE j == [job EXCEPT !.snap.cert = <<disk.cert>>]
<1>1. Running /\ Due = "snapshot-cert" /\ DOMAIN job = JobFields /\ job.args \in Args /\ job.snap \in Snaps /\ disk \in Disk
  BY DEF At, Due, Typed
<1>2. /\ DOMAIN j = JobFields /\ j.op = job.op /\ j.undo = job.undo /\ j.undoing = job.undoing
      /\ j.args = job.args /\ j.snap = [job.snap EXCEPT !.cert = <<disk.cert>>]
  BY <1>1 DEF JobFields
<1> HIDE DEF j
<1>3. /\ disk' = disk /\ before' = before /\ commands' = commands
      /\ DOMAIN job' = JobFields /\ job'.op = job.op /\ job'.undo = job.undo
      /\ job'.args = j.args /\ job'.snap = j.snap /\ Moved
  <2>1. Done(disk, j)
    BY DEF j
  <2> QED
    BY <1>1, <1>2, <2>1, DoneMoves
<1>4. <<disk.cert>> \in Snapshot(Idents \cup {None})
  BY <1>1 DEF Disk, Snapshot
<1>5. /\ j.snap \in Snaps /\ j.snap.cert = <<disk.cert>> /\ j.snap.key = job.snap.key /\ j.snap.site = job.snap.site /\ j.snap.siteIn = job.snap.siteIn
  <2> DEFINE x == <<disk.cert>>
  <2> HIDE DEF x
  <2>1. j.snap = [job.snap EXCEPT !.cert = x] /\ x \in Snapshot(Idents \cup {None})
    BY <1>2, <1>4 DEF x
  <2> HIDE DEF x
  <2>2. /\ j.snap \in Snaps /\ j.snap.cert = x /\ j.snap.key = job.snap.key /\ j.snap.site = job.snap.site /\ j.snap.siteIn = job.snap.siteIn
    BY <1>1, <2>1 DEF Snaps
  <2> QED
    BY <2>2 DEF x
<1>6. Carried
  BY <1>1, <1>2, <1>3, <1>5 DEF Carried
<1>7. Quiet /\ Effect /\ Checked
  BY <1>1, <1>3, Parts DEF Quiet, Kept, Effect, Checked, Disk
<1> QED
  BY <1>3, <1>6, <1>7 DEF Stepped, Succeeds

LEMMA SnapshotKeyStep ==
  ASSUME Typed, At("snapshot-key"), Done(disk, [job EXCEPT !.snap.key = <<disk.key>>])
  PROVE  Stepped
<1> DEFINE j == [job EXCEPT !.snap.key = <<disk.key>>]
<1>1. Running /\ Due = "snapshot-key" /\ DOMAIN job = JobFields /\ job.args \in Args /\ job.snap \in Snaps /\ disk \in Disk
  BY DEF At, Due, Typed
<1>2. /\ DOMAIN j = JobFields /\ j.op = job.op /\ j.undo = job.undo /\ j.undoing = job.undoing
      /\ j.args = job.args /\ j.snap = [job.snap EXCEPT !.key = <<disk.key>>]
  BY <1>1 DEF JobFields
<1> HIDE DEF j
<1>3. /\ disk' = disk /\ before' = before /\ commands' = commands
      /\ DOMAIN job' = JobFields /\ job'.op = job.op /\ job'.undo = job.undo
      /\ job'.args = j.args /\ job'.snap = j.snap /\ Moved
  <2>1. Done(disk, j)
    BY DEF j
  <2> QED
    BY <1>1, <1>2, <2>1, DoneMoves
<1>4. <<disk.key>> \in Snapshot(Idents \cup {None})
  BY <1>1 DEF Disk, Snapshot
<1>5. /\ j.snap \in Snaps /\ j.snap.key = <<disk.key>> /\ j.snap.cert = job.snap.cert /\ j.snap.site = job.snap.site /\ j.snap.siteIn = job.snap.siteIn
  <2> DEFINE x == <<disk.key>>
  <2> HIDE DEF x
  <2>1. j.snap = [job.snap EXCEPT !.key = x] /\ x \in Snapshot(Idents \cup {None})
    BY <1>2, <1>4 DEF x
  <2> HIDE DEF x
  <2>2. /\ j.snap \in Snaps /\ j.snap.key = x /\ j.snap.cert = job.snap.cert /\ j.snap.site = job.snap.site /\ j.snap.siteIn = job.snap.siteIn
    BY <1>1, <2>1 DEF Snaps
  <2> QED
    BY <2>2 DEF x
<1>6. Carried
  BY <1>1, <1>2, <1>3, <1>5 DEF Carried
<1>7. Quiet /\ Effect /\ Checked
  BY <1>1, <1>3, Parts DEF Quiet, Kept, Effect, Checked, Disk
<1> QED
  BY <1>3, <1>6, <1>7 DEF Stepped, Succeeds

LEMMA MoveSiteStep ==
  ASSUME Typed, At("site-out"), Done([disk EXCEPT !.site = None], [job EXCEPT !.snap.site = <<disk.site>>])
  PROVE  Stepped
<1> DEFINE j == [job EXCEPT !.snap.site = <<disk.site>>]
<1>1. Running /\ Due = "site-out" /\ DOMAIN job = JobFields /\ job.args \in Args /\ job.snap \in Snaps /\ disk \in Disk
  BY DEF At, Due, Typed
<1>2. /\ DOMAIN j = JobFields /\ j.op = job.op /\ j.undo = job.undo /\ j.undoing = job.undoing
      /\ j.args = job.args /\ j.snap = [job.snap EXCEPT !.site = <<disk.site>>]
  BY <1>1 DEF JobFields
<1> HIDE DEF j
<1>3. /\ disk' = [disk EXCEPT !.site = None] /\ before' = before /\ commands' = commands
      /\ DOMAIN job' = JobFields /\ job'.op = job.op /\ job'.undo = job.undo
      /\ job'.args = j.args /\ job'.snap = j.snap /\ Moved
  <2>1. Done([disk EXCEPT !.site = None], j)
    BY DEF j
  <2> QED
    BY <1>1, <1>2, <2>1, DoneMoves
<1>4. <<disk.site>> \in Snapshot(Sites \cup {Empty, None})
  BY <1>1 DEF Disk, Snapshot
<1>5. /\ j.snap \in Snaps /\ j.snap.site = <<disk.site>> /\ j.snap.cert = job.snap.cert /\ j.snap.key = job.snap.key /\ j.snap.siteIn = job.snap.siteIn
  <2> DEFINE x == <<disk.site>>
  <2> HIDE DEF x
  <2>1. j.snap = [job.snap EXCEPT !.site = x] /\ x \in Snapshot(Sites \cup {Empty, None})
    BY <1>2, <1>4 DEF x
  <2> HIDE DEF x
  <2>2. /\ j.snap \in Snaps /\ j.snap.site = x /\ j.snap.cert = job.snap.cert /\ j.snap.key = job.snap.key /\ j.snap.siteIn = job.snap.siteIn
    BY <1>1, <2>1 DEF Snaps
  <2> QED
    BY <2>2 DEF x
<1>6. Carried
  BY <1>1, <1>2, <1>3, <1>5 DEF Carried
<1>7. Quiet /\ Effect /\ Checked
  BY <1>1, <1>3, Parts DEF Quiet, Kept, Effect, Checked, Disk
<1> QED
  BY <1>3, <1>6, <1>7 DEF Stepped, Succeeds

LEMMA PlaceSiteStep ==
  ASSUME Typed, At("site-in"), Done([disk EXCEPT !.site = job.args.dist], [job EXCEPT !.snap.siteIn = TRUE])
  PROVE  Stepped
<1> DEFINE j == [job EXCEPT !.snap.siteIn = TRUE]
<1>1. Running /\ Due = "site-in" /\ DOMAIN job = JobFields /\ job.args \in Args /\ job.snap \in Snaps /\ disk \in Disk
  BY DEF At, Due, Typed
<1>2. /\ DOMAIN j = JobFields /\ j.op = job.op /\ j.undo = job.undo /\ j.undoing = job.undoing
      /\ j.args = job.args /\ j.snap = [job.snap EXCEPT !.siteIn = TRUE]
  BY <1>1 DEF JobFields
<1> HIDE DEF j
<1>3. /\ disk' = [disk EXCEPT !.site = job.args.dist] /\ before' = before /\ commands' = commands
      /\ DOMAIN job' = JobFields /\ job'.op = job.op /\ job'.undo = job.undo
      /\ job'.args = j.args /\ job'.snap = j.snap /\ Moved
  <2>1. Done([disk EXCEPT !.site = job.args.dist], j)
    BY DEF j
  <2> QED
    BY <1>1, <1>2, <2>1, DoneMoves
<1>4. TRUE \in BOOLEAN
  BY <1>1 DEF Disk, Snapshot
<1>5. /\ j.snap \in Snaps /\ j.snap.siteIn = TRUE /\ j.snap.cert = job.snap.cert /\ j.snap.key = job.snap.key /\ j.snap.site = job.snap.site
  <2> DEFINE x == TRUE
  <2> HIDE DEF x
  <2>1. j.snap = [job.snap EXCEPT !.siteIn = x] /\ x \in BOOLEAN
    BY <1>2, <1>4 DEF x
  <2> HIDE DEF x
  <2>2. /\ j.snap \in Snaps /\ j.snap.siteIn = x /\ j.snap.cert = job.snap.cert /\ j.snap.key = job.snap.key /\ j.snap.site = job.snap.site
    BY <1>1, <2>1 DEF Snaps
  <2> QED
    BY <2>2 DEF x
<1>6. Carried
  BY <1>1, <1>2, <1>3, <1>5 DEF Carried
<1>7. Quiet /\ Effect /\ Checked
  BY <1>1, <1>3, Parts DEF Quiet, Kept, Effect, Checked, Disk
<1> QED
  BY <1>3, <1>6, <1>7 DEF Stepped, Succeeds

LEMMA FailStep ==
  ASSUME Typed, Fail
  PROVE  Stepped
<1>1. /\ Running /\ DOMAIN job = JobFields /\ interrupted \in BOOLEAN /\ Error /\ disk \in Disk
      /\ before' = before /\ commands' = commands
      /\ disk' = IF Due \in {"restart", "is-active"} THEN [disk EXCEPT !.active = None] ELSE disk
  BY DEF Fail, Typed, Due
<1>2. Quiet /\ Spared
  BY <1>1 DEF Quiet, Kept, Disk, Spared
<1> QED
  BY <1>1, <1>2, ErrorFails DEF Stepped

LEMMA DieStep ==
  ASSUME Typed, Die
  PROVE  Stepped
<1>1. DOMAIN job = JobFields /\ disk \in Disk
  BY DEF Typed
<1>2. Same /\ Dies
  BY <1>1 DEF Die, Same, Dies, JobFields
<1>3. Quiet
  BY <1>1 DEF Quiet, Kept, Die
<1> QED
  BY <1>2, <1>3 DEF Stepped

\* A step of a command that runs is a call that succeeds, fails, or is never made.
LEMMA StepTaken ==
  ASSUME Typed, Running, Legal, Next
  PROVE  Stepped
<1>1. ~Command
  BY DEF Command, Install, Update, Rollback, Edit, Repair, Uninstall, Service, Begin
<1>2. CASE SnapshotTls
  BY <1>2, SnapshotCertStep, SnapshotKeyStep DEF SnapshotTls
<1>3. CASE SiteOut
  BY <1>3, MoveSiteStep DEF SiteOut
<1>4. CASE SiteIn
  BY <1>4, PlaceSiteStep DEF SiteIn
<1> QED
  BY <1>1, <1>2, <1>3, <1>4, FailStep, DieStep, VerifyStep, CheckConfigStep, ValidateReleaseStep,
     DownloadStep, DirectoriesStep, StageServerStep, StageCtlStep, DropRollbackStep,
     NameRollbackStep, CopyServerStep, CopyCtlStep, RestoreServerStep, RestoreCtlStep,
     UnstageStep, WriteUnitStep, EnableStep, DisableStep, RestartStep, EditorStep,
     BackupConfigStep, InstallConfigStep, RestoreConfigStep, CopyTlsStep, RestoreResourcesStep,
     RemoveStep, PurgeStep DEF Next

-------------------------------------------------------------------------------
(* Where a command is, and what it does there.                               *)

Calls(n, do, on) == Left = n => Due = do /\ On = on

LEMMA AtPlace ==
  ASSUME Typed, InScript, Running, job.op \in Restores \cup {"repair"},
         NEW s \in Seq(Call), s = Script
  PROVE  /\ Left \in 1 .. Len(s) /\ job.todo = Rest(s, Left) /\ Head(job.todo) = End(s, Left)
         /\ Tail(job.todo) = Rest(s, Left - 1)
         /\ \A do, on : End(s, Left) = Step(do, on) => Due = do /\ On = on
<1>1. job.todo \in Seq(Call) /\ job.todo # <<>>
  BY DEF Typed, Running
<1>2. Left \in Nat /\ Left # 0
  BY <1>1 DEF Left
<1>3. Left <= Len(s) /\ job.todo = Rest(s, Left) /\ Len(s) \in Nat
  BY DEF InScript
<1>4. Left \in 1 .. Len(s)
  BY <1>2, <1>3
<1>5. Head(job.todo) = End(s, Left) /\ Tail(job.todo) = Rest(s, Left - 1)
  BY <1>3, <1>4, RestTail
<1> QED
  BY <1>3, <1>4, <1>5 DEF Due, On, Step

LEMMA UpdatePlace ==
  ASSUME Typed, InScript, Running, job.op = "update", ~job.undoing
  PROVE  /\ Script = UpdateScript /\ Left \in 1 .. 18
         /\ Calls(18, "download", "abort") /\ Calls(17, "validate-new", "abort")
         /\ Calls(16, "stage-server", "abort") /\ Calls(15, "stage-ctl", "abort")
         /\ Calls(14, "drop-rollback", "abort") /\ Calls(13, "name-rollback", "abort")
         /\ Calls(12, "copy-server", "undo") /\ Calls(11, "copy-ctl", "undo")
         /\ Calls(10, "account", "undo") /\ Calls(9, "directories", "undo")
         /\ Calls(8, "check-config", "undo") /\ Calls(7, "verify-installed", "undo")
         /\ Calls(6, "write-unit", "undo") /\ Calls(5, "chown", "undo")
         /\ Calls(4, "daemon-reload", "undo") /\ Calls(3, "enable", "undo")
         /\ Calls(2, "restart", "undo") /\ Calls(1, "is-active", "undo")
<1>1. Script = UpdateScript /\ job.op \in Restores \cup {"repair"}
  BY DEF Script, Main, Restores
<1>2. UpdateScript \in Seq(Call) /\ Len(UpdateScript) = 18
  BY UpdateCalls
<1>3. /\ Left \in 1 .. 18
      /\ \A do, on : End(UpdateScript, Left) = Step(do, on) => Due = do /\ On = on
  BY <1>1, <1>2, AtPlace
<1> QED
  BY <1>1, <1>3, UpdateCalls DEF Calls

LEMMA UpdateUndoPlace ==
  ASSUME Typed, InScript, Running, job.op = "update", job.undoing
  PROVE  /\ Script = UpdateUndo /\ Left \in 1 .. 11
         /\ Calls(11, "restore-server", "abort") /\ Calls(10, "restore-ctl", "abort")
         /\ Calls(9, "account", "skip") /\ Calls(8, "directories", "skip")
         /\ Calls(7, "check-config", "skip") /\ Calls(6, "verify-installed", "skip")
         /\ Calls(5, "write-unit", "skip") /\ Calls(4, "chown", "skip")
         /\ Calls(3, "daemon-reload", "skip") /\ Calls(2, "enable", "skip")
         /\ Calls(1, "restart", "ignore")
<1>1. Script = UpdateUndo /\ job.op \in Restores \cup {"repair"}
  BY DEF Script, Undo, Restores
<1>2. UpdateUndo \in Seq(Call) /\ Len(UpdateUndo) = 11
  BY UpdateUndoCalls
<1>3. /\ Left \in 1 .. 11
      /\ \A do, on : End(UpdateUndo, Left) = Step(do, on) => Due = do /\ On = on
  BY <1>1, <1>2, AtPlace
<1> QED
  BY <1>1, <1>3, UpdateUndoCalls DEF Calls

LEMMA RollbackPlace ==
  ASSUME Typed, InScript, Running, job.op = "rollback", ~job.undoing
  PROVE  /\ Script = RollbackScript /\ Left \in 1 .. 17
         /\ Calls(17, "validate-rollback", "abort") /\ Calls(16, "stage-server", "abort")
         /\ Calls(15, "stage-ctl", "abort") /\ Calls(14, "restore-server", "undo")
         /\ Calls(13, "restore-ctl", "undo") /\ Calls(12, "account", "undo")
         /\ Calls(11, "directories", "undo") /\ Calls(10, "check-config", "undo")
         /\ Calls(9, "verify-installed", "undo") /\ Calls(8, "write-unit", "undo")
         /\ Calls(7, "chown", "undo") /\ Calls(6, "daemon-reload", "undo")
         /\ Calls(5, "enable", "undo") /\ Calls(4, "restart", "undo")
         /\ Calls(3, "is-active", "undo") /\ Calls(2, "drop-rollback", "abort")
         /\ Calls(1, "name-rollback", "abort")
<1>1. Script = RollbackScript /\ job.op \in Restores \cup {"repair"}
  BY DEF Script, Main, Restores
<1>2. RollbackScript \in Seq(Call) /\ Len(RollbackScript) = 17
  BY RollbackCalls
<1>3. /\ Left \in 1 .. 17
      /\ \A do, on : End(RollbackScript, Left) = Step(do, on) => Due = do /\ On = on
  BY <1>1, <1>2, AtPlace
<1> QED
  BY <1>1, <1>3, RollbackCalls DEF Calls

LEMMA RollbackUndoPlace ==
  ASSUME Typed, InScript, Running, job.op = "rollback", job.undoing
  PROVE  /\ Script = RollbackUndo /\ Left \in 1 .. 11
         /\ Calls(11, "unstage-server", "abort") /\ Calls(10, "unstage-ctl", "abort")
         /\ Calls(9, "account", "skip") /\ Calls(8, "directories", "skip")
         /\ Calls(7, "check-config", "skip") /\ Calls(6, "verify-installed", "skip")
         /\ Calls(5, "write-unit", "skip") /\ Calls(4, "chown", "skip")
         /\ Calls(3, "daemon-reload", "skip") /\ Calls(2, "enable", "skip")
         /\ Calls(1, "restart", "ignore")
<1>1. Script = RollbackUndo /\ job.op \in Restores \cup {"repair"}
  BY DEF Script, Undo, Restores
<1>2. RollbackUndo \in Seq(Call) /\ Len(RollbackUndo) = 11
  BY RollbackUndoCalls
<1>3. /\ Left \in 1 .. 11
      /\ \A do, on : End(RollbackUndo, Left) = Step(do, on) => Due = do /\ On = on
  BY <1>1, <1>2, AtPlace
<1> QED
  BY <1>1, <1>3, RollbackUndoCalls DEF Calls

LEMMA EditPlace ==
  ASSUME Typed, InScript, Running, job.op = "edit", ~job.undoing
  PROVE  /\ Script = EditScript /\ Left \in 1 .. 7
         /\ Calls(7, "check-config", "abort") /\ Calls(6, "editor", "abort")
         /\ Calls(5, "check-edited", "abort") /\ Calls(4, "backup-config", "abort")
         /\ Calls(3, "install-config", "abort") /\ Calls(2, "chown", "abort")
         /\ Calls(1, "restart", "undo")
<1>1. Script = EditScript /\ job.op \in Restores \cup {"repair"}
  BY DEF Script, Main, Restores
<1>2. EditScript \in Seq(Call) /\ Len(EditScript) = 7
  BY EditCalls
<1>3. /\ Left \in 1 .. 7
      /\ \A do, on : End(EditScript, Left) = Step(do, on) => Due = do /\ On = on
  BY <1>1, <1>2, AtPlace
<1> QED
  BY <1>1, <1>3, EditCalls DEF Calls

LEMMA EditUndoPlace ==
  ASSUME Typed, InScript, Running, job.op = "edit", job.undoing
  PROVE  /\ Script = EditUndo /\ Left \in 1 .. 3
         /\ Calls(3, "restore-config", "abort") /\ Calls(2, "chown", "abort")
         /\ Calls(1, "restart", "ignore")
<1>1. Script = EditUndo /\ job.op \in Restores \cup {"repair"}
  BY DEF Script, Undo, Restores
<1>2. EditUndo \in Seq(Call) /\ Len(EditUndo) = 3
  BY EditUndoCalls
<1>3. /\ Left \in 1 .. 3
      /\ \A do, on : End(EditUndo, Left) = Step(do, on) => Due = do /\ On = on
  BY <1>1, <1>2, AtPlace
<1> QED
  BY <1>1, <1>3, EditUndoCalls DEF Calls

LEMMA RepairPlace ==
  ASSUME Typed, InScript, Running, job.op = "repair", ~job.undoing
  PROVE  /\ Script = RepairScript /\ Left \in 1 .. 9
         /\ Calls(9, "account", "abort") /\ Calls(8, "directories", "abort")
         /\ Calls(7, "check-config", "abort") /\ Calls(6, "verify-installed", "abort")
         /\ Calls(5, "write-unit", "abort") /\ Calls(4, "chown", "abort")
         /\ Calls(3, "daemon-reload", "abort") /\ Calls(2, "enable", "abort")
         /\ Calls(1, "restart", "abort")
<1>1. Script = RepairScript /\ job.op \in Restores \cup {"repair"}
  BY DEF Script, Main, Restores
<1>2. RepairScript \in Seq(Call) /\ Len(RepairScript) = 9
  BY RepairCalls
<1>3. /\ Left \in 1 .. 9
      /\ \A do, on : End(RepairScript, Left) = Step(do, on) => Due = do /\ On = on
  BY <1>1, <1>2, AtPlace
<1> QED
  BY <1>1, <1>3, RepairCalls DEF Calls

LEMMA InstallUndoPlace ==
  ASSUME Typed, InScript, Running, job.op \in Installs, job.undoing
  PROVE  /\ Script = InstallUndo /\ Left \in 1 .. 5
         /\ Calls(5, "site-back", "ignore") /\ Calls(4, "site-remove", "abort")
         /\ Calls(3, "site-restore", "abort") /\ Calls(2, "key-back", "abort")
         /\ Calls(1, "cert-back", "abort")
<1>1. Script = InstallUndo /\ job.op \in Restores \cup {"repair"}
  BY DEF Script, Undo, Restores, Installs
<1>2. InstallUndo \in Seq(Call) /\ Len(InstallUndo) = 5
  BY InstallUndoCalls
<1>3. /\ Left \in 1 .. 5
      /\ \A do, on : End(InstallUndo, Left) = Step(do, on) => Due = do /\ On = on
  BY <1>1, <1>2, AtPlace
<1> QED
  BY <1>1, <1>3, InstallUndoCalls DEF Calls

LEMMA InstallPlace ==
  ASSUME Typed, InScript, Running, job.op \in Installs, ~job.undoing
  PROVE  /\ Script = InstallScript(job.args.tls # <<>>, job.args.dist # None, Wanted)
         /\ Left \in 1 .. After + ForSite + ForTls + 4
         /\ Calls(After + ForSite + ForTls + 4, "verify-new", "abort")
         /\ Calls(After + ForSite + ForTls + 3, "account", "abort")
         /\ Calls(After + ForSite + ForTls + 2, "directories", "abort")
         /\ Calls(After + ForSite + ForTls + 1, "select-config", "abort")
         /\ job.args.tls # <<>> =>
              /\ Calls(After + ForSite + 4, "snapshot-cert", "abort")
              /\ Calls(After + ForSite + 3, "copy-cert", "undo")
              /\ Calls(After + ForSite + 2, "snapshot-key", "undo")
              /\ Calls(After + ForSite + 1, "copy-key", "undo")
         /\ job.args.dist # None =>
              /\ Calls(After + 3, "stage-site", "undo")
              /\ Calls(After + 2, "site-out", "undo") /\ Calls(After + 1, "site-in", "undo")
         /\ Calls(After, "check-candidate", "undo")
         /\ Calls(After - 1, "backup-old-config", "abort")
         /\ Calls(After - 2, "install-config", "abort")
         /\ Calls(After - 3, "copy-server", "abort")
         /\ Calls(After - 4, "copy-ctl", "abort") /\ Calls(After - 5, "write-unit", "abort")
         /\ Calls(After - 6, "chown", "abort") /\ Calls(After - 7, "check-config", "abort")
         /\ Calls(After - 8, "daemon-reload", "abort")
         /\ Wanted => /\ Calls(3, "enable", "abort") /\ Calls(2, "restart", "abort")
                      /\ Calls(1, "is-active", "abort")
<1> DEFINE tls == job.args.tls # <<>>
<1> DEFINE dist == job.args.dist # None
<1> DEFINE s == InstallScript(tls, dist, Wanted)
<1>1. Script = s /\ job.op \in Restores \cup {"repair"}
  BY DEF Script, Main, Restores, Installs
<1>2. tls \in BOOLEAN /\ dist \in BOOLEAN /\ Wanted \in BOOLEAN
  BY DEF Wanted
<1>3. /\ After = (IF Wanted THEN 12 ELSE 9) /\ ForSite = (IF dist THEN 3 ELSE 0)
      /\ ForTls = (IF tls THEN 4 ELSE 0)
  BY DEF After, ForSite, ForTls
<1> HIDE DEF s
<1>4. s = InstallScript(tls, dist, Wanted)
  BY DEF s
<1> HIDE DEF tls, dist
<1>5. InstallTable(s, tls, dist, Wanted, After, ForSite, ForTls)
  BY <1>2, <1>3, <1>4, InstallCalls
<1>6. /\ Left \in 1 .. Len(s)
      /\ \A do, on : End(s, Left) = Step(do, on) => Due = do /\ On = on
  BY <1>1, <1>5, AtPlace DEF InstallTable
<1> QED
  BY <1>1, <1>4, <1>5, <1>6 DEF Calls, InstallTable, tls, dist

-------------------------------------------------------------------------------
(* Every command keeps what holds at its place.                              *)

LEMMA Counts ==
  ASSUME Typed, Running
  PROVE  /\ Left \in Nat \ {0}
         /\ Moved \/ Ignores => Left' = Left - 1
         /\ Skips => Left' \in 0 .. Left
<1>1. job.todo \in Seq(Call) /\ job.todo # <<>>
  BY DEF Typed, Running
<1>2. Left \in Nat \ {0}
  BY <1>1 DEF Left
<1>3. Tail(job.todo) \in Seq(Call) /\ Len(Tail(job.todo)) = Left - 1
  BY <1>1 DEF Left
<1>4. Moved \/ Ignores => Left' = Left - 1
  BY <1>3 DEF Moved, Ignores, Left
<1>5. ASSUME Skips PROVE Left' \in 0 .. Left
  <2>1. PICK k \in 1 .. Len(job.todo) + 1 : job'.todo = SubSeq(job.todo, k, Len(job.todo))
    BY <1>5 DEF Skips
  <2> QED
    BY <1>1, <2>1 DEF Left
<1> QED
  BY <1>2, <1>4, <1>5

LEMMA PairIs ==
  ASSUME NEW p \in Pair
  PROVE  p = [server |-> p.server, ctl |-> p.ctl]
  BY DEF Pair

LEMMA UsableKept ==
  ASSUME Usable, Kept,
         Due \notin {"copy-ctl", "restore-ctl", "unstage-ctl", "remove-ctl", "install-config",
                     "restore-config", "purge-config", "copy-cert", "cert-back", "copy-key", "key-back"}
  PROVE  Usable'
  BY DEF Usable, Kept, Accepts

LEMMA UpdateGoesOn ==
  ASSUME Typed, InScript, UpdateForth, Running, job.op = "update", ~job.undoing, Quiet, Succeeds
  PROVE  UpdateForth' /\ UpdateBack'
<1>1. /\ Left \in 1 .. 18 /\ Left' = Left - 1
  BY UpdatePlace, Counts DEF Succeeds
<1>2. /\ Calls(17, "validate-new", "abort") /\ Calls(16, "stage-server", "abort")
      /\ Calls(15, "stage-ctl", "abort") /\ Calls(14, "drop-rollback", "abort")
      /\ Calls(13, "name-rollback", "abort") /\ Calls(12, "copy-server", "undo")
      /\ Calls(11, "copy-ctl", "undo") /\ Calls(10, "account", "undo")
      /\ Calls(9, "directories", "undo") /\ Calls(8, "check-config", "undo")
      /\ Calls(7, "verify-installed", "undo") /\ Calls(6, "write-unit", "undo")
      /\ Calls(5, "chown", "undo") /\ Calls(4, "daemon-reload", "undo")
      /\ Calls(3, "enable", "undo") /\ Calls(2, "restart", "undo")
      /\ Calls(1, "is-active", "undo") /\ Calls(18, "download", "abort")
  BY UpdatePlace
<1>3. Forth({"update"})
  BY DEF Forth
<1>4. /\ before' = before /\ job'.args.tag = job.args.tag /\ Kept /\ Effect /\ Checked /\ Carried
      /\ job'.undoing = job.undoing
  BY DEF Quiet, Succeeds, Carried, Moved
<1>5. Left' >= 12 => disk'.server = before.server
  BY <1>1, <1>2, <1>3, <1>4 DEF UpdateForth, Calls, Kept
<1>6. Left' >= 11 => disk'.ctl = before.ctl
  BY <1>1, <1>2, <1>3, <1>4 DEF UpdateForth, Calls, Kept
<1>7. Left' <= 16 => job'.args.tag # None /\ job'.args.new = [server |-> job'.args.tag, ctl |-> job'.args.tag]
  <2>1. CASE Left = 17
    <3>1. job.args.new \in Pair
      BY DEF Typed, Args
    <3> QED
      BY <1>2, <1>4, <2>1, <3>1, PairIs DEF Calls, Checked, Carried, Matched
  <2>2. CASE Left <= 16
    BY <1>1, <1>2, <1>3, <1>4, <2>2 DEF UpdateForth, Calls, Carried
  <2> QED
    BY <1>1, <2>1, <2>2
<1>8. Left' \in 13 .. 15 => disk'.stage.server = before.server
  BY <1>1, <1>2, <1>3, <1>4 DEF UpdateForth, Calls, Kept, Effect
<1>9. Left' \in 13 .. 14 => disk'.stage.ctl = before.ctl
  BY <1>1, <1>2, <1>3, <1>4 DEF UpdateForth, Calls, Kept, Effect
<1>10. Left' <= 12 => disk'.rollback = Installed(before)
  <2>1. CASE Left = 13
    <3>1. disk.stage \in Pair
      BY DEF Typed, Disk
    <3> QED
      BY <1>2, <1>3, <1>4, <2>1, <3>1, PairIs DEF UpdateForth, Calls, Effect, Installed
  <2>2. CASE Left <= 12
    BY <1>1, <1>2, <1>3, <1>4, <2>2 DEF UpdateForth, Calls, Kept
  <2> QED
    BY <1>1, <2>1, <2>2
<1>11. Left' <= 11 => disk'.server = job.args.tag
  BY <1>1, <1>2, <1>3, <1>4 DEF UpdateForth, Calls, Kept, Effect
<1>12. Left' <= 10 => disk'.ctl = job.args.tag
  BY <1>1, <1>2, <1>3, <1>4 DEF UpdateForth, Calls, Kept, Effect
<1>13. Left' <= 7 => Usable'
  <2>1. ASSUME Left' <= 7 PROVE Usable
    BY <1>1, <1>2, <1>3, <1>4, <2>1 DEF UpdateForth, Calls, Checked
  <2> QED
    BY <1>1, <1>2, <1>4, <2>1, UsableKept DEF Calls
<1>14. Left' <= 5 => disk'.unit = disk'.ctl
  BY <1>1, <1>2, <1>3, <1>4 DEF UpdateForth, Calls, Kept, Effect
<1>15. Left' <= 2 => disk'.enabled
  BY <1>1, <1>2, <1>3, <1>4 DEF UpdateForth, Calls, Kept, Effect
<1>16. Left' <= 1 => disk'.active = disk'.server
  BY <1>1, <1>2, <1>3, <1>4 DEF UpdateForth, Calls, Kept, Effect
<1>17. UpdateForth'
  BY <1>4, <1>5, <1>6, <1>7, <1>8, <1>9, <1>10, <1>11, <1>12, <1>13, <1>14, <1>15, <1>16
     DEF UpdateForth
<1>18. UpdateBack'
  BY <1>4 DEF UpdateBack, Back
<1> QED
  BY <1>17, <1>18

LEMMA StopsThere ==
  ASSUME Aborts \/ Dies
  PROVE  ~Running' /\ job'.outcome # "ok" /\ job'.outcome # "restored"
  BY DEF Aborts, Dies, Running

LEMMA UpdateTurnsBack ==
  ASSUME Typed, InScript, UpdateForth, Running, job.op = "update", ~job.undoing, Quiet, Undoes
  PROVE  UpdateForth' /\ UpdateBack'
<1>1. /\ Left \in 1 .. 12 /\ Due \notin {"drop-rollback", "name-rollback", "stage-server", "stage-ctl", "purge-manager"}
  BY UpdatePlace DEF Calls, Undoes
<1>2. job'.todo = UpdateUndo /\ Left' = 11 /\ job'.undoing /\ before' = before /\ Kept
  BY UpdateUndoCalls DEF Undoes, InScript, Restores, Undo, Left, Quiet
<1>3. Forth({"update"})
  BY DEF Forth
<1>4. disk'.rollback = Installed(before)
  BY <1>1, <1>2, <1>3 DEF UpdateForth, Kept
<1> QED
  BY <1>2, <1>4 DEF UpdateForth, UpdateBack, Forth

LEMMA UpdateComesBack ==
  ASSUME Typed, InScript, UpdateBack, Running, job.op = "update", job.undoing, Quiet,
         Succeeds \/ Ignores \/ Skips
  PROVE  UpdateForth' /\ UpdateBack'
<1>1. Left \in 1 .. 11 /\ Left' \in 0 .. Left /\ (Succeeds \/ Ignores => Left' = Left - 1)
  BY UpdateUndoPlace, Counts DEF Succeeds
<1>2. /\ Calls(11, "restore-server", "abort") /\ Calls(10, "restore-ctl", "abort")
      /\ Calls(9, "account", "skip") /\ Calls(8, "directories", "skip")
      /\ Calls(7, "check-config", "skip") /\ Calls(6, "verify-installed", "skip")
      /\ Calls(5, "write-unit", "skip") /\ Calls(4, "chown", "skip")
      /\ Calls(3, "daemon-reload", "skip") /\ Calls(2, "enable", "skip")
      /\ Calls(1, "restart", "ignore")
  BY UpdateUndoPlace
<1>3. Back({"update"}) /\ before' = before /\ Kept /\ job'.undoing
  BY DEF Back, Quiet, Succeeds, Moved, Ignores, Skips
<1>4. Left' <= 10 => disk'.server = before.server
  BY <1>1, <1>2, <1>3 DEF UpdateBack, Calls, Kept, Succeeds, Effect, Ignores, Skips, Installed
<1>5. Left' <= 9 => disk'.ctl = before.ctl
  BY <1>1, <1>2, <1>3 DEF UpdateBack, Calls, Kept, Succeeds, Effect, Ignores, Skips, Installed
<1>6. disk'.rollback = disk.rollback /\ disk'.stage = disk.stage
  BY <1>1, <1>2, <1>3 DEF Calls, Kept
<1> QED
  BY <1>3, <1>4, <1>5, <1>6 DEF UpdateForth, UpdateBack, Forth

LEMMA UpdateKeeps ==
  ASSUME Typed, InScript, UpdateForth, UpdateBack, Running, job.op = "update", Stepped
  PROVE  UpdateForth' /\ UpdateBack'
<1>1. CASE Aborts \/ Dies
  BY <1>1, StopsThere DEF UpdateForth, UpdateBack, Forth, Back
<1>2. CASE ~job.undoing /\ (Succeeds \/ Undoes)
  BY <1>2, UpdateGoesOn, UpdateTurnsBack DEF Stepped
<1>3. CASE job.undoing /\ (Succeeds \/ Ignores \/ Skips)
  BY <1>3, UpdateComesBack DEF Stepped
<1>4. ASSUME ~job.undoing PROVE ~Ignores /\ ~Skips
  BY <1>4, UpdatePlace DEF Calls, Ignores, Skips
<1>5. ASSUME job.undoing PROVE ~Undoes
  BY <1>5, UpdateUndoPlace DEF Calls, Undoes
<1> QED
  BY <1>1, <1>2, <1>3, <1>4, <1>5 DEF Stepped, Fails

LEMMA RollbackGoesOn ==
  ASSUME Typed, InScript, RollbackForth, Running, job.op = "rollback", ~job.undoing, Quiet, Succeeds
  PROVE  RollbackForth' /\ RollbackBack'
<1>1. /\ Left \in 1 .. 17 /\ Left' = Left - 1
  BY RollbackPlace, Counts DEF Succeeds
<1>2. /\ Calls(17, "validate-rollback", "abort") /\ Calls(16, "stage-server", "abort")
      /\ Calls(15, "stage-ctl", "abort") /\ Calls(14, "restore-server", "undo")
      /\ Calls(13, "restore-ctl", "undo") /\ Calls(12, "account", "undo")
      /\ Calls(11, "directories", "undo") /\ Calls(10, "check-config", "undo")
      /\ Calls(9, "verify-installed", "undo") /\ Calls(8, "write-unit", "undo")
      /\ Calls(7, "chown", "undo") /\ Calls(6, "daemon-reload", "undo")
      /\ Calls(5, "enable", "undo") /\ Calls(4, "restart", "undo")
      /\ Calls(3, "is-active", "undo") /\ Calls(2, "drop-rollback", "abort")
      /\ Calls(1, "name-rollback", "abort")
  BY RollbackPlace
<1>3. Forth({"rollback"})
  BY DEF Forth
<1>4. before' = before /\ Kept /\ Effect /\ Checked /\ job'.undoing = job.undoing
  BY DEF Quiet, Succeeds, Moved
<1>5. Left' >= 14 => disk'.server = before.server
  BY <1>1, <1>2, <1>3, <1>4 DEF RollbackForth, Calls, Kept
<1>6. Left' >= 13 => disk'.ctl = before.ctl
  BY <1>1, <1>2, <1>3, <1>4 DEF RollbackForth, Calls, Kept
<1>7. Left' >= 2 => disk'.rollback = before.rollback
  BY <1>1, <1>2, <1>3, <1>4 DEF RollbackForth, Calls, Kept
<1>8. Left' <= 16 => Matched(before.rollback)
  BY <1>1, <1>2, <1>3, <1>4 DEF RollbackForth, Calls, Checked
<1>9. Left' \in 1 .. 15 => disk'.stage.server = before.server
  BY <1>1, <1>2, <1>3, <1>4 DEF RollbackForth, Calls, Kept, Effect
<1>10. Left' \in 1 .. 14 => disk'.stage.ctl = before.ctl
  BY <1>1, <1>2, <1>3, <1>4 DEF RollbackForth, Calls, Kept, Effect
<1>11. Left' <= 13 => disk'.server = before.rollback.server
  BY <1>1, <1>2, <1>3, <1>4 DEF RollbackForth, Calls, Kept, Effect
<1>12. Left' <= 12 => disk'.ctl = before.rollback.ctl
  BY <1>1, <1>2, <1>3, <1>4 DEF RollbackForth, Calls, Kept, Effect
<1>13. Left' <= 9 => Usable'
  <2>1. ASSUME Left' <= 9 PROVE Usable
    BY <1>1, <1>2, <1>3, <1>4, <2>1 DEF RollbackForth, Calls, Checked
  <2> QED
    BY <1>1, <1>2, <1>4, <2>1, UsableKept DEF Calls
<1>14. Left' <= 7 => disk'.unit = disk'.ctl
  BY <1>1, <1>2, <1>3, <1>4 DEF RollbackForth, Calls, Kept, Effect
<1>15. Left' <= 4 => disk'.enabled
  BY <1>1, <1>2, <1>3, <1>4 DEF RollbackForth, Calls, Kept, Effect
<1>16. Left' <= 3 => disk'.active = disk'.server
  BY <1>1, <1>2, <1>3, <1>4 DEF RollbackForth, Calls, Kept, Effect
<1>17. Left' = 0 => disk'.rollback = Installed(before)
  <2>1. disk.stage \in Pair
    BY DEF Typed, Disk
  <2> QED
    BY <1>1, <1>2, <1>3, <1>4, <2>1, PairIs DEF RollbackForth, Calls, Effect, Installed
<1>18. RollbackForth'
  BY <1>4, <1>5, <1>6, <1>7, <1>8, <1>9, <1>10, <1>11, <1>12, <1>13, <1>14, <1>15, <1>16, <1>17
     DEF RollbackForth
<1>19. RollbackBack'
  BY <1>4 DEF RollbackBack, Back
<1> QED
  BY <1>18, <1>19

LEMMA RollbackTurnsBack ==
  ASSUME Typed, InScript, RollbackForth, Running, job.op = "rollback", ~job.undoing, Quiet, Undoes
  PROVE  RollbackForth' /\ RollbackBack'
<1>1. /\ Left \in 3 .. 14 /\ Due \notin {"drop-rollback", "name-rollback", "stage-server", "stage-ctl", "purge-manager"}
  BY RollbackPlace DEF Calls, Undoes
<1>2. job'.todo = RollbackUndo /\ Left' = 11 /\ job'.undoing /\ before' = before /\ Kept
  BY RollbackUndoCalls DEF Undoes, InScript, Restores, Undo, Left, Quiet
<1>3. Forth({"rollback"})
  BY DEF Forth
<1>4. disk'.rollback = before.rollback /\ Matched(before.rollback)
  BY <1>1, <1>2, <1>3 DEF RollbackForth, Kept
<1>5. disk'.stage = Installed(before)
  <2>1. disk.stage \in Pair
    BY DEF Typed, Disk
  <2> QED
    BY <1>1, <1>2, <1>3, <2>1, PairIs DEF RollbackForth, Kept, Installed
<1> QED
  BY <1>2, <1>4, <1>5 DEF RollbackForth, RollbackBack, Forth

LEMMA RollbackComesBack ==
  ASSUME Typed, InScript, RollbackBack, Running, job.op = "rollback", job.undoing, Quiet,
         Succeeds \/ Ignores \/ Skips
  PROVE  RollbackForth' /\ RollbackBack'
<1>1. Left \in 1 .. 11 /\ Left' \in 0 .. Left /\ (Succeeds \/ Ignores => Left' = Left - 1)
  BY RollbackUndoPlace, Counts DEF Succeeds
<1>2. /\ Calls(11, "unstage-server", "abort") /\ Calls(10, "unstage-ctl", "abort")
      /\ Calls(9, "account", "skip") /\ Calls(8, "directories", "skip")
      /\ Calls(7, "check-config", "skip") /\ Calls(6, "verify-installed", "skip")
      /\ Calls(5, "write-unit", "skip") /\ Calls(4, "chown", "skip")
      /\ Calls(3, "daemon-reload", "skip") /\ Calls(2, "enable", "skip")
      /\ Calls(1, "restart", "ignore")
  BY RollbackUndoPlace
<1>3. Back({"rollback"}) /\ before' = before /\ Kept /\ job'.undoing
  BY DEF Back, Quiet, Succeeds, Moved, Ignores, Skips
<1>4. Left' <= 10 => disk'.server = before.server
  BY <1>1, <1>2, <1>3 DEF RollbackBack, Calls, Kept, Succeeds, Effect, Ignores, Skips, Installed
<1>5. Left' <= 9 => disk'.ctl = before.ctl
  BY <1>1, <1>2, <1>3 DEF RollbackBack, Calls, Kept, Succeeds, Effect, Ignores, Skips, Installed
<1>6. disk'.rollback = disk.rollback /\ disk'.stage = disk.stage
  BY <1>1, <1>2, <1>3 DEF Calls, Kept
<1> QED
  BY <1>3, <1>4, <1>5, <1>6 DEF RollbackForth, RollbackBack, Forth

LEMMA RollbackKeeps ==
  ASSUME Typed, InScript, RollbackForth, RollbackBack, Running, job.op = "rollback", Stepped
  PROVE  RollbackForth' /\ RollbackBack'
<1>1. CASE Aborts \/ Dies
  BY <1>1, StopsThere DEF RollbackForth, RollbackBack, Forth, Back
<1>2. CASE ~job.undoing /\ (Succeeds \/ Undoes)
  BY <1>2, RollbackGoesOn, RollbackTurnsBack DEF Stepped
<1>3. CASE job.undoing /\ (Succeeds \/ Ignores \/ Skips)
  BY <1>3, RollbackComesBack DEF Stepped
<1>4. ASSUME ~job.undoing PROVE ~Ignores /\ ~Skips
  BY <1>4, RollbackPlace DEF Calls, Ignores, Skips
<1>5. ASSUME job.undoing PROVE ~Undoes
  BY <1>5, RollbackUndoPlace DEF Calls, Undoes
<1> QED
  BY <1>1, <1>2, <1>3, <1>4, <1>5 DEF Stepped, Fails

LEMMA RepairKeeps ==
  ASSUME Typed, InScript, RepairForth, Running, job.op = "repair", Stepped
  PROVE  RepairForth'
<1>1. ~job.undoing
  BY DEF InScript, Restores, Installs
<1>2. /\ Left \in 1 .. 9
      /\ Calls(9, "account", "abort") /\ Calls(8, "directories", "abort")
      /\ Calls(7, "check-config", "abort") /\ Calls(6, "verify-installed", "abort")
      /\ Calls(5, "write-unit", "abort") /\ Calls(4, "chown", "abort")
      /\ Calls(3, "daemon-reload", "abort") /\ Calls(2, "enable", "abort")
      /\ Calls(1, "restart", "abort")
  BY <1>1, RepairPlace
<1>3. CASE Aborts \/ Dies
  BY <1>3, StopsThere DEF RepairForth, Forth
<1>4. CASE Succeeds
  <2>1. Left' = Left - 1 /\ Forth({"repair"}) /\ Kept /\ Effect /\ Checked
    BY <1>1, <1>4, Counts DEF Succeeds, Forth, Stepped, Quiet
  <2>2. Left' <= 6 => Usable'
    <3>1. ASSUME Left' <= 6 PROVE Usable
      BY <1>2, <2>1, <3>1 DEF RepairForth, Calls, Checked
    <3> QED
      BY <1>2, <2>1, <3>1, UsableKept DEF Calls
  <2>3. Left' <= 5 => disk'.server # None /\ disk'.ctl # None
    BY <1>2, <2>1 DEF RepairForth, Calls, Kept, Checked
  <2>4. Left' <= 4 => disk'.unit = disk'.ctl
    BY <1>2, <2>1 DEF RepairForth, Calls, Kept, Effect
  <2>5. Left' <= 1 => disk'.enabled
    BY <1>2, <2>1 DEF RepairForth, Calls, Kept, Effect
  <2>6. Left' = 0 => disk'.active = disk'.server
    BY <1>2, <2>1 DEF Calls, Kept, Effect
  <2> QED
    BY <2>2, <2>3, <2>4, <2>5, <2>6 DEF RepairForth
<1>5. ~Undoes /\ ~Ignores /\ ~Skips
  BY <1>2 DEF Calls, Undoes, Ignores, Skips
<1> QED
  BY <1>3, <1>4, <1>5 DEF Stepped, Fails

LEMMA AcceptedIsConfig ==
  ASSUME NEW v, NEW c, NEW d, Accepts(v, c, d)
  PROVE  v \in Versions /\ c \in Configs /\ c # None
  BY ManagementAssumption DEF Accepts

LEMMA EditKeeps ==
  ASSUME Typed, InScript, EditForth, Running, job.op = "edit", Stepped
  PROVE  EditForth'
<1>1. CASE job'.undoing \/ Aborts \/ Dies
  BY <1>1, StopsThere DEF EditForth, Forth
<1>2. CASE ~job.undoing /\ Succeeds
  <2>1. /\ Left \in 1 .. 7
        /\ Calls(7, "check-config", "abort") /\ Calls(6, "editor", "abort")
        /\ Calls(5, "check-edited", "abort") /\ Calls(4, "backup-config", "abort")
        /\ Calls(3, "install-config", "abort") /\ Calls(2, "chown", "abort")
        /\ Calls(1, "restart", "undo")
    BY <1>2, EditPlace
  <2>2. Left' = Left - 1 /\ Forth({"edit"}) /\ Kept /\ Effect /\ Checked /\ Carried
    BY <1>2, Counts DEF Succeeds, Forth, Stepped, Quiet
  <2>3. Left' <= 6 => disk'.config # None
    <3>1. CASE Left = 7
      BY <2>1, <2>2, <3>1, AcceptedIsConfig DEF Calls, Checked, Usable, Kept
    <3>2. CASE Left < 7
      BY <2>1, <2>2, <3>2 DEF EditForth, Calls, Kept, Effect
    <3> QED
      BY <2>1, <3>1, <3>2
  <2>4. Left' <= 5 => job'.args.cfg # None
    BY <2>1, <2>2, ManagementAssumption DEF EditForth, Calls, Carried
  <2>5. Left' \in 3 .. 4 => Accepts(disk'.ctl, job'.args.cfg, disk')
    <3>1. ASSUME Left' \in 3 .. 4 PROVE Accepts(disk.ctl, job.args.cfg, disk)
      BY <2>1, <2>2, <3>1 DEF EditForth, Calls, Checked
    <3>2. Left' \in 3 .. 4 => /\ disk'.ctl = disk.ctl /\ disk'.cert = disk.cert /\ disk'.key = disk.key
                             /\ job'.args.cfg = job.args.cfg
      BY <2>1, <2>2 DEF Calls, Kept, Carried
    <3> QED
      BY <3>1, <3>2 DEF Accepts
  <2>6. Left' = 3 => disk'.config \in disk'.backups
    BY <2>1, <2>2 DEF EditForth, Calls, Kept, Effect
  <2> QED
    BY <2>3, <2>4, <2>5, <2>6 DEF EditForth
<1>3. ASSUME ~job.undoing PROVE ~Ignores /\ ~Skips
  BY <1>3, EditPlace DEF Calls, Ignores, Skips
<1>4. job.undoing /\ (Succeeds \/ Ignores \/ Skips) => job'.undoing
  BY DEF Succeeds, Moved, Ignores, Skips
<1>5. Undoes => job'.undoing
  BY DEF Undoes
<1> QED
  BY <1>1, <1>2, <1>3, <1>4, <1>5 DEF Stepped, Fails

-------------------------------------------------------------------------------
(* install.                                                                  *)

Sizes == After \in {9, 12} /\ (Wanted <=> After = 12) /\ ForSite \in {0, 3} /\ ForTls \in {0, 4}

LEMMA InstallSizes ==
  /\ Sizes /\ (job.args.dist # None <=> ForSite = 3) /\ (job.args.tls # <<>> <=> ForTls = 4)
  BY DEF Sizes, After, ForSite, ForTls

\* Every place of the script is the place of one call.
LEMMA InstallDue ==
  ASSUME Typed, InScript, Running, job.op \in Installs, ~job.undoing
  PROVE  \/ Left = After + ForSite + ForTls + 4 /\ Due = "verify-new" /\ On = "abort"
         \/ Left = After + ForSite + ForTls + 3 /\ Due = "account" /\ On = "abort"
         \/ Left = After + ForSite + ForTls + 2 /\ Due = "directories" /\ On = "abort"
         \/ Left = After + ForSite + ForTls + 1 /\ Due = "select-config" /\ On = "abort"
         \/ job.args.tls # <<>> /\ Left = After + ForSite + 4 /\ Due = "snapshot-cert" /\ On = "abort"
         \/ job.args.tls # <<>> /\ Left = After + ForSite + 3 /\ Due = "copy-cert" /\ On = "undo"
         \/ job.args.tls # <<>> /\ Left = After + ForSite + 2 /\ Due = "snapshot-key" /\ On = "undo"
         \/ job.args.tls # <<>> /\ Left = After + ForSite + 1 /\ Due = "copy-key" /\ On = "undo"
         \/ job.args.dist # None /\ Left = After + 3 /\ Due = "stage-site" /\ On = "undo"
         \/ job.args.dist # None /\ Left = After + 2 /\ Due = "site-out" /\ On = "undo"
         \/ job.args.dist # None /\ Left = After + 1 /\ Due = "site-in" /\ On = "undo"
         \/ Left = After /\ Due = "check-candidate" /\ On = "undo"
         \/ Left = After - 1 /\ Due = "backup-old-config" /\ On = "abort"
         \/ Left = After - 2 /\ Due = "install-config" /\ On = "abort"
         \/ Left = After - 3 /\ Due = "copy-server" /\ On = "abort"
         \/ Left = After - 4 /\ Due = "copy-ctl" /\ On = "abort"
         \/ Left = After - 5 /\ Due = "write-unit" /\ On = "abort"
         \/ Left = After - 6 /\ Due = "chown" /\ On = "abort"
         \/ Left = After - 7 /\ Due = "check-config" /\ On = "abort"
         \/ Left = After - 8 /\ Due = "daemon-reload" /\ On = "abort"
         \/ Wanted /\ Left = 3 /\ Due = "enable" /\ On = "abort"
         \/ Wanted /\ Left = 2 /\ Due = "restart" /\ On = "abort"
         \/ Wanted /\ Left = 1 /\ Due = "is-active" /\ On = "abort"
<1>1. Left \in 1 .. After + ForSite + ForTls + 4
  BY InstallPlace
<1>2. \/ Left = After + ForSite + ForTls + 4
      \/ Left = After + ForSite + ForTls + 3
      \/ Left = After + ForSite + ForTls + 2
      \/ Left = After + ForSite + ForTls + 1
      \/ job.args.tls # <<>> /\ Left = After + ForSite + 4
      \/ job.args.tls # <<>> /\ Left = After + ForSite + 3
      \/ job.args.tls # <<>> /\ Left = After + ForSite + 2
      \/ job.args.tls # <<>> /\ Left = After + ForSite + 1
      \/ job.args.dist # None /\ Left = After + 3
      \/ job.args.dist # None /\ Left = After + 2
      \/ job.args.dist # None /\ Left = After + 1
      \/ Left = After
      \/ Left = After - 1
      \/ Left = After - 2
      \/ Left = After - 3
      \/ Left = After - 4
      \/ Left = After - 5
      \/ Left = After - 6
      \/ Left = After - 7
      \/ Left = After - 8
      \/ Wanted /\ Left = 3
      \/ Wanted /\ Left = 2
      \/ Wanted /\ Left = 1
  BY <1>1, InstallSizes DEF Sizes
<1> QED
  BY <1>2, InstallPlace DEF Calls

LEMMA InstallAt ==
  ASSUME Typed, InScript, Running, job.op \in Installs, ~job.undoing
  PROVE  /\ Due \in {"verify-new", "account", "directories", "select-config",
                        "snapshot-cert", "copy-cert", "snapshot-key", "copy-key",
                        "stage-site", "site-out", "site-in", "check-candidate",
                        "backup-old-config", "install-config", "copy-server", "copy-ctl",
                        "write-unit", "chown", "check-config", "daemon-reload", "enable",
                        "restart", "is-active"}
         /\ Due = "directories" => Left = After + ForSite + ForTls + 2
         /\ Due = "snapshot-cert" => job.args.tls # <<>> /\ Left = After + ForSite + 4
         /\ Due = "copy-cert" => job.args.tls # <<>> /\ Left = After + ForSite + 3
         /\ Due = "snapshot-key" => job.args.tls # <<>> /\ Left = After + ForSite + 2
         /\ Due = "copy-key" => job.args.tls # <<>> /\ Left = After + ForSite + 1
         /\ Due = "site-out" => job.args.dist # None /\ Left = After + 2
         /\ Due = "site-in" => job.args.dist # None /\ Left = After + 1
         /\ Due = "backup-old-config" => Left = After - 1
         /\ Due = "install-config" => Left = After - 2
         /\ Due = "copy-server" => Left = After - 3
         /\ Due = "copy-ctl" => Left = After - 4
         /\ Due = "write-unit" => Left = After - 5
         /\ Due = "enable" => Wanted /\ Left = 3
         /\ Due = "restart" => Wanted /\ Left = 2
         /\ On = "undo" => Left >= After
         /\ On \in {"abort", "undo"}
<1>1. \/ Left = After + ForSite + ForTls + 4 /\ Due = "verify-new" /\ On = "abort"
      \/ Left = After + ForSite + ForTls + 3 /\ Due = "account" /\ On = "abort"
      \/ Left = After + ForSite + ForTls + 2 /\ Due = "directories" /\ On = "abort"
      \/ Left = After + ForSite + ForTls + 1 /\ Due = "select-config" /\ On = "abort"
      \/ job.args.tls # <<>> /\ Left = After + ForSite + 4 /\ Due = "snapshot-cert" /\ On = "abort"
      \/ job.args.tls # <<>> /\ Left = After + ForSite + 3 /\ Due = "copy-cert" /\ On = "undo"
      \/ job.args.tls # <<>> /\ Left = After + ForSite + 2 /\ Due = "snapshot-key" /\ On = "undo"
      \/ job.args.tls # <<>> /\ Left = After + ForSite + 1 /\ Due = "copy-key" /\ On = "undo"
      \/ job.args.dist # None /\ Left = After + 3 /\ Due = "stage-site" /\ On = "undo"
      \/ job.args.dist # None /\ Left = After + 2 /\ Due = "site-out" /\ On = "undo"
      \/ job.args.dist # None /\ Left = After + 1 /\ Due = "site-in" /\ On = "undo"
      \/ Left = After /\ Due = "check-candidate" /\ On = "undo"
      \/ Left = After - 1 /\ Due = "backup-old-config" /\ On = "abort"
      \/ Left = After - 2 /\ Due = "install-config" /\ On = "abort"
      \/ Left = After - 3 /\ Due = "copy-server" /\ On = "abort"
      \/ Left = After - 4 /\ Due = "copy-ctl" /\ On = "abort"
      \/ Left = After - 5 /\ Due = "write-unit" /\ On = "abort"
      \/ Left = After - 6 /\ Due = "chown" /\ On = "abort"
      \/ Left = After - 7 /\ Due = "check-config" /\ On = "abort"
      \/ Left = After - 8 /\ Due = "daemon-reload" /\ On = "abort"
      \/ Wanted /\ Left = 3 /\ Due = "enable" /\ On = "abort"
      \/ Wanted /\ Left = 2 /\ Due = "restart" /\ On = "abort"
      \/ Wanted /\ Left = 1 /\ Due = "is-active" /\ On = "abort"
  BY InstallDue
<1> QED
  BY <1>1, InstallSizes DEF Sizes

LEMMA OneIsSome == \A x : <<x>> # <<>>
  OBVIOUS

\* What is saved stays saved.
LEMMA SavedStays ==
  ASSUME Carried
  PROVE  /\ Due = "snapshot-cert" \/ job.snap.cert # <<>> => job'.snap.cert # <<>>
         /\ Due = "snapshot-key" \/ job.snap.key # <<>> => job'.snap.key # <<>>
         /\ Due = "site-out" \/ job.snap.site # <<>> => job'.snap.site # <<>>
<1>1. /\ Due # "snapshot-cert" => job'.snap.cert = job.snap.cert
      /\ Due = "snapshot-cert" => job'.snap.cert = <<disk.cert>>
      /\ Due # "snapshot-key" => job'.snap.key = job.snap.key
      /\ Due = "snapshot-key" => job'.snap.key = <<disk.key>>
      /\ Due # "site-out" => job'.snap.site = job.snap.site
      /\ Due = "site-out" => job'.snap.site = <<disk.site>>
  BY DEF Carried
<1> QED
  BY <1>1, OneIsSome, Zenon

LEMMA InstallGoesOn ==
  ASSUME Typed, InScript, InstallForth, Running, job.op \in Installs, ~job.undoing, Quiet, Succeeds
  PROVE  InstallForth' /\ InstallBack'
<1>1. Left' = Left - 1 /\ Left \in Nat /\ Left # 0
  BY Counts DEF Succeeds
<1>2. /\ Kept /\ Effect /\ Checked /\ Carried /\ before' = before /\ ~job'.undoing
      /\ After' = After /\ ForSite' = ForSite /\ (Wanted' <=> Wanted)
  BY DEF Quiet, Succeeds, Moved, Carried, After, ForSite, Wanted
<1>3. Forth(Installs)
  BY DEF Forth
<1>4. Sizes
  BY InstallSizes
<1> DEFINE tls == job.args.tls # <<>>
<1> DEFINE dist == job.args.dist # None
<1>5. /\ job.args.new.server = job.args.new.ctl /\ job.args.new.server # None
      /\ job.args.cfg # None /\ Saved
  BY <1>3 DEF InstallForth
<1>6. /\ Due # "download" /\ Due # "editor"
  BY InstallAt
<1>7. job'.args.new = job.args.new /\ job'.args.cfg = job.args.cfg /\ job'.args.tls = job.args.tls /\ job'.args.dist = job.args.dist
  BY <1>2, <1>6 DEF Carried
<1>8. Saved'
  <2>1. job'.snap.cert # <<>> => job'.snap.cert = <<before.cert>>
    <3>1. CASE Due = "snapshot-cert"
      <4>1. Left = After + ForSite + 4
        BY <3>1, InstallAt
      <4>2. disk.cert = before.cert
        BY <1>3, <1>4, <4>1 DEF InstallForth, Sizes
      <4> QED
        BY <1>2, <3>1, <4>2 DEF Carried
    <3> QED
      BY <1>2, <1>5, <3>1 DEF Carried, Saved
  <2>2. job'.snap.key # <<>> => job'.snap.key = <<before.key>>
    <3>1. CASE Due = "snapshot-key"
      <4>1. Left = After + ForSite + 2
        BY <3>1, InstallAt
      <4>2. disk.key = before.key
        BY <1>3, <1>4, <4>1 DEF InstallForth, Sizes
      <4> QED
        BY <1>2, <3>1, <4>2 DEF Carried
    <3> QED
      BY <1>2, <1>5, <3>1 DEF Carried, Saved
  <2>3. job'.snap.site # <<>> => SiteWas(job'.snap.site[1])
    <3>1. CASE Due = "site-out"
      <4>1. Left = After + 2
        BY <3>1, InstallAt
      <4>2. SiteWas(disk.site)
        BY <1>3, <1>4, <4>1 DEF InstallForth, Sizes
      <4> QED
        BY <1>2, <3>1, <4>2 DEF Carried
    <3> QED
      BY <1>2, <1>5, <3>1 DEF Carried, Saved
  <2>4. job'.snap.siteIn => job'.snap.site # <<>>
    <3>1. CASE Due = "site-in"
      <4>1. Left = After + 1 /\ job.args.dist # None
        BY <3>1, InstallAt
      <4>2. job.snap.site # <<>>
        BY <1>3, <1>4, <4>1 DEF InstallForth, Sizes
      <4> QED
        BY <1>2, <3>1, <4>2 DEF Carried
    <3>2. CASE Due # "site-in"
      <4>1. job'.snap.siteIn = job.snap.siteIn
        BY <1>2, <3>2 DEF Carried
      <4>2. job.snap.site # <<>> => job'.snap.site # <<>>
        BY <1>2, SavedStays
      <4>3. job.snap.siteIn => job.snap.site # <<>>
        BY <1>5 DEF Saved
      <4> QED
        BY <4>1, <4>2, <4>3
    <3> QED
      BY <3>1, <3>2
  <2> QED
    BY <1>2, <2>1, <2>2, <2>3, <2>4 DEF Saved, SiteWas
<1>9. Left' >= After => (job'.snap.cert = <<>> => disk'.cert = before.cert)
  <2>1. Due = "copy-cert" => job.snap.cert # <<>> /\ job'.snap.cert # <<>>
    BY <1>2, <1>3, <1>4, InstallAt DEF InstallForth, Carried, Sizes
  <2>2. job'.snap.cert = <<>> => job.snap.cert = <<>>
    BY <1>2 DEF Carried
  <2>3. Due \notin {"cert-back", "purge-config"}
    BY InstallAt
  <2>4. Due # "copy-cert" => disk'.cert = disk.cert
    BY <1>2, <2>3 DEF Kept
  <2> QED
    BY <1>1, <1>3, <1>4, <2>1, <2>2, <2>4 DEF InstallForth, Sizes
<1>10. Left' >= After => (job'.snap.key = <<>> => disk'.key = before.key)
  <2>1. Due = "copy-key" => job.snap.key # <<>> /\ job'.snap.key # <<>>
    BY <1>2, <1>3, <1>4, InstallAt DEF InstallForth, Carried, Sizes
  <2>2. job'.snap.key = <<>> => job.snap.key = <<>>
    BY <1>2 DEF Carried
  <2>3. Due \notin {"key-back", "purge-config"}
    BY InstallAt
  <2>4. Due # "copy-key" => disk'.key = disk.key
    BY <1>2, <2>3 DEF Kept
  <2> QED
    BY <1>1, <1>3, <1>4, <2>1, <2>2, <2>4 DEF InstallForth, Sizes
<1>11. Left' >= After => (job'.snap.site = <<>> => SiteWas(disk'.site))
  <2>1. Due = "site-in" => job.snap.site # <<>>
    BY <1>3, <1>4, InstallAt DEF InstallForth, Sizes
  <2>2. job'.snap.site = <<>> => job.snap.site = <<>> /\ Due # "site-out" /\ Due # "site-in"
    BY <1>2, <2>1 DEF Carried
  <2>3. Due \notin {"site-back", "site-remove", "site-restore", "purge-state"}
    BY InstallAt
  <2>4. Due \notin {"site-out", "site-in"} => disk'.site = disk.site \/ disk.site = None
    BY <1>2, <2>3 DEF Kept, Effect
  <2>5. Left' >= After /\ job.snap.site = <<>> => SiteWas(disk.site)
    BY <1>1, <1>3, <1>4 DEF InstallForth, Sizes
  <2> QED
    BY <2>2, <2>4, <2>5 DEF SiteWas
<1>12. Left' >= After + ForSite + 4 => job'.snap.cert = <<>>
  BY <1>1, <1>2, <1>3, <1>4, InstallAt DEF InstallForth, Carried, Sizes
<1>13. Left' >= After + ForSite + 2 => job'.snap.key = <<>>
  BY <1>1, <1>2, <1>3, <1>4, InstallAt DEF InstallForth, Carried, Sizes
<1>14. Left' >= After + 2 => job'.snap.site = <<>>
  BY <1>1, <1>2, <1>3, <1>4, InstallAt DEF InstallForth, Carried, Sizes
<1>15. Left' > After => ~job'.snap.siteIn
  BY <1>1, <1>2, <1>3, <1>4, InstallAt DEF InstallForth, Carried, Sizes
<1>16. tls /\ Left' <= After + ForSite + 3 => job'.snap.cert # <<>>
  <2>1. tls => Calls(After + ForSite + 4, "snapshot-cert", "abort")
    BY InstallPlace
  <2>2. Due = "snapshot-cert" \/ job.snap.cert # <<>> => job'.snap.cert # <<>>
    BY <1>2, SavedStays
  <2>3. CASE Left >= After + ForSite + 4
    BY <1>1, <1>4, <2>1, <2>2, <2>3 DEF Sizes, Calls
  <2>4. CASE Left < After + ForSite + 4
    <3>1. tls => job.snap.cert # <<>>
      BY <1>1, <1>3, <1>4, <2>4 DEF InstallForth, Sizes
    <3> QED
      BY <2>2, <3>1
  <2> QED
    BY <1>1, <1>4, <2>3, <2>4 DEF Sizes
<1>17. tls /\ Left' <= After + ForSite + 1 => job'.snap.key # <<>>
  <2>1. tls => Calls(After + ForSite + 2, "snapshot-key", "undo")
    BY InstallPlace
  <2>2. Due = "snapshot-key" \/ job.snap.key # <<>> => job'.snap.key # <<>>
    BY <1>2, SavedStays
  <2>3. CASE Left >= After + ForSite + 2
    BY <1>1, <1>4, <2>1, <2>2, <2>3 DEF Sizes, Calls
  <2>4. CASE Left < After + ForSite + 2
    <3>1. tls => job.snap.key # <<>>
      BY <1>1, <1>3, <1>4, <2>4 DEF InstallForth, Sizes
    <3> QED
      BY <2>2, <3>1
  <2> QED
    BY <1>1, <1>4, <2>3, <2>4 DEF Sizes
<1>18. dist /\ Left' <= After + 1 => job'.snap.site # <<>>
  <2>1. dist => Calls(After + 2, "site-out", "undo")
    BY InstallPlace
  <2>2. Due = "site-out" \/ job.snap.site # <<>> => job'.snap.site # <<>>
    BY <1>2, SavedStays
  <2>3. CASE Left >= After + 2
    BY <1>1, <1>4, <2>1, <2>2, <2>3 DEF Sizes, Calls
  <2>4. CASE Left < After + 2
    <3>1. dist => job.snap.site # <<>>
      BY <1>1, <1>3, <1>4, <2>4 DEF InstallForth, Sizes
    <3> QED
      BY <2>2, <3>1
  <2> QED
    BY <1>1, <1>4, <2>3, <2>4 DEF Sizes
<1>19. Left' >= After - 2 => disk'.config = before.config
  BY <1>1, <1>2, <1>3, <1>4, InstallAt DEF InstallForth, Kept, Sizes
<1>20. Left' \in After - 2 .. After - 1 => Accepts(job.args.new.ctl, job.args.cfg, disk')
  <2> SUFFICES ASSUME Left' \in After - 2 .. After - 1
               PROVE  Accepts(job.args.new.ctl, job.args.cfg, disk')
    OBVIOUS
  <2>1. Calls(After, "check-candidate", "undo") /\ Calls(After - 1, "backup-old-config", "abort")
    BY InstallPlace
  <2>2. Left = After \/ Left = After - 1
    BY <1>1, <1>4 DEF Sizes
  <2>3. Accepts(job.args.new.ctl, job.args.cfg, disk)
    BY <1>2, <1>3, <1>4, <2>1, <2>2 DEF InstallForth, Checked, Calls, Sizes
  <2>4. disk'.cert = disk.cert /\ disk'.key = disk.key
    BY <1>2, <2>1, <2>2 DEF Kept, Calls
  <2> QED
    BY <2>3, <2>4 DEF Accepts
<1>21. Left' = After - 2 /\ disk'.config # None => disk'.config \in disk'.backups
  <2>1. Calls(After - 1, "backup-old-config", "abort")
    BY InstallPlace
  <2> QED
    BY <1>1, <1>2, <1>4, <2>1 DEF Kept, Effect, Calls, Sizes
<1>22. Left' <= After - 4 => disk'.server = job.args.new.server
  <2>1. Calls(After - 3, "copy-server", "abort")
    BY InstallPlace
  <2>2. Due \notin {"restore-server", "unstage-server", "remove-server"} /\ (Due = "copy-server" => Left = After - 3)
    BY InstallAt
  <2>3. CASE Left = After - 3
    BY <1>2, <2>1, <2>3 DEF Effect, Calls
  <2>4. CASE Left < After - 3
    <3>1. disk'.server = disk.server
      BY <1>1, <1>2, <1>4, <2>2, <2>4 DEF Kept, Sizes
    <3> QED
      BY <1>1, <1>3, <1>4, <2>4, <3>1 DEF InstallForth, Sizes
  <2> QED
    BY <1>1, <1>4, <2>3, <2>4 DEF Sizes
<1>23. Left' <= After - 5 => disk'.ctl = job.args.new.ctl
  <2>1. Calls(After - 4, "copy-ctl", "abort")
    BY InstallPlace
  <2>2. Due \notin {"restore-ctl", "unstage-ctl", "remove-ctl"} /\ (Due = "copy-ctl" => Left = After - 4)
    BY InstallAt
  <2>3. CASE Left = After - 4
    BY <1>2, <2>1, <2>3 DEF Effect, Calls
  <2>4. CASE Left < After - 4
    <3>1. disk'.ctl = disk.ctl
      BY <1>1, <1>2, <1>4, <2>2, <2>4 DEF Kept, Sizes
    <3> QED
      BY <1>1, <1>3, <1>4, <2>4, <3>1 DEF InstallForth, Sizes
  <2> QED
    BY <1>1, <1>4, <2>3, <2>4 DEF Sizes
<1>24. Left' <= After - 6 => disk'.unit = disk'.ctl
  <2>1. Calls(After - 5, "write-unit", "abort")
    BY InstallPlace
  <2> QED
    BY <1>1, <1>2, <1>3, <1>4, <2>1, InstallAt DEF InstallForth, Kept, Effect, Calls, Sizes
<1>25. Left' <= After - 8 => Usable'
  <2>1. Calls(After - 7, "check-config", "abort")
    BY InstallPlace
  <2>2. ASSUME Left' <= After - 8 PROVE Usable
    BY <1>1, <1>2, <1>3, <1>4, <2>1, <2>2 DEF InstallForth, Checked, Calls, Sizes
  <2>3. Left <= After - 7 => Due \notin {"copy-ctl", "install-config", "copy-cert", "copy-key"}
    BY <1>4, InstallAt DEF Sizes
  <2>4. Due \notin {"restore-ctl", "unstage-ctl", "remove-ctl", "restore-config", "purge-config", "cert-back", "key-back"}
    BY InstallAt
  <2> QED
    BY <1>1, <1>2, <1>4, <2>2, <2>3, <2>4, UsableKept DEF Sizes
<1>26. Wanted /\ Left' <= 2 => disk'.enabled
  <2>1. Wanted => Calls(3, "enable", "abort")
    BY InstallPlace
  <2>2. Due \notin {"disable", "disable-now"}
    BY InstallAt
  <2>3. disk'.enabled = disk.enabled \/ disk'.enabled
    BY <1>2, <2>2 DEF Kept, Effect
  <2> QED
    BY <1>1, <1>2, <1>3, <2>1, <2>3 DEF InstallForth, Effect, Calls
<1>27. Wanted /\ Left' <= 1 => disk'.active = disk'.server
  <2>1. Wanted => Calls(2, "restart", "abort") /\ Calls(1, "is-active", "abort")
    BY InstallPlace
  <2> QED
    BY <1>1, <1>2, <1>3, <2>1 DEF InstallForth, Kept, Effect, Calls
<1> HIDE DEF tls, dist
<1>28. InstallForth'
  BY <1>2, <1>5, <1>7, <1>8, <1>9, <1>10, <1>11, <1>12, <1>13, <1>14, <1>15, <1>16, <1>17, <1>18, <1>19,
     <1>20, <1>21, <1>22, <1>23, <1>24, <1>25, <1>26, <1>27 DEF InstallForth, SiteWas, tls, dist
<1>29. InstallBack'
  BY <1>2 DEF InstallBack, Back
<1> QED
  BY <1>28, <1>29

LEMMA InstallTurnsBack ==
  ASSUME Typed, InScript, InstallForth, Running, job.op \in Installs, ~job.undoing, Quiet, Undoes, Spared
  PROVE  InstallForth' /\ InstallBack'
<1>1. Left >= After /\ Sizes /\ Forth(Installs) /\ Left \in Nat
  BY InstallAt, InstallSizes, Counts DEF Undoes, Forth
<1>2. job.undo = InstallUndo
  BY DEF InScript, Restores, Installs, Undo
<1>3. Left' = 5 /\ job'.undoing /\ before' = before /\ Kept /\ job'.snap = job.snap
  BY <1>2, InstallUndoCalls DEF Undoes, Same, Left, Quiet
<1>4. Saved'
  BY <1>1, <1>3 DEF InstallForth, Saved, SiteWas
<1>5. disk'.config = before.config
  BY <1>1, <1>3, InstallAt DEF InstallForth, Kept, Sizes
<1>6. job.snap.cert = <<>> => disk'.cert = before.cert
  <2>1. Due = "copy-cert" => job.snap.cert # <<>>
    BY <1>1, InstallAt DEF InstallForth, Sizes
  <2>2. Due \notin {"cert-back", "purge-config"}
    BY InstallAt
  <2> QED
    BY <1>1, <1>3, <2>1, <2>2 DEF InstallForth, Kept
<1>7. job.snap.key = <<>> => disk'.key = before.key
  <2>1. Due = "copy-key" => job.snap.key # <<>>
    BY <1>1, InstallAt DEF InstallForth, Sizes
  <2>2. Due \notin {"key-back", "purge-config"}
    BY InstallAt
  <2> QED
    BY <1>1, <1>3, <2>1, <2>2 DEF InstallForth, Kept
<1>8. job.snap.site = <<>> => SiteWas(disk'.site)
  BY <1>1 DEF InstallForth, Spared
<1> QED
  BY <1>3, <1>4, <1>5, <1>6, <1>7, <1>8 DEF InstallForth, InstallBack, Forth, SiteWas

LEMMA InstallComesBack ==
  ASSUME Typed, InScript, InstallBack, Running, job.op \in Installs, job.undoing, Quiet,
         Succeeds \/ (Ignores /\ Spared)
  PROVE  InstallForth' /\ InstallBack'
<1>1. Left \in 1 .. 5 /\ Left' = Left - 1
  BY InstallUndoPlace, Counts DEF Succeeds
<1>2. /\ Calls(5, "site-back", "ignore") /\ Calls(4, "site-remove", "abort")
      /\ Calls(3, "site-restore", "abort") /\ Calls(2, "key-back", "abort") /\ Calls(1, "cert-back", "abort")
  BY InstallUndoPlace
<1>3. Back(Installs) /\ before' = before /\ Kept /\ job'.undoing
  BY DEF Back, Quiet, Succeeds, Moved, Ignores
<1>4. /\ job'.snap.cert = job.snap.cert /\ job'.snap.key = job.snap.key
      /\ job'.snap.site = job.snap.site /\ job'.snap.siteIn = job.snap.siteIn
  <2>1. Due \notin {"snapshot-cert", "snapshot-key", "site-out", "site-in"}
    BY <1>1, <1>2 DEF Calls
  <2>2. CASE Succeeds
    BY <2>1, <2>2 DEF Succeeds, Carried
  <2>3. CASE Ignores
    BY <2>3 DEF Ignores, Same
  <2> QED
    BY <2>2, <2>3
<1>5. Saved /\ disk.config = before.config
  BY <1>3 DEF InstallBack
<1>6. Saved'
  BY <1>3, <1>4, <1>5 DEF Saved, SiteWas
<1>7. disk'.config = before.config
  BY <1>1, <1>2, <1>3, <1>5 DEF Calls, Kept
<1>8. job.snap.cert = <<>> => disk'.cert = before.cert
  BY <1>1, <1>2, <1>3 DEF InstallBack, Calls, Kept, Succeeds, Effect, Ignores
<1>9. job.snap.key = <<>> => disk'.key = before.key
  BY <1>1, <1>2, <1>3 DEF InstallBack, Calls, Kept, Succeeds, Effect, Ignores
<1>10. job.snap.site = <<>> => SiteWas(disk'.site)
  <2>1. job.snap.site = <<>> => ~job.snap.siteIn
    BY <1>5 DEF Saved
  <2>2. job.snap.site = <<>> => disk'.site = disk.site
    BY <1>1, <1>2, <1>3, <2>1 DEF Calls, Kept, Succeeds, Effect, Spared
  <2> QED
    BY <1>3, <2>2 DEF InstallBack
<1>11. ASSUME ~interrupted', Left' <= 4, ~job.snap.siteIn
       PROVE  SiteWas(disk'.site)
  <2>1. CASE Left = 5
    <3>1. Succeeds
      BY <1>2, <1>11, <2>1 DEF Calls, Ignores
    <3>2. disk'.site = IF job.snap.site # <<>> /\ ~job.snap.siteIn THEN job.snap.site[1] ELSE disk.site
      BY <1>2, <2>1, <3>1 DEF Calls, Succeeds, Effect
    <3> QED
      BY <1>3, <1>5, <1>11, <3>2 DEF InstallBack, Saved
  <2>2. CASE Left < 5
    <3>1. ~interrupted
      BY <1>11 DEF Succeeds, Moved, Ignores
    <3>2. disk'.site = disk.site
      BY <1>1, <1>2, <1>3, <1>11, <2>2 DEF Calls, Kept, Succeeds, Effect, Spared
    <3> QED
      BY <1>1, <1>3, <1>11, <2>2, <3>1, <3>2 DEF InstallBack
  <2> QED
    BY <1>1, <2>1, <2>2
<1>12. ASSUME ~interrupted', Left' <= 2
       PROVE  SiteWas(disk'.site)
  <2>1. ~interrupted /\ Left <= 3
    <3>1. ~interrupted
      BY <1>12 DEF Succeeds, Moved, Ignores
    <3> QED
      BY <1>1, <1>12, <3>1
  <2>2. CASE Left = 3 /\ job.snap.siteIn
    <3>1. disk'.site = job.snap.site[1] /\ job.snap.site # <<>>
      BY <1>2, <1>5, <2>2 DEF Calls, Succeeds, Effect, Ignores, Saved
    <3> QED
      BY <1>5, <3>1 DEF Saved
  <2>3. CASE ~job.snap.siteIn
    BY <1>1, <1>11, <1>12, <2>1, <2>3
  <2>4. CASE Left < 3
    <3>1. disk'.site = disk.site
      BY <1>1, <1>2, <1>3, <2>4 DEF Calls, Kept
    <3> QED
      BY <1>1, <1>3, <2>1, <2>4, <3>1 DEF InstallBack
  <2> QED
    BY <1>1, <2>1, <2>2, <2>3, <2>4
<1>13. Left' <= 1 => disk'.key = before.key
  <2>1. CASE Left = 2
    <3>1. disk'.key = IF job.snap.key # <<>> THEN job.snap.key[1] ELSE disk.key
      BY <1>2, <2>1 DEF Calls, Succeeds, Effect, Ignores
    <3> QED
      BY <1>3, <1>5, <3>1 DEF InstallBack, Saved
  <2>2. CASE Left = 1
    BY <1>2, <1>3, <2>2 DEF InstallBack, Calls, Kept
  <2> QED
    BY <1>1, <2>1, <2>2
<1>14. Left' = 0 => disk'.cert = before.cert
  <2>1. CASE Left = 1
    <3>1. disk'.cert = IF job.snap.cert # <<>> THEN job.snap.cert[1] ELSE disk.cert
      BY <1>2, <2>1 DEF Calls, Succeeds, Effect, Ignores
    <3> QED
      BY <1>3, <1>5, <3>1 DEF InstallBack, Saved
  <2> QED
    BY <1>1, <2>1
<1>15. InstallBack'
  BY <1>3, <1>4, <1>6, <1>7, <1>8, <1>9, <1>10, <1>11, <1>12, <1>13, <1>14 DEF InstallBack, SiteWas
<1> QED
  BY <1>3, <1>15 DEF InstallForth, Forth

LEMMA InstallKeeps ==
  ASSUME Typed, InScript, InstallForth, InstallBack, Running, job.op \in Installs, Stepped
  PROVE  InstallForth' /\ InstallBack'
<1>1. CASE Aborts \/ Dies
  BY <1>1, StopsThere DEF InstallForth, InstallBack, Forth, Back
<1>2. CASE ~job.undoing /\ (Succeeds \/ (Undoes /\ Spared))
  BY <1>2, InstallGoesOn, InstallTurnsBack DEF Stepped
<1>3. CASE job.undoing /\ (Succeeds \/ (Ignores /\ Spared))
  BY <1>3, InstallComesBack DEF Stepped
<1>4. ASSUME ~job.undoing PROVE ~Ignores /\ ~Skips
  BY <1>4, InstallAt DEF Ignores, Skips
<1>5. ASSUME job.undoing PROVE ~Undoes /\ ~Skips
  <2>1. /\ Left \in 1 .. 5 /\ Calls(5, "site-back", "ignore") /\ Calls(4, "site-remove", "abort")
        /\ Calls(3, "site-restore", "abort") /\ Calls(2, "key-back", "abort") /\ Calls(1, "cert-back", "abort")
    BY <1>5, InstallUndoPlace
  <2>2. On \in {"ignore", "abort"}
    BY <2>1 DEF Calls
  <2> QED
    BY <2>2 DEF Undoes, Skips
<1> QED
  BY <1>1, <1>2, <1>3, <1>4, <1>5 DEF Stepped, Fails

-------------------------------------------------------------------------------
(* A step of a command that runs.                                            *)

LEMMA LegalCalls ==
  ASSUME Typed, InScript, Placed, Running
  PROVE  Legal
<1>1. job.op \in Restores \cup {"repair"} \cup Others
  BY DEF Typed, InScript, Ops
<1>2. CASE job.op = "update"
  <2>1. CASE job.undoing
    BY <1>2, <2>1, UpdateUndoPlace DEF Calls, Legal
  <2>2. CASE ~job.undoing
    BY <1>2, <2>2, UpdatePlace, SMTT(30) DEF Calls, Legal
  <2> QED
    BY <2>1, <2>2
<1>3. CASE job.op = "rollback"
  <2>1. CASE job.undoing
    BY <1>3, <2>1, RollbackUndoPlace DEF Calls, Legal
  <2>2. CASE ~job.undoing
    BY <1>3, <2>2, RollbackPlace, SMTT(30) DEF Calls, Legal
  <2> QED
    BY <2>1, <2>2
<1>4. CASE job.op = "edit"
  <2>1. CASE job.undoing
    BY <1>4, <2>1, EditUndoPlace DEF Calls, Legal
  <2>2. CASE ~job.undoing
    <3>1. Left <= 6 => disk.config # None
      BY <1>4, <2>2 DEF Placed, EditForth, Forth
    <3> QED
      BY <1>4, <2>2, <3>1, EditPlace DEF Calls, Legal
  <2> QED
    BY <2>1, <2>2
<1>5. CASE job.op = "repair"
  <2>1. ~job.undoing
    BY <1>5 DEF InScript, Restores, Installs
  <2> QED
    BY <1>5, <2>1, RepairPlace DEF Calls, Legal
<1>6. CASE job.op \in Installs
  <2>1. CASE job.undoing
    <3>1. job.snap.siteIn => job.snap.site # <<>>
      BY <1>6, <2>1 DEF Placed, InstallBack, Back, Saved
    <3> QED
      BY <1>6, <2>1, <3>1, InstallUndoPlace DEF Calls, Legal
  <2>2. CASE ~job.undoing
    BY <1>6, <2>2, InstallAt DEF Legal
  <2> QED
    BY <2>1, <2>2
<1>7. CASE job.op \in Others
  <2>1. job.todo \in Seq(Call) /\ job.todo # <<>>
    BY DEF Typed, Running
  <2>2. 1 \in 1 .. Left /\ Due = job.todo[1].do
    BY <2>1 DEF Left, Due
  <2> QED
    BY <1>7, <2>2 DEF InScript, Guarded, Legal
<1> QED
  BY <1>1, <1>2, <1>3, <1>4, <1>5, <1>6, <1>7 DEF Restores

LEMMA UndoSeq ==
  ASSUME job.op \in Restores
  PROVE  Undo \in Seq(Call) /\ Len(Undo) \in Nat \ {0} /\ Undo # <<>>
<1>1. Undo \in Seq(Call) /\ Len(Undo) \in Nat \ {0}
  <2>1. CASE job.op = "update"
    BY <2>1, UpdateUndoCalls DEF Undo
  <2>2. CASE job.op = "rollback"
    BY <2>2, RollbackUndoCalls DEF Undo
  <2>3. CASE job.op = "edit"
    BY <2>3, EditUndoCalls DEF Undo
  <2>4. CASE job.op \in Installs
    BY <2>4, InstallUndoCalls, SMTT(30) DEF Undo, Installs
  <2> QED
    BY <2>1, <2>2, <2>3, <2>4 DEF Restores
<1> QED
  BY <1>1

LEMMA MainSeq ==
  ASSUME job.op \in Restores \cup {"repair"}
  PROVE  Main \in Seq(Call) /\ Len(Main) \in Nat \ {0}
<1>1. CASE job.op \in {"update", "rollback", "edit", "repair"}
  <2>1. CASE job.op = "update"
    <3>1. Main = UpdateScript
      BY <2>1 DEF Main
    <3> QED
      BY <3>1, UpdateCalls
  <2>2. CASE job.op = "rollback"
    <3>1. Main = RollbackScript
      BY <2>2 DEF Main
    <3> QED
      BY <3>1, RollbackCalls
  <2>3. CASE job.op = "edit"
    <3>1. Main = EditScript
      BY <2>3 DEF Main
    <3> QED
      BY <3>1, EditCalls
  <2>4. CASE job.op = "repair"
    <3>1. Main = RepairScript
      BY <2>4 DEF Main
    <3> QED
      BY <3>1, RepairCalls
  <2> QED
    BY <1>1, <2>1, <2>2, <2>3, <2>4
<1>2. CASE job.op \in Installs
  <2> DEFINE tls == job.args.tls # <<>>
  <2> DEFINE dist == job.args.dist # None
  <2> DEFINE s == InstallScript(tls, dist, Wanted)
  <2>1. Main = s
    BY <1>2 DEF Main, Installs
  <2>2. tls \in BOOLEAN /\ dist \in BOOLEAN /\ Wanted \in BOOLEAN
    BY DEF Wanted
  <2>3. /\ After = (IF Wanted THEN 12 ELSE 9) /\ ForSite = (IF dist THEN 3 ELSE 0)
        /\ ForTls = (IF tls THEN 4 ELSE 0)
    BY DEF After, ForSite, ForTls
  <2> HIDE DEF s
  <2>4. s = InstallScript(tls, dist, Wanted)
    BY DEF s
  <2> HIDE DEF tls, dist
  <2>5. InstallTable(s, tls, dist, Wanted, After, ForSite, ForTls)
    BY <2>2, <2>3, <2>4, InstallCalls
  <2> QED
    BY <2>1, <2>5, InstallSizes, SMTT(30) DEF InstallTable, Sizes
<1> QED
  BY <1>1, <1>2 DEF Restores

\* Only a command with a restore path takes it.
LEMMA UndoOnly ==
  ASSUME Typed, InScript, Running, Undoes
  PROVE  job.op \in Restores
<1>1. job.op \in Restores \cup {"repair"} \cup Others
  BY DEF Typed, InScript, Ops
<1>2. job.op # "repair"
  <2>1. ASSUME job.op = "repair" PROVE FALSE
    <3>1. ~job.undoing
      BY <2>1 DEF InScript, Restores, Installs
    <3> QED
      BY <2>1, <3>1, RepairPlace DEF Calls, Undoes
  <2> QED
    BY <2>1
<1>3. job.op \notin Others
  <2>1. job.todo \in Seq(Call) /\ job.todo # <<>>
    BY DEF Typed, Running
  <2>2. 1 \in 1 .. Left /\ On = job.todo[1].on
    BY <2>1 DEF Left, On
  <2> QED
    BY <2>2 DEF InScript, Undoes
<1> QED
  BY <1>1, <1>2, <1>3

LEMMA TypedKept ==
  ASSUME Typed, InScript, Running, Stepped
  PROVE  Typed'
<1>1. /\ disk' \in Disk /\ before' \in Disk /\ commands' \in 0 .. MaxCommands
  BY DEF Typed, Stepped, Quiet
<1>2. /\ DOMAIN job' = JobFields /\ job'.op = job.op /\ job'.op \in Ops /\ job.op # "none"
      /\ job'.args \in Args /\ job'.snap \in Snaps
  BY DEF Typed, InScript, Stepped, Succeeds, Carried, Fails, Aborts, Undoes, Ignores, Skips, Dies, Same
<1>3. job'.undoing \in BOOLEAN /\ interrupted' \in BOOLEAN
  BY DEF Typed, Stepped, Succeeds, Moved, Fails, Aborts, Undoes, Ignores, Skips, Dies
<1>4. job.todo \in Seq(Call) /\ job.todo # <<>> /\ job.outcome = "none" /\ job.undoing \in BOOLEAN
  BY DEF Typed, Running
<1> DEFINE Sound ==
      /\ job'.todo \in Seq(Call) /\ job'.outcome \in Outcomes
      /\ (job'.outcome = "none") <=> job'.todo # <<>>
      /\ job'.outcome = "restored" => job'.undoing
      /\ job'.outcome = "ok" => ~job'.undoing
<1>5. ASSUME Moved \/ Ignores PROVE Sound
  <2>1. job'.todo = Tail(job.todo) /\ job'.undoing = job.undoing /\ Ends(Tail(job.todo))
    BY <1>5 DEF Moved, Ignores
  <2>2. Tail(job.todo) \in Seq(Call)
    BY <1>4
  <2> QED
    BY <1>4, <2>1, <2>2 DEF Ends, Outcomes
<1>6. ASSUME Aborts \/ Dies PROVE Sound
  <2>1. job'.todo = <<>> /\ job'.outcome \in {"error", "died"}
    BY <1>6 DEF Aborts, Dies
  <2> QED
    BY <2>1, NoCalls DEF Outcomes
<1>7. ASSUME Undoes PROVE Sound
  <2>1. job.undo = Undo /\ Undo \in Seq(Call) /\ Undo # <<>>
    BY <1>7, UndoOnly, UndoSeq DEF InScript
  <2> QED
    BY <1>4, <1>7, <2>1 DEF Undoes, Outcomes
<1>8. ASSUME Skips PROVE Sound
  <2>1. PICK k \in 1 .. Len(job.todo) + 1 : job'.todo = SubSeq(job.todo, k, Len(job.todo)) /\ Ends(job'.todo)
    BY <1>8 DEF Skips
  <2>2. job'.todo \in Seq(Call)
    BY <1>4, <2>1
  <2> QED
    BY <1>4, <1>8, <2>1, <2>2 DEF Skips, Ends, Outcomes
<1>9. Sound
  BY <1>5, <1>6, <1>7, <1>8 DEF Stepped, Succeeds, Fails
<1> HIDE DEF Sound
<1>10. /\ job'.todo \in Seq(Call) /\ job'.outcome \in Outcomes
       /\ (job'.outcome = "none") <=> Running'
       /\ job'.outcome = "restored" => job'.undoing
       /\ job'.outcome = "ok" => ~job'.undoing
  BY <1>9 DEF Sound, Running
<1> QED
  BY <1>1, <1>2, <1>3, <1>10 DEF Typed

LEMMA InScriptKept ==
  ASSUME Typed, InScript, Running, Stepped
  PROVE  InScript'
<1>1. /\ job'.op = job.op /\ job'.undo = job.undo /\ job.op # "none"
      /\ job'.args.tls = job.args.tls /\ job'.args.dist = job.args.dist
  BY DEF InScript, Stepped, Succeeds, Carried, Fails, Aborts, Undoes, Ignores, Skips, Dies, Same
<1>2. Undo' = Undo /\ Main' = Main
  BY <1>1 DEF Undo, Main, Wanted
<1>3. Undoes \/ job'.undoing = job.undoing
  BY DEF Stepped, Succeeds, Moved, Fails, Aborts, Ignores, Skips, Dies
<1>4. Undoes => job'.undoing /\ job.op \in Restores
  BY UndoOnly DEF Undoes
<1>5. job'.undoing => job.op \in Restores
  BY <1>3, <1>4 DEF InScript
<1>6. ASSUME Running', job.op \in Restores \cup {"repair"}
      PROVE  Left' <= Len(Script') /\ job'.todo = Rest(Script', Left')
  <2>1. CASE Undoes
    <3>1. Script' = Undo /\ job'.todo = Undo /\ Left' = Len(Undo)
      BY <1>2, <1>4, <2>1 DEF Script, Undoes, InScript, Left
    <3> QED
      BY <1>4, <2>1, <3>1, UndoSeq, RestAll
  <2>2. CASE ~Undoes
    <3> DEFINE s == Script
    <3>1. Script' = s
      BY <1>2, <1>3, <2>2 DEF Script
    <3>2. s \in Seq(Call)
      BY <1>6, MainSeq, UndoSeq DEF Script, InScript
    <3>3. s = Script
      OBVIOUS
    <3> HIDE DEF s
    <3>4. Left \in 1 .. Len(s) /\ job.todo = Rest(s, Left) /\ Tail(job.todo) = Rest(s, Left - 1) /\ Len(s) \in Nat
      BY <1>6, <3>2, <3>3, AtPlace
    <3>5. CASE Moved \/ Ignores
      <4>1. Left' = Left - 1 /\ job'.todo = Rest(s, Left - 1)
        BY <3>4, <3>5, Counts DEF Moved, Ignores
      <4> QED
        BY <3>1, <3>4, <4>1
    <3>6. CASE Skips
      <4>1. PICK k \in 1 .. Len(job.todo) + 1 : job'.todo = SubSeq(job.todo, k, Len(job.todo))
        BY <3>6 DEF Skips
      <4>2. Len(job.todo) = Left /\ k \in 1 .. Left + 1
        BY <4>1 DEF Left
      <4>3. job'.todo = Rest(s, Left - k + 1) /\ Left - k + 1 \in 0 .. Len(s)
        <5>1. Left \in 0 .. Len(s) /\ Left - k + 1 \in 0 .. Len(s)
          BY <3>4, <4>2
        <5>2. SubSeq(Rest(s, Left), k, Left) = Rest(s, Left - k + 1)
          BY <3>2, <4>2, <5>1, RestSub
        <5> QED
          BY <3>4, <4>1, <4>2, <5>1, <5>2
      <4>4. Left' = Left - k + 1
        <5> DEFINE m == Left - k + 1
        <5>1. job'.todo = Rest(s, m) /\ m \in 0 .. Len(s)
          BY <4>3
        <5> HIDE DEF m
        <5>2. Len(Rest(s, m)) = m
          BY <3>2, <5>1, RestSeq
        <5>3. Left' = m
          BY <5>1, <5>2 DEF Left
        <5> QED
          BY <5>3 DEF m
      <4> QED
        BY <3>1, <3>4, <4>3, <4>4
    <3>7. ~Aborts /\ ~Dies
      BY <1>6, StopsThere
    <3> QED
      BY <2>2, <3>5, <3>6, <3>7 DEF Stepped, Succeeds, Fails
  <2> QED
    BY <2>1, <2>2
<1>7. ASSUME Running', job.op \in Others, NEW i \in 1 .. Left'
      PROVE  job'.todo[i].do \notin Guarded /\ job'.todo[i].on \in {"abort", "ignore"}
  <2>1. job.todo \in Seq(Call) /\ job.todo # <<>> /\ Left = Len(job.todo)
    BY DEF Typed, Running, Left
  <2>2. \A n \in 1 .. Left : job.todo[n].do \notin Guarded /\ job.todo[n].on \in {"abort", "ignore"}
    BY <1>7 DEF InScript
  <2>3. On \in {"abort", "ignore"}
    BY <2>1, <2>2 DEF On
  <2>4. Moved \/ Ignores
    <3>1. ~Aborts /\ ~Dies
      BY <1>7, StopsThere
    <3> QED
      BY <2>3, <3>1 DEF Stepped, Succeeds, Fails, Undoes, Skips
  <2>5. job'.todo = Tail(job.todo) /\ Left' = Left - 1
    BY <2>4, Counts DEF Moved, Ignores
  <2>6. job'.todo[i] = job.todo[i + 1] /\ i + 1 \in 1 .. Left
    BY <2>1, <2>5
  <2> QED
    BY <2>2, <2>6
<1>8. job.op \in Restores => job.undo = Undo
  BY DEF InScript
<1> QED
  BY <1>1, <1>2, <1>5, <1>6, <1>7, <1>8 DEF InScript

\* Stopped anywhere, an update or a rollback leaves a matching pair.
LEMMA RecoverableKept ==
  ASSUME Typed, InScript, Placed, Running, Stepped
  PROVE  Recoverable'
<1>1. /\ job'.op = job.op /\ before' = before /\ Kept
  BY DEF Stepped, Quiet, Succeeds, Carried, Fails, Aborts, Undoes, Ignores, Skips, Dies, Same
<1>2. ASSUME job.op = "update", Matched(Installed(before))
      PROVE  Matched(Installed(disk')) \/ Matched(disk'.rollback)
  <2>1. CASE job.undoing
    <3>1. disk.rollback = Installed(before)
      BY <1>2, <2>1 DEF Placed, UpdateBack, Back
    <3>2. disk'.rollback = disk.rollback
      BY <1>1, <1>2, <2>1, UpdateUndoPlace DEF Kept, Calls
    <3> QED
      BY <1>2, <3>1, <3>2
  <2>2. CASE ~job.undoing
    <3>1. /\ Left >= 12 => disk.server = before.server
          /\ Left >= 11 => disk.ctl = before.ctl
          /\ Left <= 12 => disk.rollback = Installed(before)
      BY <1>2, <2>2 DEF Placed, UpdateForth, Forth
    <3>2. Left \in 1 .. 18
      BY <1>2, <2>2, UpdatePlace
    <3>3. CASE Left >= 13
      <4>1. disk'.server = disk.server /\ disk'.ctl = disk.ctl
        BY <1>1, <1>2, <2>2, <3>2, <3>3, UpdatePlace DEF Kept, Calls
      <4> QED
        BY <1>2, <3>1, <3>2, <3>3, <4>1 DEF Installed
    <3>4. CASE Left <= 12
      <4>1. disk'.rollback = disk.rollback
        BY <1>1, <1>2, <2>2, <3>2, <3>4, UpdatePlace DEF Kept, Calls
      <4> QED
        BY <1>2, <3>1, <3>4, <4>1
    <3> QED
      BY <3>2, <3>3, <3>4
  <2> QED
    BY <2>1, <2>2
<1>3. ASSUME job.op = "rollback", Matched(Installed(before))
      PROVE  Matched(Installed(disk')) \/ Matched(disk'.rollback)
  <2>1. CASE job.undoing
    <3>1. disk.rollback = before.rollback /\ Matched(before.rollback)
      BY <1>3, <2>1 DEF Placed, RollbackBack, Back
    <3>2. disk'.rollback = disk.rollback
      BY <1>1, <1>3, <2>1, RollbackUndoPlace DEF Kept, Calls
    <3> QED
      BY <3>1, <3>2
  <2>2. CASE ~job.undoing
    <3>1. /\ Left >= 14 => disk.server = before.server
          /\ Left >= 13 => disk.ctl = before.ctl
          /\ Left >= 2 => disk.rollback = before.rollback
          /\ Left <= 16 => Matched(before.rollback)
          /\ Left <= 13 => disk.server = before.rollback.server
          /\ Left <= 12 => disk.ctl = before.rollback.ctl
      BY <1>3, <2>2 DEF Placed, RollbackForth, Forth
    <3>2. Left \in 1 .. 17
      BY <1>3, <2>2, RollbackPlace
    <3>3. CASE Left = 17
      <4>1. disk'.server = disk.server /\ disk'.ctl = disk.ctl
        BY <1>1, <1>3, <2>2, <3>3, RollbackPlace DEF Kept, Calls
      <4> QED
        BY <1>3, <3>1, <3>3, <4>1 DEF Installed
    <3>4. CASE Left \in 3 .. 16
      <4>1. disk'.rollback = disk.rollback
        BY <1>1, <1>3, <2>2, <3>2, <3>4, RollbackPlace DEF Kept, Calls
      <4> QED
        BY <3>1, <3>4, <4>1
    <3>5. CASE Left <= 2
      <4>1. disk'.server = disk.server /\ disk'.ctl = disk.ctl
        BY <1>1, <1>3, <2>2, <3>2, <3>5, RollbackPlace DEF Kept, Calls
      <4>2. disk'.server = before.rollback.server /\ disk'.ctl = before.rollback.ctl /\ Matched(before.rollback)
        BY <3>1, <3>2, <3>5, <4>1
      <4> QED
        BY <4>2 DEF Matched, Installed
    <3> QED
      BY <3>2, <3>3, <3>4, <3>5
  <2> QED
    BY <2>1, <2>2
<1> QED
  BY <1>1, <1>2, <1>3 DEF Recoverable

\* A command whose name is not a plan's says nothing of that plan.
LEMMA PlacedElsewhere ==
  ASSUME job'.op = job.op
  PROVE  /\ job.op # "update" => UpdateForth' /\ UpdateBack'
         /\ job.op # "rollback" => RollbackForth' /\ RollbackBack'
         /\ job.op # "edit" => EditForth'
         /\ job.op # "repair" => RepairForth'
         /\ job.op \notin Installs => InstallForth' /\ InstallBack'
<1>1. job.op # "update" => UpdateForth' /\ UpdateBack'
  BY DEF UpdateForth, UpdateBack, Forth, Back
<1>2. job.op # "rollback" => RollbackForth' /\ RollbackBack'
  BY DEF RollbackForth, RollbackBack, Forth, Back
<1>3. job.op # "edit" => EditForth'
  BY DEF EditForth, Forth
<1>4. job.op # "repair" => RepairForth'
  BY DEF RepairForth, Forth
<1>5. job.op \notin Installs => InstallForth' /\ InstallBack'
  BY DEF InstallForth, InstallBack, Forth, Back
<1> QED
  BY <1>1, <1>2, <1>3, <1>4, <1>5

LEMMA StepKeeps ==
  ASSUME Managed, Running, Next
  PROVE  Stepped /\ Managed'
<1>1. Typed /\ InScript /\ Placed
  BY DEF Managed
<1>2. Stepped
  BY <1>1, LegalCalls, StepTaken
<1>3. Typed' /\ InScript' /\ Recoverable'
  BY <1>1, <1>2, TypedKept, InScriptKept, RecoverableKept
<1>4. job'.op = job.op
  BY <1>2 DEF Stepped, Succeeds, Carried, Fails, Aborts, Undoes, Ignores, Skips, Dies, Same
<1>5. UpdateForth' /\ UpdateBack'
  BY <1>1, <1>2, <1>4, UpdateKeeps, PlacedElsewhere DEF Placed
<1>6. RollbackForth' /\ RollbackBack'
  BY <1>1, <1>2, <1>4, RollbackKeeps, PlacedElsewhere DEF Placed
<1>7. EditForth' /\ RepairForth'
  BY <1>1, <1>2, <1>4, EditKeeps, RepairKeeps, PlacedElsewhere DEF Placed
<1>8. InstallForth' /\ InstallBack'
  BY <1>1, <1>2, <1>4, InstallKeeps, PlacedElsewhere DEF Placed
<1> QED
  BY <1>2, <1>3, <1>5, <1>6, <1>7, <1>8 DEF Managed, Placed

-------------------------------------------------------------------------------
(* A command that starts.                                                    *)

LEMMA SomeCalls ==
  ASSUME NEW s \in Seq(Call), Len(s) # 0
  PROVE  s # <<>>
<1>1. s = <<>> => Len(s) = 0
  BY NoCalls
<1> QED
  BY <1>1

LEMMA Begun ==
  ASSUME Typed, NEW op \in Ops \ {"none"}, NEW todo \in Seq(Call), todo # <<>>, NEW undo, NEW args \in Args,
         Begin(op, todo, undo, args)
  PROVE  /\ Typed' /\ Recoverable' /\ Running' /\ before' = disk /\ disk' = disk
         /\ job'.op = op /\ job'.todo = todo /\ job'.undo = undo /\ ~job'.undoing
         /\ job'.args = args /\ job'.snap = NoSnap /\ Left' = Len(todo)
<1>1. /\ commands < MaxCommands /\ commands' = commands + 1 /\ before' = disk /\ disk' = disk
      /\ interrupted' = interrupted
      /\ job' = [op |-> op, todo |-> todo, undo |-> undo, undoing |-> FALSE, args |-> args,
                 snap |-> NoSnap, outcome |-> "none"]
  BY DEF Begin
<1>2. /\ DOMAIN job' = JobFields /\ job'.op = op /\ job'.todo = todo /\ job'.undo = undo
      /\ job'.undoing = FALSE /\ job'.args = args /\ job'.snap = NoSnap /\ job'.outcome = "none"
  BY <1>1 DEF JobFields
<1>3. NoSnap \in Snaps
  BY DEF NoSnap, Snaps, Snapshot
<1>4. disk' \in Disk /\ before' \in Disk /\ interrupted' \in BOOLEAN
  BY <1>1 DEF Typed
<1>5. commands' \in 0 .. MaxCommands
  BY <1>1, ManagementAssumption DEF Typed
<1>6. Running'
  BY <1>2 DEF Running
<1>7. Typed'
  BY <1>2, <1>3, <1>4, <1>5, <1>6 DEF Typed, Outcomes
<1>8. Recoverable'
  BY <1>1 DEF Recoverable
<1> QED
  BY <1>1, <1>2, <1>6, <1>7, <1>8 DEF Left

LEMMA NoArgsTyped ==
  /\ NoArgs \in Args
  /\ \A tag \in Versions : [NoArgs EXCEPT !.tag = tag] \in Args
  BY DEF NoArgs, Args, NoPair, Pair

LEMMA UpdateBegins ==
  ASSUME Typed, Update
  PROVE  Managed'
<1>1. PICK tag \in Versions : Begin("update", UpdateScript, UpdateUndo, [NoArgs EXCEPT !.tag = tag])
  BY DEF Update
<1>2. /\ UpdateScript \in Seq(Call) /\ Len(UpdateScript) = 18 /\ UpdateScript # <<>>
  <2>1. UpdateScript \in Seq(Call) /\ Len(UpdateScript) = 18
    BY UpdateCalls
  <2>2. Len(UpdateScript) # 0
    BY <2>1
  <2> QED
    BY <2>1, <2>2, SomeCalls
<1>3. /\ Typed' /\ Recoverable' /\ Running' /\ before' = disk /\ disk' = disk
      /\ job'.op = "update" /\ job'.todo = UpdateScript /\ job'.undo = UpdateUndo /\ ~job'.undoing
      /\ Left' = 18
  <2>1. "update" \in Ops \ {"none"}
    BY DEF Ops, Restores
  <2> QED
    BY <1>1, <1>2, <2>1, NoArgsTyped, Begun
<1>4. InScript'
  <2>1. Script' = UpdateScript /\ Undo' = UpdateUndo
    BY <1>3 DEF Script, Main, Undo
  <2>2. job'.op \notin Others /\ job'.op # "none" /\ Left' = Len(UpdateScript) /\ Left' <= Len(UpdateScript)
    BY <1>2, <1>3 DEF Others
  <2>3. Rest(UpdateScript, Len(UpdateScript)) = UpdateScript
    BY <1>2, RestAll
  <2> QED
    BY <1>3, <2>1, <2>2, <2>3 DEF InScript, Restores
<1>5. UpdateForth'
  BY <1>3 DEF UpdateForth
<1>6. Placed'
  BY <1>3, <1>5 DEF Placed, UpdateBack, RollbackForth, RollbackBack, EditForth, RepairForth,
     InstallForth, InstallBack, Forth, Back, Installs
<1> QED
  BY <1>3, <1>4, <1>6 DEF Managed

LEMMA RollbackBegins ==
  ASSUME Typed, Rollback
  PROVE  Managed'
<1>1. Begin("rollback", RollbackScript, RollbackUndo, NoArgs)
  BY DEF Rollback
<1>2. /\ RollbackScript \in Seq(Call) /\ Len(RollbackScript) = 17 /\ RollbackScript # <<>>
  <2>1. RollbackScript \in Seq(Call) /\ Len(RollbackScript) = 17
    BY RollbackCalls
  <2>2. Len(RollbackScript) # 0
    BY <2>1
  <2> QED
    BY <2>1, <2>2, SomeCalls
<1>3. /\ Typed' /\ Recoverable' /\ Running' /\ before' = disk /\ disk' = disk
      /\ job'.op = "rollback" /\ job'.todo = RollbackScript /\ job'.undo = RollbackUndo /\ ~job'.undoing
      /\ Left' = 17
  <2>1. "rollback" \in Ops \ {"none"}
    BY DEF Ops, Restores
  <2> QED
    BY <1>1, <1>2, <2>1, NoArgsTyped, Begun
<1>4. InScript'
  <2>1. Script' = RollbackScript /\ Undo' = RollbackUndo
    BY <1>3 DEF Script, Main, Undo
  <2>2. job'.op \notin Others /\ job'.op # "none" /\ Left' = Len(RollbackScript) /\ Left' <= Len(RollbackScript)
    BY <1>2, <1>3 DEF Others
  <2>3. Rest(RollbackScript, Len(RollbackScript)) = RollbackScript
    BY <1>2, RestAll
  <2> QED
    BY <1>3, <2>1, <2>2, <2>3 DEF InScript, Restores
<1>5. RollbackForth'
  BY <1>3 DEF RollbackForth
<1>6. Placed'
  BY <1>3, <1>5 DEF Placed, UpdateForth, UpdateBack, RollbackBack, EditForth, RepairForth,
     InstallForth, InstallBack, Forth, Back, Installs
<1> QED
  BY <1>3, <1>4, <1>6 DEF Managed

LEMMA EditBegins ==
  ASSUME Typed, Edit
  PROVE  Managed'
<1>1. Begin("edit", EditScript, EditUndo, NoArgs)
  BY DEF Edit
<1>2. /\ EditScript \in Seq(Call) /\ Len(EditScript) = 7 /\ EditScript # <<>>
  <2>1. EditScript \in Seq(Call) /\ Len(EditScript) = 7
    BY EditCalls
  <2>2. Len(EditScript) # 0
    BY <2>1
  <2> QED
    BY <2>1, <2>2, SomeCalls
<1>3. /\ Typed' /\ Recoverable' /\ Running' /\ before' = disk /\ disk' = disk
      /\ job'.op = "edit" /\ job'.todo = EditScript /\ job'.undo = EditUndo /\ ~job'.undoing
      /\ Left' = 7
  <2>1. "edit" \in Ops \ {"none"}
    BY DEF Ops, Restores
  <2> QED
    BY <1>1, <1>2, <2>1, NoArgsTyped, Begun
<1>4. InScript'
  <2>1. Script' = EditScript /\ Undo' = EditUndo
    BY <1>3 DEF Script, Main, Undo
  <2>2. job'.op \notin Others /\ job'.op # "none" /\ Left' = Len(EditScript) /\ Left' <= Len(EditScript)
    BY <1>2, <1>3 DEF Others
  <2>3. Rest(EditScript, Len(EditScript)) = EditScript
    BY <1>2, RestAll
  <2> QED
    BY <1>3, <2>1, <2>2, <2>3 DEF InScript, Restores
<1>5. EditForth'
  BY <1>3 DEF EditForth
<1>6. Placed'
  BY <1>3, <1>5 DEF Placed, UpdateForth, UpdateBack, RollbackForth, RollbackBack, RepairForth,
     InstallForth, InstallBack, Forth, Back, Installs
<1> QED
  BY <1>3, <1>4, <1>6 DEF Managed

\* The commands whose calls are not followed one by one.
LEMMA OtherBegins ==
  ASSUME Typed, NEW op \in Others, NEW todo \in Seq(Call), todo # <<>>,
         \A i \in 1 .. Len(todo) : todo[i].do \notin Guarded /\ todo[i].on \in {"abort", "ignore"},
         Begin(op, todo, <<>>, NoArgs)
  PROVE  Managed'
<1>1. /\ Typed' /\ Recoverable' /\ Running' /\ job'.op = op /\ job'.todo = todo /\ ~job'.undoing
      /\ Left' = Len(todo)
  <2>1. op \in Ops \ {"none"}
    BY DEF Ops, Others
  <2> QED
    BY <2>1, NoArgsTyped, Begun
<1>2. job'.op \notin Restores /\ job'.op # "repair" /\ job'.op # "none" /\ job'.op \notin Installs
  BY <1>1 DEF Restores, Others, Installs
<1>3. InScript'
  BY <1>1, <1>2 DEF InScript
<1>4. Placed'
  BY <1>2 DEF Placed, UpdateForth, UpdateBack, RollbackForth, RollbackBack, EditForth, RepairForth,
     InstallForth, InstallBack, Forth, Back, Restores
<1> QED
  BY <1>1, <1>3, <1>4 DEF Managed

LEMMA RepairBegins ==
  ASSUME Typed, Repair
  PROVE  Managed'
<1>1. CASE Begin("repair", RepairScript, <<>>, NoArgs)
  <2>1. /\ RepairScript \in Seq(Call) /\ Len(RepairScript) = 9 /\ RepairScript # <<>>
    <3>1. RepairScript \in Seq(Call) /\ Len(RepairScript) = 9
      BY RepairCalls
    <3>2. Len(RepairScript) # 0
      BY <3>1
    <3> QED
      BY <3>1, <3>2, SomeCalls
  <2>2. /\ Typed' /\ Recoverable' /\ Running' /\ job'.op = "repair" /\ job'.todo = RepairScript
        /\ ~job'.undoing /\ Left' = 9
    <3>1. "repair" \in Ops \ {"none"}
      BY DEF Ops
    <3> QED
      BY <1>1, <2>1, <3>1, NoArgsTyped, Begun
  <2>3. InScript'
    <3>1. Script' = RepairScript
      BY <2>2 DEF Script, Main
    <3>2. /\ job'.op \notin Others /\ job'.op # "none" /\ job'.op \notin Restores
          /\ Left' = Len(RepairScript) /\ Left' <= Len(RepairScript)
      BY <2>1, <2>2 DEF Others, Restores, Installs
    <3>3. Rest(RepairScript, Len(RepairScript)) = RepairScript
      BY <2>1, RestAll
    <3> QED
      BY <2>2, <3>1, <3>2, <3>3 DEF InScript
  <2>4. RepairForth'
    BY <2>2 DEF RepairForth
  <2>5. Placed'
    BY <2>2, <2>4 DEF Placed, UpdateForth, UpdateBack, RollbackForth, RollbackBack, EditForth,
       InstallForth, InstallBack, Forth, Back, Installs
  <2> QED
    BY <2>2, <2>3, <2>5 DEF Managed
<1>2. CASE Begin("repair-no-restart", Steps(RepairSteps, "abort"), <<>>, NoArgs)
  <2> DEFINE todo == Steps(RepairSteps, "abort")
  <2>1. RepairSteps \in Seq(Names) /\ Len(RepairSteps) = 8
    BY RepairNames
  <2>2. /\ todo \in Seq(Call) /\ Len(todo) = 8
        /\ \A i \in 1 .. 8 : todo[i] = [do |-> RepairSteps[i], on |-> "abort"]
    BY <2>1, StepsSeq
  <2>3. \A i \in 1 .. 8 : RepairSteps[i] \notin Guarded
    BY DEF RepairSteps, Guarded
  <2> HIDE DEF todo
  <2>4. todo # <<>> /\ \A i \in 1 .. Len(todo) : todo[i].do \notin Guarded /\ todo[i].on \in {"abort", "ignore"}
    <3>1. todo # <<>>
      <4>1. Len(todo) # 0
        BY <2>2
      <4> QED
        BY <2>2, <4>1, SomeCalls
    <3>2. \A i \in 1 .. 8 : todo[i].do = RepairSteps[i] /\ todo[i].on = "abort"
      BY <2>2
    <3> QED
      BY <2>2, <2>3, <3>1, <3>2
  <2> QED
    BY <1>2, <2>2, <2>4, OtherBegins DEF todo, Others
<1> QED
  BY <1>1, <1>2 DEF Repair, RepairScript

\* A script that makes no call of the guarded ones and cannot ask to be undone.
Harmless(s) ==
  /\ s \in Seq(Call)
  /\ \A i \in 1 .. Len(s) : s[i].do \notin Guarded /\ s[i].on \in {"abort", "ignore"}

LEMMA HarmlessSteps ==
  ASSUME NEW names \in Seq(Names \ Guarded), NEW on \in {"abort", "ignore"}
  PROVE  Harmless(Steps(names, on)) /\ Len(Steps(names, on)) = Len(names)
<1>1. names \in Seq(Names) /\ \A i \in 1 .. Len(names) : names[i] \notin Guarded
  OBVIOUS
<1>2. /\ Steps(names, on) \in Seq(Call) /\ Len(Steps(names, on)) = Len(names)
      /\ \A i \in 1 .. Len(names) : Steps(names, on)[i] = [do |-> names[i], on |-> on]
  BY <1>1, StepsSeq
<1> DEFINE s == Steps(names, on)
<1> DEFINE n == Len(names)
<1>3. /\ s \in Seq(Call) /\ Len(s) = n /\ \A i \in 1 .. n : s[i] = [do |-> names[i], on |-> on]
      /\ \A i \in 1 .. n : names[i] \notin Guarded
  BY <1>1, <1>2
<1> HIDE DEF s, n
<1>4. \A i \in 1 .. n : s[i].do = names[i] /\ s[i].on = on
  BY <1>3
<1>5. Harmless(s)
  BY <1>3, <1>4 DEF Harmless
<1> QED
  BY <1>3, <1>5 DEF s, n

LEMMA HarmlessJoin ==
  ASSUME NEW s, NEW t, Harmless(s), Harmless(t)
  PROVE  Harmless(s \o t) /\ Len(s \o t) = Len(s) + Len(t)
<1>1. s \in Seq(Call) /\ t \in Seq(Call) /\ Len(s) \in Nat /\ Len(t) \in Nat
  BY DEF Harmless
<1>2. s \o t \in Seq(Call) /\ Len(s \o t) = Len(s) + Len(t)
  BY <1>1, JoinSeq
<1>3. ASSUME NEW i \in 1 .. Len(s \o t)
      PROVE  (s \o t)[i].do \notin Guarded /\ (s \o t)[i].on \in {"abort", "ignore"}
  <2>1. CASE i \in 1 .. Len(s)
    <3>1. (s \o t)[i] = s[i]
      BY <1>1, <2>1, JoinSeq
    <3> QED
      BY <2>1, <3>1 DEF Harmless
  <2>2. CASE i \notin 1 .. Len(s)
    <3>1. PICK j \in 1 .. Len(t) : i = Len(s) + j
      <4>1. i - Len(s) \in 1 .. Len(t) /\ i = Len(s) + (i - Len(s))
        BY <1>1, <1>2, <2>2
      <4> QED
        BY <4>1
    <3>2. (s \o t)[i] = t[j]
      BY <1>1, <3>1, JoinSeq
    <3> QED
      BY <3>1, <3>2 DEF Harmless
  <2> QED
    BY <2>1, <2>2
<1> QED
  BY <1>2, <1>3 DEF Harmless

LEMMA HarmlessBegins ==
  ASSUME Typed, NEW op \in Others, NEW todo, Harmless(todo), Len(todo) # 0,
         Begin(op, todo, <<>>, NoArgs)
  PROVE  Managed'
<1>1. /\ todo \in Seq(Call)
      /\ \A i \in 1 .. Len(todo) : todo[i].do \notin Guarded /\ todo[i].on \in {"abort", "ignore"}
  BY DEF Harmless
<1>2. todo # <<>>
  BY <1>1, SomeCalls
<1> QED
  BY <1>1, <1>2, OtherBegins

LEMMA UninstallBegins ==
  ASSUME Typed, Uninstall
  PROVE  Managed'
<1>1. PICK purge \in BOOLEAN : Begin("uninstall", UninstallScript(purge), <<>>, NoArgs)
  BY DEF Uninstall
<1> DEFINE
     a == Steps(<<"disable-now">>, "ignore")
     b == Steps(<<"remove-unit">>, "abort")
     c == Steps(<<"remove-server", "remove-ctl">>, "abort")
     p == Steps(<<"purge-config", "purge-state", "purge-manager">>, "abort")
     d == IF purge THEN p ELSE <<>>
<1>2. Harmless(a) /\ Len(a) = 1
  <2>1. <<"disable-now">> \in Seq(Names \ Guarded) /\ Len(<<"disable-now">>) = 1
    BY DEF Names, Guarded
  <2> QED
    BY <2>1, HarmlessSteps
<1>3. Harmless(b)
  <2>1. <<"remove-unit">> \in Seq(Names \ Guarded)
    BY DEF Names, Guarded
  <2> QED
    BY <2>1, HarmlessSteps
<1>4. Harmless(c)
  <2>1. <<"remove-server", "remove-ctl">> \in Seq(Names \ Guarded)
    BY DEF Names, Guarded
  <2> QED
    BY <2>1, HarmlessSteps
<1>5. Harmless(d)
  <2>1. <<"purge-config", "purge-state", "purge-manager">> \in Seq(Names \ Guarded)
    BY DEF Names, Guarded
  <2>2. Harmless(p)
    BY <2>1, HarmlessSteps
  <2>3. Harmless(<<>>)
    BY NoCalls DEF Harmless
  <2> HIDE DEF p
  <2>4. d = p \/ d = <<>>
    OBVIOUS
  <2> QED
    BY <2>2, <2>3, <2>4
<1>6. UninstallScript(purge) = a \o b \o c \o d
  BY DEF UninstallScript
<1> HIDE DEF a, b, c, d
<1>7. Harmless(a \o b) /\ Len(a \o b) = 1 + Len(b)
  BY <1>2, <1>3, HarmlessJoin
<1>8. Harmless(a \o b \o c) /\ Len(a \o b \o c) = 1 + Len(b) + Len(c)
  BY <1>4, <1>7, HarmlessJoin
<1>9. Harmless(a \o b \o c \o d) /\ Len(a \o b \o c \o d) = 1 + Len(b) + Len(c) + Len(d)
  BY <1>5, <1>8, HarmlessJoin
<1>10. Len(b) \in Nat /\ Len(c) \in Nat /\ Len(d) \in Nat
  BY <1>3, <1>4, <1>5 DEF Harmless
<1>11. Harmless(UninstallScript(purge)) /\ Len(UninstallScript(purge)) # 0
  BY <1>6, <1>9, <1>10
<1>12. "uninstall" \in Others
  BY DEF Others
<1> QED
  BY <1>1, <1>11, <1>12, HarmlessBegins

LEMMA ServiceBegins ==
  ASSUME Typed, Service
  PROVE  Managed'
<1>1. PICK a \in {"restart", "stop", "enable", "disable"} :
        Begin("service", Steps(<<a>>, "abort"), <<>>, NoArgs)
  BY DEF Service
<1> DEFINE names == <<a>>
<1>2. names \in Seq(Names \ Guarded) /\ Len(names) = 1
  BY DEF Names, Guarded
<1>3. Begin("service", Steps(names, "abort"), <<>>, NoArgs)
  BY <1>1
<1> HIDE DEF names
<1>4. Harmless(Steps(names, "abort")) /\ Len(Steps(names, "abort")) = Len(names)
  BY <1>2, HarmlessSteps
<1>5. Len(Steps(names, "abort")) # 0
  BY <1>2, <1>4
<1>6. "service" \in Others
  BY DEF Others
<1> QED
  BY <1>3, <1>4, <1>5, <1>6, HarmlessBegins

Choices == Wizard \cup {<<c, <<>>, None>> : c \in Configs}

LEMMA ChoiceTyped ==
  ASSUME NEW choice \in Choices
  PROVE  /\ choice[1] \in Configs /\ choice[2] \in {<<>>} \cup Idents \X Idents
         /\ choice[3] \in Sites \cup {None}
<1>1. CASE choice \in Wizard
  BY <1>1, ManagementAssumption DEF Wizard
<1>2. CASE choice \in {<<c, <<>>, None>> : c \in Configs}
  BY <1>2
<1> QED
  BY <1>1, <1>2 DEF Choices

LEMMA InstallBegins ==
  ASSUME Typed, Install
  PROVE  Managed'
<1>1. PICK v \in Versions, start \in BOOLEAN, choice \in Choices :
        Begin(IF start THEN "install" ELSE "install-no-start",
              InstallScript(choice[2] # <<>>, choice[3] # None, start), InstallUndo,
              [NoArgs EXCEPT !.new = [server |-> v, ctl |-> v], !.cfg = choice[1],
                             !.tls = choice[2], !.dist = choice[3]])
  BY DEF Install, Choices
<1> DEFINE args == [NoArgs EXCEPT !.new = [server |-> v, ctl |-> v], !.cfg = choice[1],
                                  !.tls = choice[2], !.dist = choice[3]]
<1> DEFINE op == IF start THEN "install" ELSE "install-no-start"
<1>2. /\ args \in Args /\ args.new = [server |-> v, ctl |-> v] /\ args.cfg = choice[1]
      /\ args.tls = choice[2] /\ args.dist = choice[3]
  <2> DEFINE new == [server |-> v, ctl |-> v]
  <2> DEFINE cfg == choice[1]
  <2> DEFINE key == choice[2]
  <2> DEFINE site == choice[3]
  <2>1. new \in Pair
    BY DEF Pair
  <2>2. cfg \in Configs /\ key \in {<<>>} \cup Idents \X Idents /\ site \in Sites \cup {None}
    BY ChoiceTyped
  <2>3. args = [NoArgs EXCEPT !.new = new, !.cfg = cfg, !.tls = key, !.dist = site]
    OBVIOUS
  <2> HIDE DEF args, new, cfg, key, site
  <2>4. args \in Args
    BY <2>1, <2>2, <2>3 DEF NoArgs, Args
  <2>5. args.new = new /\ args.cfg = cfg /\ args.tls = key /\ args.dist = site
    BY <2>3 DEF NoArgs
  <2> QED
    BY <2>4, <2>5 DEF new, cfg, key, site
<1>3. op \in Installs /\ (op = "install" <=> start)
  BY DEF Installs
<1> DEFINE tls == args.tls # <<>>
<1> DEFINE dist == args.dist # None
<1> DEFINE s == InstallScript(tls, dist, start)
<1>4. Begin(op, s, InstallUndo, args)
  BY <1>1, <1>2
<1>5. v # None /\ args.cfg # None
  BY <1>2, ChoiceTyped, ManagementAssumption
<1> DEFINE n == IF start THEN 12 ELSE 9
<1> DEFINE r == IF dist THEN 3 ELSE 0
<1> DEFINE t == IF tls THEN 4 ELSE 0
<1>6. tls \in BOOLEAN /\ dist \in BOOLEAN /\ s = InstallScript(tls, dist, start)
  OBVIOUS
<1>7. /\ n \in {9, 12} /\ r \in {0, 3} /\ t \in {0, 4} /\ (tls => t = 4) /\ (dist => r = 3)
      /\ n = (IF start THEN 12 ELSE 9) /\ r = (IF dist THEN 3 ELSE 0) /\ t = (IF tls THEN 4 ELSE 0)
  OBVIOUS
<1> HIDE DEF s, n, r, t
<1>8. s \in Seq(Call) /\ Len(s) = n + r + t + 4
  <2> HIDE DEF tls, dist
  <2>1. InstallTable(s, tls, dist, start, n, r, t)
    BY <1>6, <1>7, InstallCalls
  <2> QED
    BY <2>1 DEF InstallTable
<1>9. s # <<>>
  <2>1. Len(s) # 0
    BY <1>7, <1>8
  <2> QED
    BY <1>8, <2>1, SomeCalls
<1> HIDE DEF args, op
<1>10. /\ Typed' /\ Recoverable' /\ Running' /\ before' = disk /\ disk' = disk
       /\ job'.op = op /\ job'.todo = s /\ job'.undo = InstallUndo /\ ~job'.undoing
       /\ job'.args = args /\ job'.snap = NoSnap /\ Left' = Len(s)
  <2>1. op \in Ops \ {"none"}
    BY <1>3 DEF Ops, Restores, Installs
  <2> QED
    BY <1>2, <1>4, <1>8, <1>9, <2>1, Begun
<1>11. Wanted' = start
  BY <1>3, <1>10 DEF Wanted
<1>12. /\ After' = n /\ ForSite' = r /\ ForTls' = t
  BY <1>7, <1>10, <1>11 DEF After, ForSite, ForTls
<1>13. InScript'
  <2>1. job'.op \in Installs /\ job'.op \in Restores /\ job'.op \notin Others /\ job'.op # "none"
    BY <1>3, <1>10 DEF Restores, Others, Installs
  <2>2. Main' = s
    <3>1. Main' = InstallScript(job'.args.tls # <<>>, job'.args.dist # None, Wanted')
      BY <2>1 DEF Main, Installs
    <3> QED
      BY <1>6, <1>10, <1>11, <3>1
  <2>3. Script' = s /\ Undo' = InstallUndo
    BY <1>10, <2>1, <2>2 DEF Script, Undo, Installs
  <2>4. Rest(s, Len(s)) = s /\ Len(s) <= Len(s)
    BY <1>7, <1>8, RestAll
  <2> QED
    BY <1>10, <2>1, <2>3, <2>4 DEF InScript
<1>14. /\ job'.snap.cert = <<>> /\ job'.snap.key = <<>> /\ job'.snap.site = <<>> /\ ~job'.snap.siteIn
  BY <1>10 DEF NoSnap
<1>15. InstallForth'
  <2>1. /\ job'.args.new.server = job'.args.new.ctl /\ job'.args.new.server # None
        /\ job'.args.cfg # None
    BY <1>2, <1>5, <1>10
  <2>2. Saved'
    BY <1>14 DEF Saved
  <2>3. /\ disk'.cert = before'.cert /\ disk'.key = before'.key /\ SiteWas(disk.site)'
        /\ disk'.config = before'.config
    BY <1>10 DEF SiteWas
  <2>4. Left' = n + r + t + 4 /\ (job'.args.tls # <<>> => t = 4) /\ (job'.args.dist # None => r = 3)
    BY <1>7, <1>8, <1>10
  <2> QED
    BY <1>7, <1>12, <1>14, <2>1, <2>2, <2>3, <2>4 DEF InstallForth
<1>16. Placed'
  <2>1. /\ job'.op \notin {"update", "rollback", "edit", "repair"}
    BY <1>3, <1>10 DEF Installs
  <2> QED
    BY <1>10, <1>15, <2>1 DEF Placed, UpdateForth, UpdateBack, RollbackForth, RollbackBack, EditForth,
       RepairForth, InstallBack, Forth, Back
<1> QED
  BY <1>10, <1>13, <1>16 DEF Managed

\* Nothing but a new command happens while none runs.
LEMMA OnlyCommands ==
  ASSUME ~Running, Next
  PROVE  Command
<1>1. ~Fail /\ ~Die
  BY DEF Fail, Die
<1>2. \A step : ~At(step)
  BY DEF At
<1>3. ~Verify /\ ~CheckConfig
  BY <1>2 DEF Verify, CheckConfig, Check
<1>4. ~ValidateRelease /\ ~Download /\ ~Directories
  BY <1>2 DEF ValidateRelease, Download, Directories
<1>5. ~StageServer /\ ~StageCtl /\ ~CopyServer /\ ~CopyCtl
  BY <1>2 DEF StageServer, StageCtl, CopyServer, CopyCtl, Write
<1>6. ~RestoreServer /\ ~RestoreCtl /\ ~Unstage /\ ~WriteUnit
  BY <1>2 DEF RestoreServer, RestoreCtl, Unstage, WriteUnit, Write
<1>7. ~DropRollback /\ ~NameRollback /\ ~Enable /\ ~Disable /\ ~Restart /\ ~Editor
  BY <1>2 DEF DropRollback, NameRollback, Enable, Disable, Restart, Editor
<1>8. ~BackupConfig /\ ~InstallConfig /\ ~RestoreConfig
  BY <1>2 DEF BackupConfig, InstallConfig, RestoreConfig, Write
<1>9. ~SnapshotTls /\ ~CopyTls /\ ~SiteOut /\ ~SiteIn
  BY <1>2 DEF SnapshotTls, CopyTls, SiteOut, SiteIn, Write
<1>10. ~RestoreResources /\ ~Remove /\ ~Purge
  BY <1>2 DEF RestoreResources, Remove, Purge, Write
<1> QED
  BY <1>1, <1>3, <1>4, <1>5, <1>6, <1>7, <1>8, <1>9, <1>10 DEF Next

LEMMA CommandKeeps ==
  ASSUME Managed, ~Running, Next
  PROVE  Managed' /\ disk' = disk
<1>1. Typed /\ Command
  BY OnlyCommands DEF Managed
<1>2. Managed'
  BY <1>1, InstallBegins, UpdateBegins, RollbackBegins, EditBegins, RepairBegins, UninstallBegins,
     ServiceBegins DEF Command
<1>3. disk' = disk
  BY <1>1 DEF Command, Install, Update, Rollback, Edit, Repair, Uninstall, Service, Begin
<1> QED
  BY <1>2, <1>3

-------------------------------------------------------------------------------
(* The invariant holds.                                                      *)

LEMMA FreshTyped ==
  /\ NoDisk \in Disk
  /\ \A v \in Versions, c \in Configs : Fresh(v, c) \in Disk
<1>1. NoPair \in Pair
  BY DEF NoPair, Pair
<1>2. NoDisk \in Disk
  BY <1>1 DEF NoDisk, Disk
<1> QED
  BY <1>1, <1>2 DEF NoDisk, Disk, Fresh

LEMMA InitManaged == Init => Managed
<1> SUFFICES ASSUME Init PROVE Managed
  OBVIOUS
<1>1. disk \in Disk /\ before = disk
  BY FreshTyped, ManagementAssumption DEF Init
<1>2. /\ DOMAIN job = JobFields /\ job.op = "none" /\ job.todo = <<>> /\ job.undoing = FALSE
      /\ job.args = NoArgs /\ job.snap = NoSnap /\ job.outcome = "none"
  BY DEF Init, JobFields
<1>3. interrupted \in BOOLEAN /\ commands \in 0 .. MaxCommands
  <2>1. interrupted = FALSE /\ commands = 0
    BY DEF Init
  <2>2. commands \in 0 .. MaxCommands
    BY <2>1, ManagementAssumption
  <2> QED
    BY <2>1, <2>2
<1>4. NoSnap \in Snaps
  BY DEF NoSnap, Snaps, Snapshot
<1>5. ~Running
  BY <1>2 DEF Running
<1>6. Typed
  <2>1. "none" \in Ops
    BY DEF Ops
  <2> QED
    BY <1>1, <1>2, <1>3, <1>4, <1>5, <2>1, NoArgsTyped, NoCalls DEF Typed, Outcomes
<1>7. job.op \notin Restores /\ job.op # "repair" /\ job.op \notin Others
  BY <1>2 DEF Restores, Others, Installs
<1>8. InScript
  BY <1>2, <1>5, <1>7 DEF InScript
<1>9. Placed
  BY <1>7 DEF Placed, UpdateForth, UpdateBack, RollbackForth, RollbackBack, EditForth, RepairForth,
     InstallForth, InstallBack, Forth, Back, Restores
<1>10. Recoverable
  BY <1>2 DEF Recoverable
<1> QED
  BY <1>6, <1>8, <1>9, <1>10 DEF Managed

LEMMA StutterKeeps ==
  ASSUME Managed, UNCHANGED vars
  PROVE  Managed'
<1>1. /\ disk' = disk /\ job' = job /\ before' = before /\ interrupted' = interrupted
      /\ commands' = commands
  BY DEF vars
<1>2. Typed'
  BY <1>1 DEF Managed, Typed, Running
<1>3. InScript'
  BY <1>1 DEF Managed, InScript, Running, Left, Script, Main, Undo, Wanted
<1>4. UpdateForth' /\ UpdateBack'
  BY <1>1 DEF Managed, Placed, UpdateForth, UpdateBack, Forth, Back, Running, Left, Usable
<1>5. RollbackForth' /\ RollbackBack'
  BY <1>1 DEF Managed, Placed, RollbackForth, RollbackBack, Forth, Back, Running, Left, Usable
<1>6. EditForth' /\ RepairForth'
  BY <1>1 DEF Managed, Placed, EditForth, RepairForth, Forth, Running, Left, Usable
<1>7. InstallForth' /\ InstallBack'
  BY <1>1 DEF Managed, Placed, InstallForth, InstallBack, Forth, Back, Running, Left, Usable, Saved,
     SiteWas, After, ForSite, ForTls, Wanted
<1>8. Recoverable'
  BY <1>1 DEF Managed, Recoverable
<1> QED
  BY <1>2, <1>3, <1>4, <1>5, <1>6, <1>7, <1>8 DEF Managed, Placed

LEMMA ManagedKept == Managed /\ [Next]_vars => Managed'
<1>1. ASSUME Managed, Next PROVE Managed'
  BY <1>1, StepKeeps, CommandKeeps
<1> QED
  BY <1>1, StutterKeeps

\* The inductive invariant: a command is at some place of its script, and what is on
\* the disk, saved and known is what that place says.
LEMMA ManagerInvariant == Spec => []Managed
  BY InitManaged, ManagedKept, PTL DEF Spec

-------------------------------------------------------------------------------
(* What follows from it.                                                     *)

\* A command that has ended has no calls left.
LEMMA Finished ==
  ASSUME Typed, job.outcome \in {"ok", "restored"}
  PROVE  ~Running /\ Left = 0
<1>1. ~Running
  BY DEF Typed
<1> QED
  BY <1>1, NoCalls DEF Running, Left

LEMMA UpdateSays == Managed => UpdateReports
<1> SUFFICES ASSUME Managed PROVE UpdateReports
  OBVIOUS
<1>1. ASSUME Ended("update", "ok")
      PROVE  /\ disk.server = job.args.tag /\ disk.ctl = job.args.tag
             /\ disk.unit = job.args.tag /\ disk.active = job.args.tag
             /\ disk.rollback = Installed(before)
  <2>1. job.op = "update" /\ job.outcome = "ok" /\ ~job.undoing /\ Left = 0
    BY <1>1, Finished DEF Managed, Ended, Typed
  <2>2. Forth({"update"})
    BY <2>1 DEF Forth
  <2> QED
    BY <2>1, <2>2 DEF Managed, Placed, UpdateForth
<1>2. ASSUME Ended("update", "restored")
      PROVE  Installed(disk) = Installed(before) /\ disk.rollback = Installed(before)
  <2>1. job.op = "update" /\ job.outcome = "restored" /\ job.undoing /\ Left = 0
    BY <1>2, Finished DEF Managed, Ended, Typed
  <2>2. Back({"update"})
    BY <2>1 DEF Back
  <2> QED
    BY <2>1, <2>2 DEF Managed, Placed, UpdateBack, Installed
<1> QED
  BY <1>1, <1>2 DEF UpdateReports

LEMMA RollbackSays == Managed => RollbackReports
<1> SUFFICES ASSUME Managed PROVE RollbackReports
  OBVIOUS
<1>1. disk \in Disk /\ before \in Disk
  BY DEF Managed, Typed
<1>2. before.rollback = [server |-> before.rollback.server, ctl |-> before.rollback.ctl]
  <2>1. before.rollback \in Pair
    BY <1>1 DEF Disk
  <2> QED
    BY <2>1 DEF Pair
<1>3. ASSUME Ended("rollback", "ok")
      PROVE  Installed(disk) = before.rollback /\ disk.rollback = Installed(before)
  <2>1. job.op = "rollback" /\ job.outcome = "ok" /\ ~job.undoing /\ Left = 0
    BY <1>3, Finished DEF Managed, Ended, Typed
  <2>2. Forth({"rollback"})
    BY <2>1 DEF Forth
  <2>3. /\ disk.server = before.rollback.server /\ disk.ctl = before.rollback.ctl
        /\ disk.rollback = Installed(before)
    BY <2>1, <2>2 DEF Managed, Placed, RollbackForth
  <2> QED
    BY <1>2, <2>3 DEF Installed
<1>4. ASSUME Ended("rollback", "restored")
      PROVE  Installed(disk) = Installed(before) /\ disk.rollback = before.rollback
  <2>1. job.op = "rollback" /\ job.outcome = "restored" /\ job.undoing /\ Left = 0
    BY <1>4, Finished DEF Managed, Ended, Typed
  <2>2. Back({"rollback"})
    BY <2>1 DEF Back
  <2> QED
    BY <2>1, <2>2 DEF Managed, Placed, RollbackBack, Installed
<1> QED
  BY <1>3, <1>4 DEF RollbackReports

LEMMA InstallSays == Managed => InstallReports
<1> SUFFICES ASSUME Managed, job.op \in Installs, job.outcome = "restored", ~interrupted
             PROVE  /\ disk.cert = before.cert /\ disk.key = before.key
                    /\ disk.site = before.site \/ before.site = None
                    /\ disk.config = before.config
  BY DEF InstallReports, Installs
<1>1. job.undoing /\ Left = 0
  BY Finished DEF Managed, Typed
<1>2. Back(Installs)
  BY <1>1 DEF Back
<1>3. SiteWas(disk.site) /\ disk.cert = before.cert /\ disk.key = before.key /\ disk.config = before.config
  BY <1>1, <1>2 DEF Managed, Placed, InstallBack
<1> QED
  BY <1>3 DEF SiteWas

LEMMA DoctorAgrees == Managed => Healthy
<1> SUFFICES ASSUME Managed, job.op \in {"install", "update", "rollback", "repair"}, job.outcome = "ok"
             PROVE  Doctor
  BY DEF Healthy
<1>1. ~job.undoing /\ Left = 0 /\ ~Running
  BY Finished DEF Managed, Typed
<1>2. Usable /\ disk.unit = disk.ctl /\ disk.enabled /\ disk.active = disk.server
  <2>1. CASE job.op = "install"
    <3>1. Forth(Installs) /\ Wanted /\ After = 12
      BY <1>1, <2>1 DEF Forth, Installs, Wanted, After
    <3> QED
      BY <1>1, <3>1 DEF Managed, Placed, InstallForth
  <2>2. CASE job.op = "update"
    BY <1>1, <2>2 DEF Managed, Placed, UpdateForth, Forth
  <2>3. CASE job.op = "rollback"
    BY <1>1, <2>3 DEF Managed, Placed, RollbackForth, Forth
  <2>4. CASE job.op = "repair"
    BY <1>1, <2>4 DEF Managed, Placed, RepairForth, Forth
  <2> QED
    BY <2>1, <2>2, <2>3, <2>4
<1>3. disk.server # None
  <2>1. CASE job.op = "install"
    <3>1. Forth(Installs) /\ After = 12
      BY <1>1, <2>1 DEF Forth, Installs, Wanted, After
    <3> QED
      BY <1>1, <3>1 DEF Managed, Placed, InstallForth
  <2>2. CASE job.op = "update"
    BY <1>1, <2>2 DEF Managed, Placed, UpdateForth, Forth
  <2>3. CASE job.op = "rollback"
    BY <1>1, <2>3 DEF Managed, Placed, RollbackForth, Forth, Matched
  <2>4. CASE job.op = "repair"
    BY <1>1, <2>4 DEF Managed, Placed, RepairForth, Forth
  <2> QED
    BY <2>1, <2>2, <2>3, <2>4
<1>4. disk.ctl \in Versions /\ disk.config # None
  BY <1>2, AcceptedIsConfig DEF Usable
<1>5. disk.ctl # None
  BY <1>4, ManagementAssumption
<1> QED
  BY <1>2, <1>3, <1>4, <1>5 DEF Doctor, Usable

\* A step that gives the configuration another content.
LEMMA ConfigReplacedBy ==
  ASSUME Managed, [Next]_vars, disk'.config # disk.config, disk'.config # None
  PROVE  \/ job.undoing /\ disk'.config = before.config
         \/ /\ disk.config # None => disk.config \in disk.backups
            /\ \E v \in Versions : Accepts(v, disk'.config, disk)
<1>1. Next /\ Running
  <2>1. disk' # disk
    OBVIOUS
  <2> QED
    BY <2>1, CommandKeeps DEF vars
<1>2. Stepped
  BY <1>1, StepKeeps
<1>3. \/ Due = "install-config" /\ disk'.config = job.args.cfg
      \/ Due = "restore-config" /\ disk'.config = before.config
  BY <1>2 DEF Stepped, Quiet, Kept
<1>4. Typed /\ InScript /\ Placed
  BY DEF Managed
<1>5. job.op \notin Others
  <2>1. job.todo \in Seq(Call) /\ job.todo # <<>>
    BY <1>1, <1>4 DEF Typed, Running
  <2>2. 1 \in 1 .. Left /\ Due = job.todo[1].do
    BY <2>1 DEF Left, Due
  <2> QED
    BY <1>1, <1>3, <1>4, <2>2 DEF InScript, Guarded
<1>6. job.op \in Restores \cup {"repair"}
  BY <1>1, <1>4, <1>5 DEF Typed, InScript, Ops
<1>7. job.op \notin {"update", "rollback", "repair"}
  <2>1. job.op # "update"
    <3>1. job.op = "update" /\ job.undoing => Due \notin {"install-config", "restore-config"}
      BY <1>1, <1>4, UpdateUndoPlace DEF Calls
    <3>2. job.op = "update" /\ ~job.undoing => Due \notin {"install-config", "restore-config"}
      BY <1>1, <1>4, UpdatePlace DEF Calls
    <3> QED
      BY <1>3, <3>1, <3>2
  <2>2. job.op # "rollback"
    <3>1. job.op = "rollback" /\ job.undoing => Due \notin {"install-config", "restore-config"}
      BY <1>1, <1>4, RollbackUndoPlace DEF Calls
    <3>2. job.op = "rollback" /\ ~job.undoing => Due \notin {"install-config", "restore-config"}
      BY <1>1, <1>4, RollbackPlace DEF Calls
    <3> QED
      BY <1>3, <3>1, <3>2
  <2>3. job.op # "repair"
    <3>1. job.op = "repair" => ~job.undoing
      BY <1>4 DEF InScript, Restores, Installs
    <3> QED
      BY <1>1, <1>3, <1>4, <3>1, RepairPlace DEF Calls
  <2> QED
    BY <2>1, <2>2, <2>3
<1>8. CASE job.op = "edit" /\ job.undoing
  <2>1. Due = "restore-config"
    BY <1>1, <1>3, <1>4, <1>8, EditUndoPlace DEF Calls
  <2> QED
    BY <1>3, <1>8, <2>1
<1>9. CASE job.op = "edit" /\ ~job.undoing
  <2>1. Due = "install-config" /\ Left = 3
    BY <1>1, <1>3, <1>4, <1>9, EditPlace DEF Calls
  <2>2. Accepts(disk.ctl, job.args.cfg, disk) /\ disk.config \in disk.backups
    BY <1>1, <1>4, <1>9, <2>1 DEF Placed, EditForth, Forth
  <2>3. disk.ctl \in Versions
    BY <2>2, AcceptedIsConfig
  <2> QED
    BY <1>3, <2>1, <2>2, <2>3
<1>10. CASE job.op \in Installs
  <2>1. ~job.undoing
    BY <1>1, <1>3, <1>4, <1>10, InstallUndoPlace DEF Calls
  <2>2. Due = "install-config" /\ Left = After - 2
    BY <1>1, <1>3, <1>4, <1>10, <2>1, InstallAt
  <2>3. /\ Accepts(job.args.new.ctl, job.args.cfg, disk)
        /\ disk.config # None => disk.config \in disk.backups
    <3>1. Forth(Installs)
      BY <1>1, <1>10, <2>1 DEF Forth
    <3>2. After \in {9, 12}
      BY InstallSizes DEF Sizes
    <3> QED
      BY <1>4, <2>2, <3>1, <3>2 DEF Placed, InstallForth
  <2>4. job.args.new.ctl \in Versions
    BY <2>3, AcceptedIsConfig
  <2> QED
    BY <1>3, <2>2, <2>3, <2>4
<1> QED
  BY <1>6, <1>7, <1>8, <1>9, <1>10 DEF Restores

-------------------------------------------------------------------------------
(* The theorems.                                                             *)

\* Whatever calls fail and wherever a command is stopped, the files on the disk and
\* the outcome have their types, and a command has no outcome exactly while it runs:
\* no path of management.rs ends without an answer, and none answers and goes on.
THEOREM ManagerTypeOK == Spec => []TypeOK
<1>1. Managed => TypeOK
  <2>1. job.args \in Args => job.args.new \in Pair
    BY DEF Args
  <2> QED
    BY <2>1 DEF Managed, Typed, TypeOK, Outcomes
<1> QED
  BY <1>1, ManagerInvariant, PTL

\* What update, rollback, install and repair say when they end is true of the disk:
\* the binaries a failed update or rollback says it restored are the old ones, a
\* successful one has swapped the pairs, an install that gave up put certificate,
\* key and site back, and doctor finds nothing wrong after a success.
THEOREM ManagerReports == Spec => []Reports
<1>1. Managed => Reports
  BY UpdateSays, RollbackSays, InstallSays, DoctorAgrees DEF Reports
<1> QED
  BY <1>1, ManagerInvariant, PTL

\* Wherever update() or rollback() fails, or the manager is killed, a host that had a
\* matching daemon and manager still has one such pair, in place or in the rollback
\* directory.
THEOREM ManagerRecoverable == Spec => []Recoverable
<1>1. Managed => Recoverable
  BY DEF Managed
<1> QED
  BY <1>1, ManagerInvariant, PTL

\* No step of any command, failed ones included, puts a configuration in place of the
\* live one unless it was validated with the resources that are there and the one it
\* replaces was backed up, or it is edit's restore of what was there before.
THEOREM ManagerConfigReplaced == Spec => ConfigReplaced
<1>1. Managed /\ [Next]_vars =>
        [disk'.config # disk.config /\ disk'.config # None =>
           \/ job.undoing /\ disk'.config = before.config
           \/ /\ disk.config # None => disk.config \in disk.backups
              /\ \E v \in Versions : Accepts(v, disk'.config, disk)]_vars
  BY ConfigReplacedBy
<1> QED
  BY <1>1, ManagerInvariant, PTL DEF Spec, ConfigReplaced
=============================================================================
