----------------------------- MODULE SelfUpdate -----------------------------
(***************************************************************************)
(* omniedge upgrade (omni-cli main.rs, omni-core updater.rs): the check    *)
(* against the latest release, the download, and the replacement of the    *)
(* running executable on Unix and on Windows.  Any step may fail and the   *)
(* process may die between two of them.  A version is                      *)
(* <<major, minor, patch, pre>> with pre true for a prerelease.            *)
(***************************************************************************)
EXTENDS Naturals, Sequences

CONSTANTS Versions,   \* versions that are released
          Targets,    \* of {"unix", "windows"}
          NoFile

ASSUME UpdateConstants ==
  /\ Versions \subseteq Nat \X Nat \X Nat \X BOOLEAN
  /\ NoFile \notin [v : Versions, whole : BOOLEAN]

VARIABLES target,
          latest,      \* what releases/latest answers
          exe, old, new,  \* the executable, .old and .exe.new: NoFile or [v, whole]
          dir,         \* the binaries in omniedge-extract, one name per version
          got, bin,    \* the release chosen, and the binary that extract_archive found
          at,          \* the next step of the upgrade
          stale        \* history: the binary last put in place was another release's

updVars == <<target, latest, exe, old, new, dir, got, bin, at, stale>>

File(v, whole) == [v |-> v, whole |-> whole]

UpdInit ==
  /\ target \in Targets /\ latest \in Versions
  /\ \E v \in Versions : exe = File(v, TRUE)
  /\ old = NoFile /\ new = NoFile /\ dir = {} /\ got = NoFile /\ bin = NoFile
  /\ at = "idle" /\ stale = FALSE

\* is_newer_version: two prereleases of one version count as equal.
IsNewerVersion(l, c) ==
  \/ l[1] > c[1]
  \/ l[1] = c[1] /\ l[2] > c[2]
  \/ l[1] = c[1] /\ l[2] = c[2] /\ l[3] > c[3]
  \/ l[1] = c[1] /\ l[2] = c[2] /\ l[3] = c[3] /\ ~l[4] /\ c[4]

\* The command goes on, or it ends with what it held in memory.
UpgradeGoes(step) == at' = step /\ UNCHANGED <<got, bin>>
UpgradeEnds == at' = "idle" /\ got' = NoFile /\ bin' = NoFile

\* Releases are published and withdrawn.
Publish(v) ==
  /\ latest' = v
  /\ UNCHANGED <<target, exe, old, new, dir, got, bin, at, stale>>

\* The system empties its temporary directory.
TempCleaned ==
  /\ at = "idle" /\ dir # {} /\ dir' = {}
  /\ UNCHANGED <<target, latest, exe, old, new, got, bin, at, stale>>

\* check_for_update, by an executable that can run.
CheckForUpdate ==
  /\ at = "idle" /\ exe # NoFile
  /\ exe.whole /\ IsNewerVersion(latest, exe.v)
  /\ at' = "download" /\ got' = File(latest, FALSE)
  /\ UNCHANGED <<target, latest, exe, old, new, dir, bin, stale>>

\* The release that was checked, whatever is published meanwhile.
DownloadUpdate ==
  /\ at = "download"
  /\ \/ got' = File(got.v, TRUE) /\ at' = "extract" /\ UNCHANGED bin
     \/ UpgradeEnds
  /\ UNCHANGED <<target, latest, exe, old, new, dir, stale>>

\* extract_archive: the binary joins what earlier upgrades left in the
\* directory, under a name with its version, and the first file of the walk
\* with "omniedge" in its name is taken.  A damaged archive is an error.
Extract ==
  /\ at = "extract"
  /\ LET Unpacked(whole) == {f \in dir : f.v # got.v} \cup {File(got.v, whole)} IN
     \/ /\ dir' = Unpacked(TRUE) /\ bin' \in dir'
        /\ at' = IF target = "unix" THEN "backup" ELSE "copynew"
        /\ UNCHANGED got
     \/ dir' \in {dir, Unpacked(FALSE), Unpacked(TRUE)} /\ UpgradeEnds
  /\ UNCHANGED <<target, latest, exe, old, new, stale>>

\* The executable becomes the backup.
MovedAway == old' = exe /\ exe' = NoFile /\ stale' = (bin.v # got.v)

\* Mutant: the executable is overwritten where it is.
BackupSkipped ==
  /\ at = "backup" /\ UpgradeGoes("copy")
  /\ UNCHANGED <<target, latest, exe, old, new, dir, stale>>

\* Unix: rename, copy, permissions.
Backup ==
  /\ at = "backup"
  /\ \/ MovedAway /\ UpgradeGoes("copy")
     \/ UpgradeEnds /\ UNCHANGED <<exe, old, stale>>
  /\ UNCHANGED <<target, latest, new, dir>>

BeginCopy ==
  /\ at = "copy" /\ UpgradeGoes("copying") /\ exe' = File(bin.v, FALSE)
  /\ UNCHANGED <<target, latest, old, new, dir, stale>>

EndCopy ==
  /\ at = "copying" /\ UpgradeEnds /\ exe' \in {exe, bin}
  /\ UNCHANGED <<target, latest, old, new, dir, stale>>

\* Windows: copy beside it, drop the old backup, two renames.
CopyNew ==
  /\ at = "copynew"
  /\ \/ new' = bin /\ UpgradeGoes("dropbackup")
     \/ new' = File(bin.v, FALSE) /\ UpgradeEnds
  /\ UNCHANGED <<target, latest, exe, old, dir, stale>>

DropBackup ==
  /\ at = "dropbackup" /\ UpgradeGoes("rename")
  /\ old' \in {old, NoFile}
  /\ UNCHANGED <<target, latest, exe, new, dir, stale>>

RenameOld ==
  /\ at = "rename"
  /\ \/ MovedAway /\ UpgradeGoes("renamenew")
     \/ UpgradeEnds /\ UNCHANGED <<exe, old, stale>>
  /\ UNCHANGED <<target, latest, new, dir>>

RenameNew ==
  /\ at = "renamenew" /\ UpgradeEnds
  /\ \/ exe' = new /\ new' = NoFile
     \/ UNCHANGED <<exe, new>>
  /\ UNCHANGED <<target, latest, old, dir, stale>>

UpgradeKilled ==
  /\ at # "idle" /\ UpgradeEnds
  /\ UNCHANGED <<target, latest, exe, old, new, dir, stale>>

UpdNext ==
  \/ \E v \in Versions : Publish(v)
  \/ TempCleaned \/ CheckForUpdate \/ DownloadUpdate \/ Extract
  \/ Backup \/ BeginCopy \/ EndCopy
  \/ CopyNew \/ DropBackup \/ RenameOld \/ RenameNew
  \/ UpgradeKilled

UpdSpec == UpdInit /\ [][UpdNext]_updVars

-----------------------------------------------------------------------------
(* Properties *)

\* Wherever an upgrade fails or is killed, and however often it is tried, a
\* whole executable is left, in its place or as the backup, although the
\* binary found may be one that an earlier extraction left torn
\* (install_cli_update on Unix and on Windows, extract_archive).
ExecutableSurvives ==
  \/ IF exe = NoFile THEN FALSE ELSE exe.whole
  \/ IF old = NoFile THEN FALSE ELSE old.whole

\* Upgrades never go back, although a release may be withdrawn: what was
\* replaced is older in the order of versions, release after prerelease
\* (is_newer_version, check_for_update), where the binary found was that of
\* the release: UpgradeInstallsRelease says when it is not.
UpgradesGoForward ==
  exe # NoFile /\ old # NoFile /\ ~stale =>
    LET a == old.v
        b == exe.v
    IN \E i \in 1 .. 4 : /\ \A j \in 1 .. i - 1 : a[j] = b[j]
                         /\ IF i = 4 THEN a[4] /\ ~b[4] ELSE a[i] < b[i]

\* An upgrade can be cut short anywhere and only goes forward
\* (install_cli_update, check_for_update).
UpgradeIsSafe == ExecutableSurvives /\ UpgradesGoForward

\* "This replaces the current executable with the downloaded update."
\* (updater.rs:423).  The code does not keep it: with an earlier upgrade's
\* binary still in omniedge-extract the walk may meet that one first.
UpgradeInstallsRelease == ~stale
=============================================================================
