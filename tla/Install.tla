------------------------------- MODULE Install -------------------------------
(***************************************************************************)
(* The files of an upgrade: `sebas update` and `sebas update --rollback`   *)
(* (src/watchdog/updater.rs, src/upgrade.rs), one step per file operation, *)
(* with updaters that are cut off between any two of them and operations   *)
(* that fail.                                                              *)
(*                                                                         *)
(* Every updater is a process of its own that runs once. It is named by    *)
(* the directory under versions/ that it is going to link. Of a binary it  *)
(* is kept which build it is: a release is one build, every compilation    *)
(* is a new one. A copy is two steps, for fs::copy truncates its target    *)
(* before it fills it.                                                     *)
(***************************************************************************)
EXTENDS FiniteSets, Naturals

CONSTANTS
  Updaters,   \* the updater processes
  Releases,   \* the releases an update may find
  Overlap,    \* whether an updater may start while another runs
  Downloads,  \* whether <data_dir>/downloads exists
  MaxFaults   \* bound: cut-off updaters and failed operations

ASSUME InstallAssumption ==
  /\ Overlap \in BOOLEAN /\ Downloads \in BOOLEAN /\ MaxFaults \in Nat
  /\ Updaters \cap Releases = {}
  /\ {"torn", "absent", "none"} \cap (Updaters \cup Releases) = {}
  /\ {"dev", "rollback", "dry", "temp", "backup"} \cap Releases = {}

VARIABLES
  file,     \* the binary at each path
  current,  \* the link data_dir/current: a directory under versions/, or "none"
  lock,     \* upgrade.lock: who created it and whether the pid is in it
  pc,       \* where each updater is
  plan,     \* the directory it links; "dry" for a dry run
  result,   \* what it reports
  carry,    \* the content it is copying
  was,      \* history: the link and the binary behind it when the updater started
  hit,      \* history: a fault struck this updater
  faults    \* how many faults there were

vars == <<file, current, lock, pc, plan, result, carry, was, hit, faults>>

Installs == Releases \cup {"dev"}
Dirs     == Installs \cup {"rollback"}
Paths    == Dirs \cup {"temp", "backup"}
Builds   == Updaters \cup Releases
Contents == Builds \cup {"torn", "absent"}
Locks    == [by : Updaters, pid : BOOLEAN]
NoLock   == [by |-> "none", pid |-> FALSE]

Locking  == {"look", "read", "remove", "create", "write"}
Holding  == {"fetch", "check", "save", "saving", "copy", "copying", "backup", "backing",
             "unlink", "link", "clean", "unlock"}
Ended    == {"done", "dead"}
Live     == {u \in Updaters : pc[u] \in Locking \cup Holding}

\* The binary behind the link.
Runs == IF current = "none" THEN "absent" ELSE file[current]
\* The build an update brings.
Build(u) == IF plan[u] \in Releases THEN plan[u] ELSE u

Go(u, place)       == pc' = [pc EXCEPT ![u] = place]
Report(u, outcome) == result' = [result EXCEPT ![u] = outcome]
Put(path, content) == file' = [file EXCEPT ![path] = content]
\* The first step of a copy reads and truncates.
Open(u, from, path) == carry' = [carry EXCEPT ![u] = from] /\ Put(path, "torn")

files  == <<file, current, carry>>
ghosts == <<plan, was, hit, faults>>

Init ==
  /\ file = [p \in Paths |-> "absent"]
  /\ current = "none" /\ lock = NoLock
  /\ pc = [u \in Updaters |-> "new"] /\ plan = [u \in Updaters |-> "dry"]
  /\ result = [u \in Updaters |-> "none"] /\ carry = [u \in Updaters |-> "absent"]
  /\ was = [u \in Updaters |-> [dir |-> "none", build |-> "absent"]]
  /\ hit = [u \in Updaters |-> FALSE] /\ faults = 0

-----------------------------------------------------------------------------
(* The lock *)

Start(u) ==
  /\ pc[u] = "new" /\ (Overlap \/ Live = {}) /\ Go(u, "look")
  /\ \E p \in Dirs \cup {"dry"} : plan' = [plan EXCEPT ![u] = p]
  /\ was' = [was EXCEPT ![u] = [dir |-> current, build |-> Runs]]
  /\ UNCHANGED <<files, lock, result, hit, faults>>

\* lock_path.exists()
Look(u) ==
  /\ pc[u] = "look" /\ Go(u, IF lock = NoLock THEN "create" ELSE "read")
  /\ UNCHANGED <<files, lock, result, ghosts>>

\* Mutation: every lock that has a pid is held.
LockHeldByAnyPid == lock # NoLock /\ lock.pid

\* The pid in the lock is of a process that runs. Without a pid, because the lock is
\* gone again or its creator has not written yet, it counts as stale.
LockHeld == lock # NoLock /\ lock.pid /\ lock.by \in Live

ReadLock(u) ==
  /\ pc[u] = "read"
  /\ IF LockHeld THEN Go(u, "done") /\ Report(u, "refused")
                 ELSE Go(u, "remove") /\ UNCHANGED result
  /\ UNCHANGED <<files, lock, ghosts>>

RemoveStale(u) ==
  /\ pc[u] = "remove" /\ Go(u, "create") /\ lock' = NoLock
  /\ UNCHANGED <<files, result, ghosts>>

CreateLock(u) ==
  /\ pc[u] = "create"
  /\ IF lock = NoLock
     THEN lock' = [by |-> u, pid |-> FALSE] /\ Go(u, "write") /\ UNCHANGED result
     ELSE Go(u, "done") /\ Report(u, "refused") /\ UNCHANGED lock
  /\ UNCHANGED <<files, ghosts>>

\* The pid goes to the file the updater created, which may have lost its name.
WritePid(u) ==
  /\ pc[u] = "write" /\ Go(u, IF plan[u] = "rollback" THEN "check" ELSE "fetch")
  /\ lock' = IF lock.by = u THEN [lock EXCEPT !.pid = TRUE] ELSE lock
  /\ UNCHANGED <<files, result, ghosts>>

\* unlock removes whatever lock there is.
Unlock(u) ==
  /\ pc[u] = "unlock" /\ Go(u, "done") /\ lock' = NoLock
  /\ UNCHANGED <<files, result, ghosts>>

-----------------------------------------------------------------------------
(* An update *)

\* A download is written to <data_dir>/downloads before that directory is created.
CanFetch(u) == plan[u] \in Releases => Downloads

\* Nothing newer or a dry run; or a binary, compiled, or downloaded and checked.
Fetch(u) ==
  /\ pc[u] = "fetch"
  /\ \/ plan[u] # "dev" /\ Report(u, "current") /\ Go(u, "unlock")
     \/ plan[u] # "dry" /\ IF CanFetch(u) THEN Go(u, "copy") /\ UNCHANGED result
                                         ELSE Go(u, "unlock") /\ Report(u, "failed")
  /\ UNCHANGED <<files, lock, ghosts>>

\* Into versions/<dir>/sebas, over what is there.
Copy(u) ==
  /\ pc[u] = "copy" /\ Go(u, "copying")
  /\ Open(u, IF plan[u] = "rollback" THEN file["backup"] ELSE Build(u), plan[u])
  /\ UNCHANGED <<current, lock, result, ghosts>>

Copied(u) ==
  /\ pc[u] = "copying" /\ Put(plan[u], carry[u])
  /\ Go(u, IF plan[u] = "rollback" THEN "unlink" ELSE "backup")
  /\ UNCHANGED <<current, carry, lock, result, ghosts>>

\* Mutation: a backup that exists is kept.
BackupOnce(u) ==
  /\ pc[u] = "backup"
  /\ IF Runs # "absent" /\ file["backup"] = "absent"
     THEN Open(u, Runs, "backup") /\ Go(u, "backing")
     ELSE Go(u, "unlink") /\ UNCHANGED <<file, carry>>
  /\ UNCHANGED <<current, lock, result, ghosts>>

\* The binary behind the link, if there is one, is copied to rollback/sebas.
Backup(u) ==
  /\ pc[u] = "backup"
  /\ IF Runs # "absent" THEN Open(u, Runs, "backup") /\ Go(u, "backing")
                        ELSE Go(u, "unlink") /\ UNCHANGED <<file, carry>>
  /\ UNCHANGED <<current, lock, result, ghosts>>

BackedUp(u) ==
  /\ pc[u] = "backing" /\ Put("backup", carry[u]) /\ Go(u, "unlink")
  /\ UNCHANGED <<current, carry, lock, result, ghosts>>

\* update_symlink
Unlink(u) ==
  /\ pc[u] = "unlink" /\ Go(u, "link") /\ current' = "none"
  /\ UNCHANGED <<file, carry, lock, result, ghosts>>

Link(u) ==
  /\ pc[u] = "link"
  /\ IF current = "none"
     THEN /\ current' = plan[u] /\ Report(u, "installed")
          /\ Go(u, IF plan[u] = "rollback" THEN "clean" ELSE "unlock")
     ELSE Report(u, "failed") /\ Go(u, "unlock") /\ UNCHANGED current
  /\ UNCHANGED <<file, carry, lock, ghosts>>

-----------------------------------------------------------------------------
(* A rollback *)

\* Mutation: the backup is taken for granted.
CheckBackupNot(u) ==
  /\ pc[u] = "check" /\ Go(u, "save")
  /\ UNCHANGED <<files, lock, result, ghosts>>

CheckBackup(u) ==
  /\ pc[u] = "check"
  /\ IF file["backup"] = "absent" THEN Go(u, "unlock") /\ Report(u, "nothing")
                                  ELSE Go(u, "save") /\ UNCHANGED result
  /\ UNCHANGED <<files, lock, ghosts>>

\* The binary behind the link goes to versions/_temp_rollback, which nothing reads.
Save(u) ==
  /\ pc[u] = "save"
  /\ IF Runs # "absent" THEN Open(u, Runs, "temp") /\ Go(u, "saving")
                        ELSE Go(u, "copy") /\ UNCHANGED <<file, carry>>
  /\ UNCHANGED <<current, lock, result, ghosts>>

Saved(u) ==
  /\ pc[u] = "saving" /\ Put("temp", carry[u]) /\ Go(u, "copy")
  /\ UNCHANGED <<current, carry, lock, result, ghosts>>

Clean(u) ==
  /\ pc[u] = "clean" /\ Put("temp", "absent") /\ Go(u, "unlock")
  /\ UNCHANGED <<current, carry, lock, result, ghosts>>

-----------------------------------------------------------------------------
(* Faults *)

Strike(u) ==
  /\ faults < MaxFaults /\ faults' = faults + 1 /\ hit' = [hit EXCEPT ![u] = TRUE]
  /\ UNCHANGED <<files, lock, plan, was>>

\* The updater is killed, at its timeout or with the machine.
CutOff(u) == u \in Live /\ Strike(u) /\ Go(u, "dead") /\ UNCHANGED result

\* The lock cannot be created, or the pid not written: there is no unlock then.
LockFails(u) ==
  pc[u] \in {"create", "write"} /\ Strike(u) /\ Go(u, "done") /\ Report(u, "failed")

\* The download, the copy into versions/, the removal of the link or the new link fails.
StepFails(u) ==
  /\ pc[u] \in {"fetch", "copy", "copying", "unlink", "link"} /\ Strike(u)
  /\ Go(u, "unlock") /\ Report(u, "failed")

\* Mutation: the failure of the copy into versions/ is ignored, too.
AnyCopyFails(u) ==
  /\ pc[u] \in {"backup", "backing", "save", "saving", "copying"} /\ Strike(u)
  /\ Go(u, IF pc[u] \in {"save", "saving"} THEN "copy" ELSE "unlink") /\ UNCHANGED result

\* The failure of a copy of the running binary is ignored.
BackupFails(u) ==
  /\ pc[u] \in {"backup", "backing", "save", "saving"} /\ Strike(u)
  /\ Go(u, IF pc[u] \in {"backup", "backing"} THEN "unlink" ELSE "copy")
  /\ UNCHANGED result

-----------------------------------------------------------------------------

Step(u) ==
  \/ Look(u) \/ ReadLock(u) \/ RemoveStale(u) \/ CreateLock(u) \/ WritePid(u) \/ Unlock(u)
  \/ Fetch(u) \/ Copy(u) \/ Copied(u) \/ Backup(u) \/ BackedUp(u) \/ Unlink(u) \/ Link(u)
  \/ CheckBackup(u) \/ Save(u) \/ Saved(u) \/ Clean(u)
Fault(u) == CutOff(u) \/ LockFails(u) \/ StepFails(u) \/ BackupFails(u)

Next == \E u \in Updaters : Start(u) \/ Step(u) \/ Fault(u)

Spec == Init /\ [][Next]_vars

-----------------------------------------------------------------------------
(* Properties *)

\* Types; what is copied exists.
TypeOK ==
  /\ file \in [Paths -> Contents] /\ current \in Dirs \cup {"none"}
  /\ lock \in Locks \cup {NoLock}
  /\ pc \in [Updaters -> {"new"} \cup Locking \cup Holding \cup Ended]
  /\ plan \in [Updaters -> Dirs \cup {"dry"}]
  /\ result \in [Updaters -> {"none", "installed", "current", "nothing", "failed", "refused"}]
  /\ carry \in [Updaters -> Contents]
  /\ \A u \in Updaters : pc[u] \in {"copying", "backing", "saving"} => carry[u] # "absent"
  /\ was \in [Updaters -> [dir : Dirs \cup {"none"}, build : Contents]]
  /\ hit \in [Updaters -> BOOLEAN] /\ faults \in 0..MaxFaults

\* The link names a directory with a binary in it, however updaters are cut off and
\* whether or not they exclude each other: the binary is there before the link is
\* moved (install_version, rollback), and nothing that was linked is removed.
LinkNeverDangles == current # "none" => file[current] # "absent"

\* Wherever updaters are cut off and operations fail, the binary behind the link is
\* whole, but for an updater that copied into the directory that was linked already, and
\* for a roll-back after a fault, whose backup may be incomplete (install_version).
BrokenInPlace ==
  Runs = "torn" =>
    \E u \in Updaters :
      \/ plan[u] = current /\ was[u].dir = current /\ (pc[u] = "copying" \/ hit[u])
      \/ current = "rollback" /\ hit[u]

\* An updater that no fault strikes is neither refused nor fails, whatever the updaters
\* before it left behind: a lock, with or without a pid, a missing link, half a binary
\* (try_lock, install_version, rollback).
CleanRunSettles ==
  \A u \in Updaters : ~hit[u] => result[u] \notin {"refused", "failed"}

\* An update has moved the link.
Moves(u) == pc[u] = "link" /\ result'[u] = "installed"
\* What it replaced could run, and no fault was in its way.
Replaces(u) == plan[u] \in Installs /\ was[u].build \in Builds /\ ~hit[u]

\* When an update moves the link from one directory to another, the binary that ran
\* until then is in rollback/, whole (install_version): the roll-back of a new binary
\* that does not come up restores it.
KeepsPrevious ==
  [][\A u \in Updaters : Moves(u) /\ Replaces(u) /\ was[u].dir # plan[u]
                         => file["backup"] = was[u].build]_vars

=============================================================================
