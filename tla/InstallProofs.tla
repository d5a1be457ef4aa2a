---------------------------- MODULE InstallProofs ----------------------------
(***************************************************************************)
(* Proofs about Install, for any number of updaters, releases and faults.  *)
(***************************************************************************)
EXTENDS Install, TLAPS

-----------------------------------------------------------------------------
(* Whether or not updaters exclude each other *)

\* Where an updater can be with its plan, and what is in place by then: the backup a
\* roll-back starts from, the binary a link is moved to.
Fits(u) ==
  /\ pc[u] \in {"check", "save", "saving", "clean"} => plan[u] = "rollback"
  /\ pc[u] = "fetch" => plan[u] # "rollback"
  /\ pc[u] \in {"backup", "backing"} => plan[u] \in Installs
  /\ pc[u] \in {"copy", "copying", "unlink", "link"} => plan[u] \in Dirs
  /\ pc[u] \in {"save", "saving", "copy"} /\ plan[u] = "rollback"
       => file["backup"] # "absent"
  /\ pc[u] \in {"backup", "backing", "unlink", "link"} => file[plan[u]] # "absent"

Base == TypeOK /\ LinkNeverDangles /\ \A u \in Updaters : Fits(u)

LEMMA BaseInit == Init => Base
  BY InstallAssumption
  DEF Init, Base, TypeOK, LinkNeverDangles, Fits, Paths, Dirs, Installs, Contents, Builds,
      Locks, NoLock

LEMMA LockStep ==
  ASSUME Base, NEW u \in Updaters,
         Start(u) \/ Look(u) \/ ReadLock(u) \/ RemoveStale(u) \/ CreateLock(u)
           \/ WritePid(u) \/ Unlock(u)
  PROVE  Base'
<1> USE DEF Locking, Holding, Ended
<1>r. Runs \in Contents
  BY DEF Base, TypeOK, Runs, Paths, Dirs, Contents
<1>1. ASSUME Start(u) PROVE Base'
  <2>1. PICK p \in Dirs \cup {"dry"} : plan' = [plan EXCEPT ![u] = p]
    BY <1>1 DEF Start
  <2>2. TypeOK'
    BY <1>1, <1>r, <2>1 DEF Start, Go, files, Base, TypeOK
  <2>3. \A w \in Updaters : Fits(w)'
    BY <1>1, <2>1 DEF Start, Go, files, Base, TypeOK, Fits
  <2> QED BY <1>1, <2>2, <2>3 DEF Start, files, Base, LinkNeverDangles
<1>2. ASSUME Look(u) \/ RemoveStale(u) \/ Unlock(u) PROVE Base'
  <2>2. TypeOK'
    BY <1>2 DEF Look, RemoveStale, Unlock, Go, files, ghosts, Base, TypeOK
  <2>3. \A w \in Updaters : Fits(w)'
    BY <1>2 DEF Look, RemoveStale, Unlock, Go, files, ghosts, Base, TypeOK, Fits
  <2> QED
    BY <1>2, <2>2, <2>3 DEF Look, RemoveStale, Unlock, files, Base, LinkNeverDangles
<1>3. ASSUME ReadLock(u) \/ CreateLock(u) PROVE Base'
  <2>1. lock' \in Locks \cup {NoLock}
    <3>1. lock' = lock \/ lock' = [by |-> u, pid |-> FALSE]
      BY <1>3 DEF ReadLock, CreateLock
    <3>2. [by |-> u, pid |-> FALSE] \in Locks
      BY DEF Locks
    <3> QED BY <3>1, <3>2 DEF Base, TypeOK
  <2>2. TypeOK'
    BY <1>3, <2>1 DEF ReadLock, CreateLock, Go, Report, files, ghosts, Base, TypeOK
  <2>3. \A w \in Updaters : Fits(w)'
    BY <1>3 DEF ReadLock, CreateLock, Go, files, ghosts, Base, TypeOK, Fits
  <2> QED
    BY <1>3, <2>2, <2>3 DEF ReadLock, CreateLock, files, Base, LinkNeverDangles
<1>4. ASSUME WritePid(u) PROVE Base'
  <2>1. lock' \in Locks \cup {NoLock}
    BY <1>4, InstallAssumption DEF WritePid, Base, TypeOK, Locks, NoLock
  <2>2. TypeOK'
    BY <1>4, <2>1 DEF WritePid, Go, files, ghosts, Base, TypeOK
  <2>3. \A w \in Updaters : Fits(w)'
    BY <1>4 DEF WritePid, Go, files, ghosts, Base, TypeOK, Fits
  <2> QED BY <1>4, <2>2, <2>3 DEF WritePid, files, Base, LinkNeverDangles
<1> QED BY <1>1, <1>2, <1>3, <1>4

LEMMA FileStep ==
  ASSUME Base, NEW u \in Updaters,
         Fetch(u) \/ Copy(u) \/ Copied(u) \/ Backup(u) \/ BackedUp(u) \/ Unlink(u) \/ Link(u)
           \/ CheckBackup(u) \/ Save(u) \/ Saved(u) \/ Clean(u)
  PROVE  Base'
<1> USE DEF Locking, Holding, Ended
<1>r. Runs \in Contents
  BY DEF Base, TypeOK, Runs, Paths, Dirs, Contents
<1>p. /\ Dirs \subseteq Paths /\ {"temp", "backup"} \subseteq Paths
      /\ {"temp", "backup"} \cap Dirs = {} /\ "torn" \in Contents /\ "torn" # "absent"
      /\ "none" \notin Dirs /\ Installs \subseteq Dirs /\ "rollback" \in Dirs
      /\ "rollback" \notin Installs /\ "dry" \notin Dirs
  BY InstallAssumption DEF Dirs, Paths, Installs, Contents
<1>b. plan[u] \in Installs => Build(u) \in Contents /\ Build(u) # "absent"
  BY InstallAssumption DEF Build, Contents, Builds
<1>1. ASSUME Fetch(u) \/ CheckBackup(u) PROVE Base'
  <2>2. TypeOK'
    BY <1>1 DEF Fetch, CheckBackup, Go, Report, files, ghosts, Base, TypeOK
  <2>3. \A w \in Updaters : Fits(w)'
    BY <1>1, <1>p DEF Fetch, CheckBackup, Go, files, ghosts, Base, TypeOK, Fits, Installs, Dirs
  <2> QED BY <1>1, <2>2, <2>3 DEF Fetch, CheckBackup, files, Base, LinkNeverDangles
<1>2. ASSUME Copy(u) \/ (Backup(u) /\ Runs # "absent") \/ (Save(u) /\ Runs # "absent")
      PROVE  Base'
  <2>1. PICK path \in Paths, from \in Contents :
          /\ from # "absent" /\ file' = [file EXCEPT ![path] = "torn"]
          /\ carry' = [carry EXCEPT ![u] = from]
    <3>1. CASE Copy(u)
      BY <3>1, <1>p, <1>b DEF Copy, Open, Put, Base, TypeOK, Fits, Dirs
    <3>2. CASE Backup(u) /\ Runs # "absent"
      BY <3>2, <1>p, <1>r DEF Backup, Open, Put
    <3>3. CASE Save(u) /\ Runs # "absent"
      BY <3>3, <1>p, <1>r DEF Save, Open, Put
    <3> QED BY <1>2, <3>1, <3>2, <3>3
  <2>2. TypeOK'
    BY <1>2, <1>p, <2>1, SMTT(40) DEF Copy, Backup, Save, Go, ghosts, Base, TypeOK
  <2>3. \A q \in Paths : file'[q] = "absent" => file[q] = "absent"
    BY <1>p, <2>1 DEF Base, TypeOK
  <2>4. \A w \in Updaters : Fits(w)'
    BY <1>2, <1>p, <2>3 DEF Copy, Backup, Save, Go, ghosts, Base, TypeOK, Fits
  <2> QED
    BY <1>2, <1>p, <2>2, <2>3, <2>4
    DEF Copy, Backup, Save, Base, LinkNeverDangles, TypeOK
<1>3. ASSUME Copied(u) \/ BackedUp(u) \/ Saved(u) PROVE Base'
  <2>1. PICK path \in Paths :
          /\ file' = [file EXCEPT ![path] = carry[u]]
          /\ pc[u] = "copying" => path = plan[u]
    BY <1>3, <1>p DEF Copied, BackedUp, Saved, Put, Base, Fits
  <2>2. carry[u] \in Contents /\ carry[u] # "absent"
    BY <1>3 DEF Copied, BackedUp, Saved, Base, TypeOK
  <2>3. TypeOK'
    BY <1>3, <2>1, <2>2 DEF Copied, BackedUp, Saved, Go, ghosts, Base, TypeOK
  <2>4. \A q \in Paths : file'[q] = "absent" => file[q] = "absent"
    BY <2>1, <2>2 DEF Base, TypeOK
  <2>5. pc[u] = "copying" => file'[plan[u]] # "absent"
    BY <2>1, <2>2 DEF Base, TypeOK
  <2>6. \A w \in Updaters : Fits(w)'
    BY <1>3, <1>p, <2>4, <2>5
    DEF Copied, BackedUp, Saved, Go, ghosts, Base, TypeOK, Fits, Installs, Dirs
  <2> QED
    BY <1>3, <1>p, <2>3, <2>4, <2>6
    DEF Copied, BackedUp, Saved, Base, LinkNeverDangles, TypeOK
<1>4. ASSUME Clean(u) PROVE Base'
  <2>1. TypeOK'
    BY <1>4, <1>p DEF Clean, Put, Go, ghosts, Base, TypeOK, Contents
  <2>2. \A q \in Dirs \cup {"backup"} : file'[q] = file[q]
    BY <1>4, <1>p DEF Clean, Put, Base, TypeOK
  <2>3. \A w \in Updaters : Fits(w)'
    BY <1>4, <1>p, <2>2 DEF Clean, Go, ghosts, Base, TypeOK, Fits
  <2> QED BY <1>4, <2>1, <2>2, <2>3 DEF Clean, Base, LinkNeverDangles, TypeOK
<1>5. ASSUME Unlink(u) \/ Link(u) PROVE Base'
  <2>1. TypeOK'
    BY <1>5, SMTT(40) DEF Unlink, Link, Go, Report, ghosts, Base, TypeOK, Fits
  <2>2. \A w \in Updaters : Fits(w)'
    BY <1>5 DEF Unlink, Link, Go, ghosts, Base, TypeOK, Fits
  <2> QED BY <1>5, <2>1, <2>2 DEF Unlink, Link, Base, LinkNeverDangles, Fits
<1>6. ASSUME (Backup(u) \/ Save(u)) /\ Runs = "absent" PROVE Base'
  <2>1. TypeOK'
    BY <1>6 DEF Backup, Save, Go, ghosts, Base, TypeOK
  <2>2. \A w \in Updaters : Fits(w)'
    BY <1>6, <1>p DEF Backup, Save, Go, ghosts, Base, TypeOK, Fits
  <2> QED BY <1>6, <2>1, <2>2 DEF Backup, Save, Base, LinkNeverDangles
<1> QED BY <1>1, <1>2, <1>3, <1>4, <1>5, <1>6

LEMMA FaultStep ==
  ASSUME Base, NEW u \in Updaters, Fault(u)
  PROVE  Base'
<1> USE DEF Locking, Holding, Ended
<1>s. /\ UNCHANGED <<file, current, carry, lock, plan, was>>
      /\ hit' = [hit EXCEPT ![u] = TRUE] /\ faults < MaxFaults /\ faults' = faults + 1
  BY DEF Fault, CutOff, LockFails, StepFails, BackupFails, Strike, files
<1>p. /\ Installs \subseteq Dirs /\ "rollback" \in Dirs
      /\ "rollback" \notin Installs /\ "dry" \notin Dirs
  BY InstallAssumption DEF Dirs, Installs
<1>f. faults' \in 0..MaxFaults
  BY <1>s, InstallAssumption DEF Base, TypeOK
<1>g. PICK place \in {"dead", "done", "unlock", "unlink", "copy"} : Go(u, place)
  BY DEF Fault, CutOff, LockFails, StepFails, BackupFails
<1>h. UNCHANGED result \/ Report(u, "failed")
  BY DEF Fault, CutOff, LockFails, StepFails, BackupFails
<1>1. TypeOK'
  <2>1. pc' \in [Updaters -> {"new"} \cup Locking \cup Holding \cup Ended]
    BY <1>g DEF Go, Base, TypeOK
  <2>2. result' \in [Updaters -> {"none", "installed", "current", "nothing", "failed", "refused"}]
    BY <1>h DEF Report, Base, TypeOK
  <2>3. \A w \in Updaters : pc'[w] \in {"copying", "backing", "saving"} => carry'[w] # "absent"
    BY <1>s, <1>g DEF Go, Base, TypeOK
  <2> QED
    BY <1>s, <1>f, <2>1, <2>2, <2>3 DEF Base, TypeOK
<1>2. \A w \in Updaters : Fits(w)'
  BY <1>s, <1>p
  DEF Fault, CutOff, LockFails, StepFails, BackupFails, Go, Base, TypeOK, Fits
<1> QED BY <1>s, <1>1, <1>2 DEF Base, LinkNeverDangles

LEMMA BaseInvariant == Spec => []Base
<1>1. Base /\ [Next]_vars => Base'
  <2> SUFFICES ASSUME Base, [Next]_vars PROVE Base'
    OBVIOUS
  <2>1. CASE Next
    BY <2>1, LockStep, FileStep, FaultStep DEF Next, Step
  <2>2. CASE UNCHANGED vars
    BY <2>2 DEF vars, Base, TypeOK, LinkNeverDangles, Fits
  <2> QED BY <2>1, <2>2
<1> QED BY <1>1, BaseInit, PTL DEF Spec

\* Every reachable state is well typed, and what is copied exists.
THEOREM TypeCorrect == Spec => []TypeOK
  BY BaseInvariant, PTL DEF Base

\* The link never points at nothing, however many updaters run at once and wherever
\* they are cut off.
THEOREM LinkStands == Spec => []LinkNeverDangles
  BY BaseInvariant, PTL DEF Base

-----------------------------------------------------------------------------
(* When updaters follow one another *)

Alone == \A u, v \in Live : u = v

\* The lock an updater meets is not its own, and is gone when it creates one.
LockPart(u) ==
  /\ pc[u] = "new" => ~hit[u]
  /\ pc[u] \in {"new", "look", "read", "remove", "create"} => lock.by # u
  /\ pc[u] = "create" => lock = NoLock

Before == Locking \cup {"fetch", "check", "save", "saving", "copy"}

\* Until an updater moves the link, the link and the binary behind it are those it
\* started with, unless it copies into that directory; then the binary is in rollback/.
LinkPart(u) ==
  /\ pc[u] \in Before \cup {"copying", "backup", "backing", "unlink"} => current = was[u].dir
  /\ pc[u] \in Before => Runs = was[u].build
  /\ pc[u] \in {"copying", "backup", "backing", "unlink"} /\ was[u].dir # plan[u]
       => Runs = was[u].build
  /\ pc[u] = "link" => current = "none"
  /\ pc[u] = "backing" /\ was[u].dir # plan[u] => carry[u] = was[u].build
  /\ pc[u] \in {"unlink", "link"} /\ Replaces(u) /\ was[u].dir # plan[u]
       => file["backup"] = was[u].build

Struck == \E w \in Updaters : hit[w]

\* What an update brings is whole; what a roll-back brings is, but for a fault.
TornPart(u) ==
  /\ pc[u] = "copying" /\ plan[u] \in Installs => carry[u] = Build(u)
  /\ pc[u] \in {"backup", "backing", "unlink", "link"} /\ plan[u] \in Installs
       => file[plan[u]] # "torn"
  /\ pc[u] \in {"copying", "backing"} /\ carry[u] = "torn" => Struck
  /\ pc[u] \in {"unlink", "link"} /\ plan[u] = "rollback" /\ file["rollback"] = "torn"
       => Struck

BackupPart == file["backup"] = "torn" => Struck \/ \E w \in Updaters : pc[w] = "backing"

Inv ==
  /\ Base /\ Alone /\ BrokenInPlace /\ BackupPart
  /\ \A u \in Updaters : LockPart(u) /\ LinkPart(u) /\ TornPart(u)

\* The updater that takes a step is the only one that runs; of the others, those that
\* have not started hold no lock, and nothing else is asked of them.
Parts(u) == LockPart(u) /\ LinkPart(u) /\ TornPart(u)

LEMMA InvInit == Init => Inv
<1> SUFFICES ASSUME Init PROVE Inv
  OBVIOUS
<1>1. Base
  BY BaseInit
<1>2. \A u \in Updaters : lock.by # u
  BY InstallAssumption DEF Init, NoLock
<1>3. file["backup"] = "absent" /\ Runs = "absent" /\ Live = {}
  BY DEF Init, Paths, Runs, Live, Locking, Holding
<1> QED
  BY <1>1, <1>2, <1>3
  DEF Init, Inv, Alone, BrokenInPlace, BackupPart, LockPart, LinkPart, TornPart, Before,
      Locking

LEMMA Mover ==
  ASSUME ~Overlap, Inv, NEW u \in Updaters, Start(u) \/ Step(u) \/ Fault(u)
  PROVE  /\ \A w \in Updaters \ {u} :
              /\ w \notin Live /\ pc'[w] = pc[w] /\ plan'[w] = plan[w] /\ was'[w] = was[w]
              /\ hit'[w] = hit[w] /\ result'[w] = result[w]
         /\ lock'.by \in {lock.by, u, "none"}
         /\ pc[u] = "new" \/ u \in Live
<1> USE DEF Locking, Holding
<1>1. pc[u] = "new" \/ u \in Live
  BY DEF Start, Step, Fault, Look, ReadLock, RemoveStale, CreateLock, WritePid, Unlock,
         Fetch, Copy, Copied, Backup, BackedUp, Unlink, Link, CheckBackup, Save, Saved,
         Clean, CutOff, LockFails, StepFails, BackupFails, Live
<1>2. \A w \in Updaters \ {u} : w \notin Live
  <2>1. CASE Start(u)
    BY <2>1 DEF Start
  <2>2. CASE ~Start(u)
    <3>1. u \in Live
      BY <2>2
      DEF Step, Fault, Look, ReadLock, RemoveStale, CreateLock, WritePid, Unlock,
          Fetch, Copy, Copied, Backup, BackedUp, Unlink, Link, CheckBackup, Save, Saved,
          Clean, CutOff, LockFails, StepFails, BackupFails, Live
    <3> QED BY <3>1 DEF Inv, Alone
  <2> QED BY <2>1, <2>2
<1>3. \A w \in Updaters \ {u} :
        /\ pc'[w] = pc[w] /\ plan'[w] = plan[w] /\ was'[w] = was[w]
        /\ hit'[w] = hit[w] /\ result'[w] = result[w]
  <2>1. CASE Start(u)
    BY <2>1 DEF Start, Go, Inv, Base, TypeOK
  <2>2. CASE Step(u)
    BY <2>2
    DEF Step, Look, ReadLock, RemoveStale, CreateLock, WritePid, Unlock, Fetch, Copy, Copied,
        Backup, BackedUp, Unlink, Link, CheckBackup, Save, Saved, Clean, Go, Report, ghosts,
        Inv, Base, TypeOK
  <2>3. CASE Fault(u)
    BY <2>3
    DEF Fault, CutOff, LockFails, StepFails, BackupFails, Strike, Go, Report, Inv, Base, TypeOK
  <2> QED BY <2>1, <2>2, <2>3
<1>4. lock'.by \in {lock.by, u, "none"}
  <2>1. CASE WritePid(u)
    BY <2>1 DEF WritePid, Inv, Base, TypeOK, Locks, NoLock
  <2>2. CASE ~WritePid(u)
    BY <2>2
    DEF Start, Step, Fault, Look, ReadLock, RemoveStale, CreateLock, Unlock, Fetch, Copy,
        Copied, Backup, BackedUp, Unlink, Link, CheckBackup, Save, Saved, Clean, CutOff,
        LockFails, StepFails, BackupFails, Strike, NoLock
  <2> QED BY <2>1, <2>2
<1> QED BY <1>1, <1>2, <1>3, <1>4

\* So it is enough to look at the one that moves.
LEMMA OthersStay ==
  ASSUME ~Overlap, Inv, Base', NEW u \in Updaters, Start(u) \/ Step(u) \/ Fault(u),
         Parts(u)'
  PROVE  Alone' /\ \A w \in Updaters : Parts(w)'
<1>1. \A w \in Updaters \ {u} : pc[w] \in {"new", "done", "dead"}
  BY Mover DEF Live, Inv, Base, TypeOK, Ended
<1>2. Alone'
  BY Mover DEF Alone, Live
<1>3. ASSUME NEW w \in Updaters \ {u} PROVE Parts(w)'
  <2>1. pc'[w] = pc[w] /\ hit'[w] = hit[w] /\ pc[w] \in {"new", "done", "dead"}
    BY <1>1, Mover
  <2>2. pc[w] = "new" => ~hit[w] /\ lock'.by # w
    BY Mover, InstallAssumption DEF Inv, LockPart
  <2> QED BY <2>1, <2>2 DEF Parts, LockPart, LinkPart, TornPart, Before, Locking
<1> QED BY <1>2, <1>3

\* An incomplete binary behind the link or in rollback/ was left by a fault, unless the
\* updater that runs is just writing it.
LEMMA TornByFault ==
  ASSUME Inv, NEW u \in Live
  PROVE  /\ Runs = "torn" /\ pc[u] # "copying" => Struck
         /\ file["backup"] = "torn" /\ pc[u] # "backing" => Struck
  BY DEF Inv, Alone, BrokenInPlace, BackupPart, Struck, Live, Locking, Holding

\* What is needed of the sets below.
LEMMA Sets ==
  /\ Dirs \subseteq Paths /\ {"temp", "backup"} \subseteq Paths
  /\ {"temp", "backup", "none", "dry"} \cap Dirs = {} /\ Dirs = Installs \cup {"rollback"}
  /\ "rollback" \notin Installs /\ "torn" \notin Builds /\ "absent" \notin Builds
  /\ "torn" # "absent"
  BY InstallAssumption DEF Dirs, Paths, Installs, Builds

LEMMA BuildOf ==
  ASSUME TypeOK, NEW u \in Updaters, plan[u] \in Installs
  PROVE  Build(u) \in Builds
  BY DEF Build, Builds

\* A step that leaves alone what is linked and backed up keeps the binary behind the link
\* as it is, broken or not.
LEMMA Quiet ==
  ASSUME ~Overlap, Inv, NEW u \in Updaters, Start(u) \/ Step(u) \/ Fault(u),
         UNCHANGED current, \A q \in Dirs : file'[q] = file[q],
         file'["backup"] = file["backup"], pc[u] \in {"copying", "backing"} => hit'[u]
  PROVE  Runs' = Runs /\ BrokenInPlace' /\ BackupPart' /\ (Struck => Struck')
<1>1. Runs' = Runs
  BY DEF Runs, Inv, Base, TypeOK
<1>2. \A w \in Updaters : hit[w] => hit'[w]
  BY Mover
  DEF Start, Step, Fault, Look, ReadLock, RemoveStale, CreateLock, WritePid, Unlock, Fetch,
      Copy, Copied, Backup, BackedUp, Unlink, Link, CheckBackup, Save, Saved, Clean, CutOff,
      LockFails, StepFails, BackupFails, Strike, ghosts, Inv, Base, TypeOK
<1>3. \A w \in Updaters : pc[w] # "new" => plan'[w] = plan[w] /\ was'[w] = was[w]
  BY Mover
  DEF Start, Step, Fault, Look, ReadLock, RemoveStale, CreateLock, WritePid, Unlock, Fetch,
      Copy, Copied, Backup, BackedUp, Unlink, Link, CheckBackup, Save, Saved, Clean, CutOff,
      LockFails, StepFails, BackupFails, Strike, ghosts
<1>4. BrokenInPlace'
  <2> SUFFICES ASSUME Runs = "torn" PROVE BrokenInPlace'
    BY <1>1 DEF BrokenInPlace
  <2>1. PICK w \in Updaters :
          \/ plan[w] = current /\ was[w].dir = current /\ (pc[w] = "copying" \/ hit[w])
          \/ current = "rollback" /\ hit[w]
    BY DEF Inv, BrokenInPlace
  <2>2. pc[w] # "new"
    BY <2>1 DEF Inv, LockPart
  <2>3. pc[w] = "copying" => hit'[w]
    BY Mover DEF Live, Holding
  <2> QED BY <1>2, <1>3, <2>1, <2>2, <2>3 DEF BrokenInPlace
<1>5. BackupPart'
  BY <1>2, Mover DEF Inv, BackupPart, Struck, Live, Holding
<1> QED BY <1>1, <1>2, <1>4, <1>5 DEF Struck

Kept(u) == Parts(u)' /\ BackupPart' /\ BrokenInPlace'

LEMMA LockKept ==
  ASSUME ~Overlap, Inv, NEW u \in Updaters,
         Start(u) \/ Look(u) \/ ReadLock(u) \/ RemoveStale(u) \/ CreateLock(u)
           \/ WritePid(u) \/ Unlock(u) \/ Fetch(u) \/ CheckBackup(u)
  PROVE  Kept(u)
<1> USE DEF Locking, Before
<1>1. Runs' = Runs /\ BrokenInPlace' /\ BackupPart'
  BY Quiet
  DEF Start, Step, Look, ReadLock, RemoveStale, CreateLock, WritePid, Unlock, Fetch,
      CheckBackup, files
<1>2. LockPart(u)'
  <2>1. CASE Start(u)
    BY <2>1 DEF Start, Go, Inv, Base, TypeOK, LockPart
  <2>2. CASE ~Start(u)
    BY <2>2, InstallAssumption
    DEF Look, ReadLock, RemoveStale, CreateLock, WritePid, Unlock, Fetch, CheckBackup, Go,
        NoLock, Inv, Base, TypeOK, LockPart, files, ghosts
  <2> QED BY <2>1, <2>2
<1>3. LinkPart(u)'
  <2>1. CASE Start(u)
    BY <1>1, <2>1 DEF Start, Go, Inv, Base, TypeOK, LinkPart, files
  <2>2. CASE ~Start(u)
    BY <1>1, <2>2
    DEF Look, ReadLock, RemoveStale, CreateLock, WritePid, Unlock, Fetch, CheckBackup, Go,
        Inv, Base, TypeOK, LinkPart, files, ghosts
  <2> QED BY <2>1, <2>2
<1>4. TornPart(u)'
  BY DEF Start, Look, ReadLock, RemoveStale, CreateLock, WritePid, Unlock, Fetch,
         CheckBackup, Go, Inv, Base, TypeOK, TornPart
<1> QED BY <1>1, <1>2, <1>3, <1>4 DEF Kept, Parts

LEMMA SaveKept ==
  ASSUME ~Overlap, Inv, NEW u \in Updaters, Save(u) \/ Saved(u) \/ Clean(u)
  PROVE  Kept(u)
<1> USE DEF Locking, Before
<1>1. Runs' = Runs /\ BrokenInPlace' /\ BackupPart'
  <2>1. /\ \A q \in Dirs : file'[q] = file[q]
        /\ file'["backup"] = file["backup"]
    BY Sets DEF Save, Saved, Clean, Open, Put, Inv, Base, TypeOK
  <2> QED BY <2>1, Quiet DEF Step, Save, Saved, Clean
<1>2. LockPart(u)'
  BY DEF Save, Saved, Clean, Go, Inv, Base, TypeOK, LockPart
<1>3. LinkPart(u)'
  BY <1>1 DEF Save, Saved, Clean, Go, Inv, Base, TypeOK, LinkPart, ghosts
<1>4. TornPart(u)'
  BY DEF Save, Saved, Clean, Go, Inv, Base, TypeOK, TornPart
<1> QED BY <1>1, <1>2, <1>3, <1>4 DEF Kept, Parts

LEMMA CopyKept ==
  ASSUME ~Overlap, Inv, NEW u \in Updaters, Copy(u)
  PROVE  Kept(u)
<1> USE DEF Locking, Before
<1>1. /\ pc[u] = "copy" /\ pc' = [pc EXCEPT ![u] = "copying"] /\ plan[u] \in Dirs
      /\ file' = [file EXCEPT ![plan[u]] = "torn"] /\ UNCHANGED <<current, lock, ghosts>>
      /\ carry' = [carry EXCEPT ![u] = IF plan[u] = "rollback" THEN file["backup"]
                                                              ELSE Build(u)]
      /\ u \in Live
  BY DEF Copy, Open, Put, Go, Inv, Base, Fits, Live, Holding
<1>2. current = was[u].dir /\ Runs = was[u].build
  BY <1>1 DEF Inv, LinkPart
<1>3. \A q \in Paths : q # plan[u] => file'[q] = file[q]
  BY <1>1 DEF Inv, Base, TypeOK
<1>4. current # plan[u] => Runs' = Runs
  BY <1>1, <1>3, Sets DEF Runs, Inv, Base, TypeOK
<1>5. LockPart(u)'
  BY <1>1 DEF Inv, Base, TypeOK, LockPart
<1>6. LinkPart(u)'
  BY <1>1, <1>2, <1>4 DEF Inv, Base, TypeOK, LinkPart, ghosts
<1>7. TornPart(u)'
  <2>1. Struck' = Struck
    BY <1>1 DEF Struck, ghosts
  <2>2. carry'[u] = IF plan[u] = "rollback" THEN file["backup"] ELSE Build(u)
    BY <1>1 DEF Inv, Base, TypeOK
  <2>3. plan[u] \in Installs => Build(u) # "torn" /\ Build(u)' = Build(u)
    BY <1>1, Sets, BuildOf DEF Build, ghosts, Inv, Base
  <2>4. carry'[u] = "torn" => Struck
    BY <1>1, <2>2, <2>3, Sets, TornByFault
  <2> QED BY <1>1, <2>1, <2>2, <2>3, <2>4, Sets DEF Inv, Base, TypeOK, TornPart, ghosts
<1>8. BackupPart'
  BY <1>1, <1>3, Sets DEF Inv, Base, TypeOK, BackupPart, Struck, ghosts
<1>9. BrokenInPlace'
  <2>1. CASE current = plan[u]
    BY <1>1, <1>2, <2>1 DEF BrokenInPlace, Inv, Base, TypeOK, ghosts
  <2>2. CASE current # plan[u]
    BY <1>1, <1>4, <2>2 DEF BrokenInPlace, Inv, Base, TypeOK, ghosts
  <2> QED BY <2>1, <2>2
<1> QED BY <1>5, <1>6, <1>7, <1>8, <1>9 DEF Kept, Parts

LEMMA CopiedKept ==
  ASSUME ~Overlap, Inv, NEW u \in Updaters, Copied(u)
  PROVE  Kept(u)
<1> USE DEF Locking, Before
<1>1. /\ pc[u] = "copying" /\ plan[u] \in Dirs /\ u \in Live
      /\ pc' = [pc EXCEPT ![u] = IF plan[u] = "rollback" THEN "unlink" ELSE "backup"]
      /\ file' = [file EXCEPT ![plan[u]] = carry[u]]
      /\ UNCHANGED <<current, carry, lock, ghosts>>
  BY DEF Copied, Put, Go, Inv, Base, Fits, Live, Holding
<1>2. \A q \in Paths : q # plan[u] => file'[q] = file[q]
  BY <1>1 DEF Inv, Base, TypeOK
<1>3. current = was[u].dir /\ (current # plan[u] => Runs' = Runs /\ Runs = was[u].build)
  BY <1>1, <1>2, Sets DEF Runs, Inv, Base, TypeOK, LinkPart
<1>4. plan[u] \in Installs => carry[u] # "torn"
  BY <1>1, Sets, BuildOf DEF Inv, Base, TornPart
<1>5. carry[u] = "torn" => Struck /\ plan[u] = "rollback"
  BY <1>1, <1>4, Sets DEF Inv, TornPart
<1>6. file'[plan[u]] = carry[u]
  BY <1>1, Sets DEF Inv, Base, TypeOK
<1>7. LockPart(u)'
  BY <1>1 DEF Inv, Base, TypeOK, LockPart
<1>8. LinkPart(u)'
  BY <1>1, <1>3, Sets DEF Inv, Base, TypeOK, LinkPart, Replaces, ghosts
<1>9. TornPart(u)'
  BY <1>1, <1>4, <1>5, <1>6, Sets DEF Inv, Base, TypeOK, TornPart, Struck, ghosts
<1>10. BackupPart'
  BY <1>1, <1>2, Sets DEF Inv, Base, TypeOK, BackupPart, Struck, ghosts
<1>11. BrokenInPlace'
  <2>1. CASE current = plan[u]
    <3>1. Runs' = carry[u]
      BY <1>1, <1>6, <2>1, Sets DEF Runs, ghosts
    <3> QED BY <1>1, <1>5, <2>1, <3>1 DEF BrokenInPlace, Struck, ghosts
  <2>2. CASE current # plan[u]
    <3> SUFFICES ASSUME Runs = "torn" PROVE BrokenInPlace'
      BY <1>3, <2>2 DEF BrokenInPlace
    <3>1. PICK w \in Updaters :
            \/ plan[w] = current /\ was[w].dir = current /\ (pc[w] = "copying" \/ hit[w])
            \/ current = "rollback" /\ hit[w]
      BY DEF Inv, BrokenInPlace
    <3>2. pc[w] = "copying" => w = u
      BY <1>1 DEF Inv, Alone, Live, Holding
    <3> QED BY <1>1, <2>2, <3>1, <3>2 DEF BrokenInPlace, ghosts
  <2> QED BY <2>1, <2>2
<1> QED BY <1>7, <1>8, <1>9, <1>10, <1>11 DEF Kept, Parts

LEMMA BackupKept ==
  ASSUME ~Overlap, Inv, NEW u \in Updaters, Backup(u)
  PROVE  Kept(u)
<1> USE DEF Locking, Before
<1>1. /\ pc[u] = "backup" /\ plan[u] \in Installs /\ u \in Live
      /\ UNCHANGED <<current, lock, ghosts>>
  BY DEF Backup, Inv, Base, Fits, Live, Holding
<1>2. /\ file' = file \/ file' = [file EXCEPT !["backup"] = "torn"]
      /\ \A q \in Dirs : file'[q] = file[q]
  BY Sets DEF Backup, Open, Put, Inv, Base, TypeOK
<1>3. Runs' = Runs
  BY <1>1, <1>2 DEF Runs, Inv, Base, TypeOK
<1>4. LockPart(u)'
  BY <1>1 DEF Backup, Go, Inv, Base, TypeOK, LockPart
<1>5. LinkPart(u)'
  BY <1>1, <1>3, Sets
  DEF Backup, Open, Go, Inv, Base, TypeOK, LinkPart, Replaces, ghosts
<1>6. TornPart(u)'
  <2>1. Runs = "torn" => Struck
    BY <1>1, TornByFault
  <2> QED
    BY <1>1, <1>2, <2>1, Sets
    DEF Backup, Open, Go, Inv, Base, TypeOK, TornPart, Struck, ghosts
<1>7. BackupPart'
  BY <1>1 DEF Backup, Open, Put, Go, Inv, Base, TypeOK, BackupPart, Struck, ghosts
<1>8. BrokenInPlace'
  BY <1>1, <1>3 DEF Backup, Go, Inv, Base, TypeOK, BrokenInPlace, ghosts
<1> QED BY <1>4, <1>5, <1>6, <1>7, <1>8 DEF Kept, Parts

LEMMA BackedUpKept ==
  ASSUME ~Overlap, Inv, NEW u \in Updaters, BackedUp(u)
  PROVE  Kept(u)
<1> USE DEF Locking, Before
<1>1. /\ pc[u] = "backing" /\ plan[u] \in Installs /\ u \in Live
      /\ pc' = [pc EXCEPT ![u] = "unlink"]
      /\ file' = [file EXCEPT !["backup"] = carry[u]]
      /\ UNCHANGED <<current, carry, lock, ghosts>>
  BY DEF BackedUp, Put, Go, Inv, Base, Fits, Live, Holding
<1>2. /\ \A q \in Dirs : file'[q] = file[q]
      /\ file'["backup"] = carry[u]
  BY <1>1, Sets DEF Inv, Base, TypeOK
<1>3. Runs' = Runs
  BY <1>1, <1>2 DEF Runs, Inv, Base, TypeOK
<1>4. LockPart(u)'
  BY <1>1 DEF Inv, Base, TypeOK, LockPart
<1>5. LinkPart(u)'
  BY <1>1, <1>2, <1>3 DEF Inv, Base, TypeOK, LinkPart, Replaces, ghosts
<1>6. TornPart(u)'
  BY <1>1, <1>2, Sets DEF Inv, Base, TypeOK, TornPart, Struck, ghosts
<1>7. BackupPart'
  BY <1>1, <1>2 DEF Inv, TornPart, BackupPart, Struck, ghosts
<1>8. BrokenInPlace'
  BY <1>1, <1>3 DEF Inv, Base, TypeOK, BrokenInPlace, ghosts
<1> QED BY <1>4, <1>5, <1>6, <1>7, <1>8 DEF Kept, Parts

LEMMA MoveKept ==
  ASSUME ~Overlap, Inv, NEW u \in Updaters, Unlink(u) \/ Link(u)
  PROVE  Kept(u)
<1> USE DEF Locking, Before
<1>1. /\ pc[u] \in {"unlink", "link"} /\ plan[u] \in Dirs /\ u \in Live
      /\ UNCHANGED <<file, carry, lock, ghosts>>
      /\ pc' = [pc EXCEPT ![u] = pc'[u]]
      /\ pc'[u] \in {"link", "unlock", "clean"} /\ (pc'[u] = "link" => Unlink(u))
  BY DEF Unlink, Link, Go, Inv, Base, TypeOK, Fits, Live, Holding
<1>2. LockPart(u)'
  BY <1>1 DEF LockPart
<1>3. LinkPart(u)'
  BY <1>1 DEF Unlink, Inv, LinkPart, Replaces, ghosts
<1>4. TornPart(u)'
  BY <1>1 DEF Unlink, Inv, TornPart, Struck, ghosts
<1>5. BackupPart'
  BY <1>1 DEF Inv, Base, TypeOK, BackupPart, Struck, ghosts
<1>6. BrokenInPlace'
  <2>1. CASE Unlink(u)
    BY <2>1 DEF Unlink, BrokenInPlace, Runs
  <2>2. CASE Link(u)
    <3>1. current = "none" /\ current' = plan[u]
      BY <2>2 DEF Link, Inv, LinkPart
    <3>2. Runs' = file[plan[u]]
      BY <1>1, <3>1, Sets DEF Runs
    <3>3. Runs' = "torn" => plan[u] = "rollback" /\ Struck
      BY <1>1, <2>2, <3>2, Sets DEF Link, Inv, TornPart
    <3> QED BY <1>1, <3>1, <3>3 DEF BrokenInPlace, Struck, ghosts
  <2> QED BY <2>1, <2>2
<1> QED BY <1>2, <1>3, <1>4, <1>5, <1>6 DEF Kept, Parts

LEMMA FaultKept ==
  ASSUME ~Overlap, Inv, NEW u \in Updaters, Fault(u)
  PROVE  Kept(u)
<1> USE DEF Locking, Before
<1>1. /\ UNCHANGED <<file, current, carry, lock, plan, was>> /\ hit'[u]
      /\ hit' = [hit EXCEPT ![u] = TRUE]
  BY DEF Fault, CutOff, LockFails, StepFails, BackupFails, Strike, files, Inv, Base, TypeOK
<1>2. Runs' = Runs /\ BrokenInPlace' /\ BackupPart'
  BY <1>1, Quiet
<1>3. /\ pc'[u] \in {"done", "dead", "unlock", "unlink", "copy"}
      /\ pc'[u] = "unlink" => pc[u] \in {"backup", "backing"}
      /\ pc'[u] = "copy" => pc[u] \in {"save", "saving"}
  BY DEF Fault, CutOff, LockFails, StepFails, BackupFails, Go, Inv, Base, TypeOK
<1>4. LockPart(u)'
  BY <1>1, <1>3 DEF LockPart
<1>5. LinkPart(u)'
  BY <1>1, <1>2, <1>3 DEF Inv, LinkPart, Replaces
<1>6. TornPart(u)'
  BY <1>1, <1>3 DEF TornPart, Struck, Inv
<1> QED BY <1>2, <1>4, <1>5, <1>6 DEF Kept, Parts

LEMMA InvInvariant ==
  ASSUME ~Overlap
  PROVE  Spec => []Inv
<1>1. Inv /\ [Next]_vars => Inv'
  <2> SUFFICES ASSUME Inv, [Next]_vars PROVE Inv'
    OBVIOUS
  <2>1. ASSUME NEW u \in Updaters, Start(u) \/ Step(u) \/ Fault(u) PROVE Inv'
    <3>1. Base'
      BY <2>1, LockStep, FileStep, FaultStep DEF Step, Inv
    <3>2. Kept(u)
      BY <2>1, LockKept, SaveKept, CopyKept, CopiedKept, BackupKept, BackedUpKept, MoveKept,
         FaultKept DEF Step
    <3>3. Alone' /\ \A w \in Updaters : Parts(w)'
      BY <2>1, <3>1, <3>2, OthersStay DEF Kept
    <3> QED BY <3>1, <3>2, <3>3 DEF Kept, Parts, Inv
  <2>2. CASE UNCHANGED vars
    BY <2>2
    DEF vars, Inv, Base, TypeOK, LinkNeverDangles, Fits, Alone, Live, BrokenInPlace,
        BackupPart, LockPart, LinkPart, TornPart, Runs, Struck, Replaces, Build
  <2> QED BY <2>1, <2>2 DEF Next
<1> QED BY <1>1, InvInit, PTL DEF Spec

\* When updaters follow one another, the linked binary is whole but for an update that
\* copied into the linked directory, wherever updaters are cut off and operations fail.
THEOREM LinkedIsWhole ==
  ASSUME ~Overlap
  PROVE  Spec => []BrokenInPlace
  BY InvInvariant, PTL DEF Inv

\* When updaters follow one another, an update that moves the link and is not struck by
\* a fault leaves the binary that ran until then in rollback/.
THEOREM PreviousIsKept ==
  ASSUME ~Overlap
  PROVE  Spec => KeepsPrevious
<1> DEFINE Keeps == \A u \in Updaters :
                      Moves(u) /\ Replaces(u) /\ was[u].dir # plan[u]
                        => file["backup"] = was[u].build
<1>1. Inv /\ [Next]_vars => [Keeps]_vars
  BY DEF Inv, LinkPart, Moves
<1> QED BY <1>1, InvInvariant, PTL DEF Spec, KeepsPrevious

\* When updaters follow one another and <data_dir>/downloads exists, an updater that no
\* fault strikes is neither refused nor fails, whatever those before it left behind.
THEOREM CleanRunsSettle ==
  ASSUME ~Overlap, Downloads
  PROVE  Spec => []CleanRunSettles
<1>1. Init => CleanRunSettles
  BY DEF Init, CleanRunSettles
<1>2. Inv /\ CleanRunSettles /\ [Next]_vars => CleanRunSettles'
  <2> SUFFICES ASSUME Inv, CleanRunSettles, [Next]_vars PROVE CleanRunSettles'
    OBVIOUS
  <2>1. ASSUME NEW u \in Updaters, Start(u) \/ Step(u) \/ Fault(u) PROVE CleanRunSettles'
    <3>1. ~hit'[u] => ~hit[u]
      BY <2>1
      DEF Start, Step, Fault, Look, ReadLock, RemoveStale, CreateLock, WritePid, Unlock,
          Fetch, Copy, Copied, Backup, BackedUp, Unlink, Link, CheckBackup, Save, Saved,
          Clean, CutOff, LockFails, StepFails, BackupFails, Strike, ghosts, Inv, Base, TypeOK
    <3>2. ~hit'[u] => result'[u] \notin {"refused", "failed"}
      <4>1. ASSUME Fault(u) PROVE hit'[u]
        BY <4>1
        DEF Fault, CutOff, LockFails, StepFails, BackupFails, Strike, Inv, Base, TypeOK
      <4>2. ASSUME ReadLock(u) PROVE ~LockHeld
        <5>1. u \in Live /\ lock.by # u
          BY <4>2 DEF ReadLock, Live, Locking, Inv, LockPart
        <5> QED BY <5>1 DEF LockHeld, Inv, Alone
      <4>3. ASSUME Start(u) \/ Step(u)
            PROVE  result'[u] \in {result[u], "current", "installed", "nothing"}
        BY <4>2, <4>3
        DEF Start, Step, Look, ReadLock, RemoveStale, CreateLock, WritePid, Unlock, Fetch,
            CanFetch, Copy, Copied, Backup, BackedUp, Unlink, Link, CheckBackup, Save, Saved, Clean,
            Report, LockPart, LinkPart, Inv, Base, TypeOK
      <4> QED BY <2>1, <3>1, <4>1, <4>3 DEF CleanRunSettles
    <3> QED BY <2>1, <3>2, Mover DEF CleanRunSettles
  <2>2. CASE UNCHANGED vars
    BY <2>2 DEF vars, CleanRunSettles
  <2> QED BY <2>1, <2>2 DEF Next
<1> QED BY <1>1, <1>2, InvInvariant, PTL DEF Spec

=============================================================================
