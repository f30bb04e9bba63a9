----------------------------- MODULE LeaseFiles -----------------------------
(***************************************************************************)
(* The memfile lease database of one server, and the lease file cleanup    *)
(* (LFC) that it starts as a process of its own.  The server appends every *)
(* change to the current lease file.  For a cleanup it renames that file   *)
(* to the copy and starts kea-lfc, which merges the previous file and the  *)
(* copy into an output file and moves files around so that both processes  *)
(* can tell how far it got.  Either process may die between any two steps. *)
(*                                                                         *)
(* When a file is loaded a later row for an address overrides the earlier  *)
(* ones, so a file is represented by the last row of each address.         *)
(***************************************************************************)
EXTENDS Naturals, FiniteSets

CONSTANTS
    Addrs,          \* the addresses that are leased
    Leases,         \* what a lease may say
    Procs,          \* the kea-lfc processes that may be alive together
    Faults,         \* "crash", "io"; "overlap": a cleanup takes longer than
                    \* lfc-interval; "slow start": a kea-lfc takes longer to write
                    \* its PID file than the server to fire its timer again, or
                    \* to be started again
    MaxFaults       \* bound on crashes and failures

Nothing == "nothing"        \* no row, or no lease
Removed == "removed"        \* a row with the valid lifetime 0

ASSUME LeasesAssumption == {Nothing, Removed} \cap Leases = {}
ASSUME BoundAssumption == MaxFaults \in Nat
ASSUME ProcsAssumption == {"absent", "empty", "stale"} \cap Procs = {}

FileNames == {"current", "copy", "previous", "output", "finish"}

VARIABLES
    files,          \* the lease files that exist
    rows,           \* the last row per address in each file
    server,         \* "down", the next file to load, "up", or "unsaved": up,
                    \* without a lease file to write to
    storage,        \* storage4_ or storage6_
    lfc,            \* the next step of each kea-lfc process, or "none"
    merged,         \* the storage of each kea-lfc process
    pidFile,        \* the process in the PID file, or "absent", "empty", or
                    \* "stale" when that process has died
    faults          \* the number of crashes and failures so far

serverVars == <<server, storage>>
lfcVars == <<lfc, merged, pidFile>>
vars == <<files, rows, server, storage, lfc, merged, pidFile, faults>>

Empty == [a \in Addrs |-> Nothing]

Init ==
    /\ files = {}
    /\ rows = [f \in FileNames |-> Empty]
    /\ server = "down"
    /\ storage = Empty
    /\ lfc = [p \in Procs |-> "none"]
    /\ merged = [p \in Procs |-> Empty]
    /\ pidFile = "absent"
    /\ faults = 0

Fault(kind) == kind \in Faults /\ faults < MaxFaults /\ faults' = faults + 1

\* LeaseFileLoader::load of the rows of a file.
load(db, file) ==
    [a \in Addrs |-> CASE file[a] = Nothing -> db[a]
                       [] file[a] = Removed -> Nothing
                       [] OTHER -> file[a]]

remove(f) == files' = files \ {f} /\ rows' = [rows EXCEPT ![f] = Empty]

rename(f, g) ==
    /\ files' = (files \ {f}) \union {g}
    /\ rows' = [rows EXCEPT ![g] = rows[f], ![f] = Empty]

----------------------------------------------------------------------------
\* The server.

\* The PID file names a process that is alive.
Running == pidFile \in Procs

\* No kea-lfc is still to be noticed by its PID file.
Noticed ==
    "slow start" \in Faults \/ \A p \in Procs : lfc[p] \notin {"check", "open", "write pid"}

\* The start of loadLeasesFromFiles.  It fails when a cleanup is running, or when
\* there is no number in the PID file.
StartLoading ==
    /\ server = "down"
    /\ ~Running /\ pidFile # "empty"
    /\ Noticed
    /\ server' = "finish"
    /\ storage' = Empty
    /\ UNCHANGED <<files, rows, lfcVars, faults>>

LoadFinish ==
    /\ server = "finish"
    /\ storage' = load(storage, rows["finish"])
    /\ server' = IF "finish" \in files THEN "current" ELSE "previous"
    /\ UNCHANGED <<files, rows, lfcVars, faults>>

LoadPrevious ==
    /\ server = "previous"
    /\ storage' = load(storage, rows["previous"])
    /\ server' = "copy"
    /\ UNCHANGED <<files, rows, lfcVars, faults>>

LoadCopy ==
    /\ server = "copy"
    /\ storage' = load(storage, rows["copy"])
    /\ server' = "current"
    /\ UNCHANGED <<files, rows, lfcVars, faults>>

\* The current file is created if need be, and stays open.
LoadCurrent ==
    /\ server = "current"
    /\ storage' = load(storage, rows["current"])
    /\ files' = files \union {"current"}
    /\ server' = "up"
    /\ UNCHANGED <<rows, lfcVars, faults>>

\* Rows are appended only while there is a lease file.
append(S, row) ==
    rows' = IF server = "up"
            THEN [rows EXCEPT !["current"] =
                     [a \in Addrs |-> IF a \in S THEN row ELSE @[a]]]
            ELSE rows

addLease(a, lease) ==
    /\ server \in {"up", "unsaved"}
    /\ storage[a] = Nothing
    /\ append({a}, lease)
    /\ storage' = [storage EXCEPT ![a] = lease]
    /\ UNCHANGED <<files, server, lfcVars, faults>>

updateLease(a, lease) ==
    /\ server \in {"up", "unsaved"}
    /\ storage[a] # Nothing
    /\ append({a}, lease)
    /\ storage' = [storage EXCEPT ![a] = lease]
    /\ UNCHANGED <<files, server, lfcVars, faults>>

\* deleteLease of one address, and deleteExpiredReclaimedLeases of any number.
deleteLeases(S) ==
    /\ server \in {"up", "unsaved"}
    /\ \A a \in S : storage[a] # Nothing
    /\ append(S, Removed)
    /\ storage' = [a \in Addrs |-> IF a \in S THEN Nothing ELSE storage[a]]
    /\ UNCHANGED <<files, server, lfcVars, faults>>

\* LFCSetup::execute.
execute(p) == lfc[p] = "none" /\ lfc' = [lfc EXCEPT ![p] = "check"]

\* The timer does not fire while a cleanup is alive, unless cleanups overlap.
TimerFires ==
    /\ server = "up"
    /\ Noticed
    /\ "overlap" \notin Faults => \A p \in Procs : lfc[p] = "none"

\* Mutant: the finish file is not looked at.
MayRotateOverFinish == "copy" \notin files

\* Neither the finish file nor a copy is there.
MayRotate == "finish" \notin files /\ "copy" \notin files

\* The current file becomes the copy, and a new one is opened.
rotate ==
    /\ files' = files \union {"copy"}
    /\ rows' = [rows EXCEPT !["copy"] = rows["current"], !["current"] = Empty]

\* lfcExecute when all goes well.
lfcExecute(p) ==
    /\ TimerFires
    /\ execute(p)
    /\ IF MayRotate THEN rotate ELSE UNCHANGED <<files, rows>>
    /\ UNCHANGED <<serverVars, merged, pidFile, faults>>

\* The process cannot be created, or the server dies just before.
lfcExecuteWithoutProcess ==
    /\ TimerFires /\ MayRotate
    /\ rotate
    /\ \/ Fault("io") /\ UNCHANGED serverVars
       \/ Fault("crash") /\ server' = "down" /\ UNCHANGED storage
    /\ UNCHANGED lfcVars

\* The lease file, renamed or not, cannot be opened: the server goes on without one,
\* or it dies just before.
lfcExecuteWithoutFile ==
    /\ TimerFires /\ MayRotate
    /\ rename("current", "copy") \/ UNCHANGED <<files, rows>>
    /\ \/ Fault("io") /\ server' = "unsaved"
       \/ Fault("crash") /\ server' = "down"
    /\ UNCHANGED <<storage, lfcVars>>

\* The lease manager is destroyed for a new configuration, or the server exits.
Stop ==
    /\ server \in {"up", "unsaved"}
    /\ server' = "down"
    /\ UNCHANGED <<files, rows, storage, lfcVars, faults>>

\* The server dies while it loads the files.  Later it makes no difference to Stop.
DieLoading ==
    /\ server \in FileNames
    /\ Fault("crash")
    /\ server' = "down"
    /\ UNCHANGED <<files, rows, storage, lfcVars>>

----------------------------------------------------------------------------
\* The process p of kea-lfc: LFCController::launch.

Continue(p, step) == lfc' = [lfc EXCEPT ![p] = step]

\* PIDFile::check.  The process ends if another one is running, or when there is no
\* number in the PID file.
CheckPid(p) ==
    /\ lfc[p] = "check"
    /\ Continue(p, IF Running \/ pidFile = "empty" THEN "none" ELSE "open")
    /\ UNCHANGED <<files, rows, serverVars, merged, pidFile, faults>>

\* PIDFile::write truncates the file before it writes the number.
OpenPid(p) ==
    /\ lfc[p] = "open"
    /\ pidFile' = "empty"
    /\ Continue(p, "write pid")
    /\ UNCHANGED <<files, rows, serverVars, merged, faults>>

WritePid(p) ==
    /\ lfc[p] = "write pid"
    /\ pidFile' = p
    /\ Continue(p, "look")
    /\ UNCHANGED <<files, rows, serverVars, merged, faults>>

\* Mutant: the process leaves a finish file to the one that made it.
LookForFinishGivesUp(p) ==
    /\ lfc[p] = "look"
    /\ merged' = [merged EXCEPT ![p] = Empty]
    /\ Continue(p, IF "finish" \in files THEN "delete pid" ELSE "load previous")
    /\ UNCHANGED <<files, rows, serverVars, pidFile, faults>>

LookForFinish(p) ==
    /\ lfc[p] = "look"
    /\ merged' = [merged EXCEPT ![p] = Empty]
    /\ Continue(p, IF "finish" \in files THEN "remove previous" ELSE "load previous")
    /\ UNCHANGED <<files, rows, serverVars, pidFile, faults>>

\* processLeases: two files are loaded, and the result is written and renamed.
ProcessPrevious(p) ==
    /\ lfc[p] = "load previous"
    /\ merged' = [merged EXCEPT ![p] = load(@, rows["previous"])]
    /\ Continue(p, "load copy")
    /\ UNCHANGED <<files, rows, serverVars, pidFile, faults>>

ProcessCopy(p) ==
    /\ lfc[p] = "load copy"
    /\ merged' = [merged EXCEPT ![p] = load(@, rows["copy"])]
    /\ Continue(p, "write")
    /\ UNCHANGED <<files, rows, serverVars, pidFile, faults>>

\* LeaseFileLoader::write of the leases in S appends to a file that is there already.
write(p, S) ==
    /\ files' = files \union {"output"}
    /\ rows' = [rows EXCEPT !["output"] =
                   [a \in Addrs |-> IF a \in S /\ merged[p][a] # Nothing
                                    THEN merged[p][a] ELSE @[a]]]

WriteOutput(p) ==
    /\ lfc[p] = "write"
    /\ write(p, Addrs)
    /\ Continue(p, "rename")
    /\ UNCHANGED <<serverVars, merged, pidFile, faults>>

\* The process dies, or fails, with a part of the leases written.
WriteOutputPartly(p) ==
    /\ lfc[p] = "write"
    /\ \E S \in SUBSET Addrs : write(p, S)
    /\ \/ Fault("io") /\ Continue(p, "delete pid") /\ UNCHANGED pidFile
       \/ Fault("crash") /\ Continue(p, "none")
            /\ pidFile' = IF pidFile = p THEN "stale" ELSE pidFile
    /\ UNCHANGED <<serverVars, merged>>

\* rename fails if there is no such file: then nothing is rotated.
RenameOutput(p) ==
    /\ lfc[p] = "rename"
    /\ IF "output" \in files
       THEN rename("output", "finish") /\ Continue(p, "remove previous")
       ELSE UNCHANGED <<files, rows>> /\ Continue(p, "delete pid")
    /\ UNCHANGED <<serverVars, merged, pidFile, faults>>

\* fileRotate: three steps.
RemovePrevious(p) ==
    /\ lfc[p] = "remove previous"
    /\ remove("previous")
    /\ Continue(p, "remove copy")
    /\ UNCHANGED <<serverVars, merged, pidFile, faults>>

RemoveCopy(p) ==
    /\ lfc[p] = "remove copy"
    /\ remove("copy")
    /\ Continue(p, "rename finish")
    /\ UNCHANGED <<serverVars, merged, pidFile, faults>>

RenameFinish(p) ==
    /\ lfc[p] = "rename finish"
    /\ IF "finish" \in files THEN rename("finish", "previous") ELSE UNCHANGED <<files, rows>>
    /\ Continue(p, "delete pid")
    /\ UNCHANGED <<serverVars, merged, pidFile, faults>>

\* The PID file is removed, whoever wrote it.
DeletePid(p) ==
    /\ lfc[p] = "delete pid"
    /\ pidFile' = "absent"
    /\ Continue(p, "none")
    /\ UNCHANGED <<files, rows, serverVars, merged, faults>>

\* A file cannot be read, removed or renamed: the rest is left undone.
StepFails(p) ==
    /\ lfc[p] \in {"load previous", "load copy", "rename", "remove previous",
                   "remove copy", "rename finish"}
    /\ Fault("io")
    /\ Continue(p, "delete pid")
    /\ UNCHANGED <<files, rows, serverVars, merged, pidFile>>

Die(p) ==
    /\ lfc[p] # "none"
    /\ Fault("crash")
    /\ Continue(p, "none")
    /\ pidFile' = IF pidFile = p THEN "stale" ELSE pidFile
    /\ UNCHANGED <<files, rows, serverVars, merged>>

----------------------------------------------------------------------------
Server ==
    \/ StartLoading \/ LoadFinish \/ LoadPrevious \/ LoadCopy \/ LoadCurrent
    \/ \E a \in Addrs, lease \in Leases : addLease(a, lease) \/ updateLease(a, lease)
    \/ \E S \in SUBSET Addrs : deleteLeases(S)
    \/ \E p \in Procs : lfcExecute(p)
    \/ lfcExecuteWithoutProcess
    \/ lfcExecuteWithoutFile
    \/ Stop
    \/ DieLoading

\* What a process does when nothing fails.
launch(p) ==
    \/ CheckPid(p) \/ OpenPid(p) \/ WritePid(p) \/ LookForFinish(p)
    \/ ProcessPrevious(p) \/ ProcessCopy(p) \/ WriteOutput(p) \/ RenameOutput(p)
    \/ RemovePrevious(p) \/ RemoveCopy(p) \/ RenameFinish(p) \/ DeletePid(p)

Next ==
    \/ Server
    \/ \E p \in Procs : launch(p) \/ WriteOutputPartly(p) \/ StepFails(p) \/ Die(p)

Spec == Init /\ [][Next]_vars

\* Processes run, the server is started again and loads its leases, and however often
\* it is configured anew, its timer fires now and then.
Fairness ==
    /\ \A p \in Procs : WF_vars(launch(p))
    /\ WF_vars(StartLoading \/ LoadFinish \/ LoadPrevious \/ LoadCopy \/ LoadCurrent)
    /\ SF_vars(\E p \in Procs : lfcExecute(p))

FairSpec == Spec /\ Fairness

----------------------------------------------------------------------------
\* The leases that loadLeasesFromFiles would find now.
Recovered ==
    load(IF "finish" \in files THEN load(Empty, rows["finish"])
         ELSE load(load(Empty, rows["previous"]), rows["copy"]), rows["current"])

\* The types of the variables.
TypeOK ==
    /\ files \subseteq FileNames
    /\ rows \in [FileNames -> [Addrs -> Leases \union {Nothing, Removed}]]
    /\ server \in {"down", "finish", "previous", "copy", "current", "up", "unsaved"}
    /\ storage \in [Addrs -> Leases \union {Nothing}]
    /\ lfc \in [Procs -> {"none", "check", "open", "write pid", "look", "load previous",
                          "load copy", "write", "rename", "remove previous",
                          "remove copy", "rename finish", "delete pid"}]
    /\ merged \in [Procs -> [Addrs -> Leases \union {Nothing}]]
    /\ pidFile \in Procs \union {"absent", "empty", "stale"}
    /\ faults \in Nat

\* At any time the lease files hold exactly the leases that the server works with:
\* a restart neither loses a lease nor brings back one that was removed, however far
\* the rotation of the files has got.
NothingLost == server = "up" => Recovered = storage

\* The lease files and the cleanup implement the lease database: no step of either
\* process, and no crash, changes what a restart finds, except for the changes that
\* the server makes.
DB == INSTANCE LeaseDB WITH
        durable <- Recovered,
        leases  <- IF server \in {"up", "unsaved"} THEN storage ELSE Empty,
        service <- IF server \in {"up", "unsaved"} THEN server ELSE "down"
Implements == DB!Spec

\* The PID file holds no number, and nobody is about to write one.
PidFileBroken == pidFile = "empty" /\ \A p \in Procs : lfc[p] # "write pid"

\* A copy is eventually processed and removed, also when kea-lfc died on the way: the
\* next one finds out where to go on.  A process that dies between the truncation of
\* the PID file and the writing of its number is excepted, and so is a server that has
\* lost its lease file.
CopyIsCleaned ==
    [](~PidFileBroken) => ("copy" \in files ~> "copy" \notin files \/ server = "unsaved")
=============================================================================
