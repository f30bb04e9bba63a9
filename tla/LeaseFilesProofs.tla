-------------------------- MODULE LeaseFilesProofs --------------------------
(***************************************************************************)
(* The lease files implement the lease database, for any leases, any       *)
(* crashes and any failures, as long as a cleanup is over before the next  *)
(* one is due and starts quickly.                                          *)
(***************************************************************************)
EXTENDS LeaseFiles, TLAPS

Storage == [Addrs -> Leases \union {Nothing}]
File == [Addrs -> Leases \union {Nothing, Removed}]

\* The result of a cleanup of the files as they are.
Merged == load(load(Empty, rows["previous"]), rows["copy"])

Base == IF "finish" \in files THEN load(Empty, rows["finish"]) ELSE Merged

\* There is at most one kea-lfc, and after its start the PID file names it.
ProcessInv ==
    /\ \A p, q \in Procs : lfc[p] # "none" /\ lfc[q] # "none" => p = q
    /\ \A p \in Procs :
         lfc[p] \notin {"none", "check", "open", "write pid"} => pidFile = p
    /\ server \in FileNames => \A p \in Procs : lfc[p] = "none"

\* What the server has loaded so far.
LoadInv ==
    /\ server = "finish" => storage = Empty
    /\ server = "previous" => storage = Empty /\ "finish" \notin files
    /\ server = "copy" => storage = load(Empty, rows["previous"]) /\ "finish" \notin files
    /\ server = "current" => storage = Base
    /\ server = "up" => storage = Recovered /\ "current" \in files

\* The output file exists only while the copy is being processed, and holds nothing
\* but results; the finish file holds no removed leases.
FileInv ==
    /\ \A f \in FileNames \ files : rows[f] = Empty
    /\ rows["finish"] \in Storage
    /\ "output" \in files => "copy" \in files /\ "finish" \notin files
    /\ \A a \in Addrs : rows["output"][a] \in {Nothing, Merged[a]}

\* What kea-lfc knows at each of its steps.
StepInv ==
    \A p \in Procs :
      /\ lfc[p] \in {"check", "open", "write pid", "look"} =>
           "copy" \in files \/ "finish" \in files
      /\ lfc[p] \in {"load previous", "load copy", "write", "rename"} =>
           "copy" \in files /\ "finish" \notin files
      /\ lfc[p] = "load previous" => merged[p] = Empty
      /\ lfc[p] = "load copy" => merged[p] = load(Empty, rows["previous"])
      /\ lfc[p] = "write" => merged[p] = Merged
      /\ lfc[p] = "rename" => "output" \in files /\ rows["output"] = Merged
      /\ lfc[p] \in {"remove previous", "remove copy", "rename finish"} => "finish" \in files
      /\ lfc[p] \in {"remove copy", "rename finish"} => "previous" \notin files
      /\ lfc[p] = "rename finish" => "copy" \notin files

IInv == TypeOK /\ ProcessInv /\ LoadInv /\ FileInv /\ StepInv

\* The timing that the theorems rest on.
InTime == "overlap" \notin Faults /\ "slow start" \notin Faults

----------------------------------------------------------------------------
\* Loading a file gives a storage.
LEMMA LoadType ==
  ASSUME NEW db \in Storage, NEW file \in File
  PROVE  load(db, file) \in Storage
  BY DEF load, Storage, File

\* A file without rows changes nothing.
LEMMA LoadEmpty ==
  ASSUME NEW db \in Storage
  PROVE  load(db, Empty) = db
  <1>1. load(db, Empty) = [a \in Addrs |-> db[a]]
    BY DEF load, Empty, Nothing, Removed
  <1> QED BY <1>1 DEF Storage

\* A file without removed leases, loaded first, is what is stored.
LEMMA LoadFirst ==
  ASSUME NEW file \in Storage
  PROVE  load(Empty, file) = file
  BY LeasesAssumption DEF load, Storage, Empty

\* A row that is appended overrides what was loaded before.
LEMMA LoadAppended ==
  ASSUME NEW db \in Storage, NEW file \in File, NEW S \in SUBSET Addrs,
         NEW row \in Leases \union {Removed}
  PROVE  load(db, [a \in Addrs |-> IF a \in S THEN row ELSE file[a]]) =
           [a \in Addrs |-> IF a \in S THEN (IF row = Removed THEN Nothing ELSE row)
                           ELSE load(db, file)[a]]
  BY LeasesAssumption DEF load, Storage, File, Nothing, Removed

\* An empty file is a file and a storage, and a storage is a file.
LEMMA EmptyType == Empty \in Storage /\ Empty \in File /\ Storage \subseteq File
  BY DEF Empty, Storage, File

\* The types of what the invariant computes from the files.
LEMMA MergedType ==
  ASSUME TypeOK
  PROVE  /\ load(Empty, rows["previous"]) \in Storage
         /\ Merged \in Storage
         /\ Base \in Storage
         /\ Recovered = load(Base, rows["current"])
         /\ Recovered \in Storage
  <1>1. \A f \in FileNames : rows[f] \in File
    BY Zenon DEF TypeOK, File
  <1>2. load(Empty, rows["previous"]) \in Storage /\ load(Empty, rows["finish"]) \in Storage
    BY Zenon, <1>1, EmptyType, LoadType DEF FileNames
  <1>3. Merged \in Storage
    BY <1>1, <1>2, LoadType DEF FileNames, Merged
  <1>4. Base \in Storage
    BY <1>2, <1>3 DEF Base
  <1>5. Recovered = load(Base, rows["current"])
    BY DEF Recovered, Base, Merged
  <1>6. Recovered \in Storage
    BY <1>1, <1>4, <1>5, LoadType DEF FileNames
  <1> QED BY <1>2, <1>3, <1>4, <1>5, <1>6
----------------------------------------------------------------------------
\* The number of faults is a number.
LEMMA FaultType ==
  ASSUME NEW kind, faults \in Nat, Fault(kind)
  PROVE  faults' \in Nat
  BY BoundAssumption DEF Fault

\* Moving and removing files keeps the types.
LEMMA RowsType ==
  ASSUME TypeOK, NEW f \in FileNames, NEW g \in FileNames,
         remove(f) \/ rename(f, g) \/ rotate
  PROVE  files' \subseteq FileNames /\ rows' \in [FileNames -> [Addrs -> Leases \union {Nothing, Removed}]]
  <1>1. Empty \in File /\ \A h \in FileNames : rows[h] \in File
    BY Zenon, EmptyType DEF TypeOK, File
  <1>2. rows \in [FileNames -> File] /\ files \subseteq FileNames
    BY Zenon DEF TypeOK, File
  <1>3. files' \subseteq FileNames /\ rows' \in [FileNames -> File]
    <2>1. CASE remove(f)
      BY <1>1, <1>2, <2>1 DEF remove
    <2>2. CASE rename(f, g)
      BY <1>1, <1>2, <2>2 DEF rename
    <2>3. CASE rotate
      BY <1>1, <1>2, <2>3 DEF rotate, FileNames
    <2> QED BY <2>1, <2>2, <2>3
  <1> QED BY <1>3 DEF File

\* Every action of the server keeps the types.
LEMMA ServerTypes ==
  ASSUME TypeOK, Server
  PROVE  TypeOK'
  <1>0. /\ \A f \in FileNames : rows[f] \in File
        /\ storage \in Storage /\ Empty \in Storage /\ Empty \in File
    BY Zenon, EmptyType DEF TypeOK, File, Storage
  <1> USE DEF lfcVars, serverVars
  <1>1. CASE StartLoading
    BY Zenon, <1>1, <1>0 DEF StartLoading, TypeOK, Storage
  <1>2. CASE LoadFinish
    <2>1. load(storage, rows["finish"]) \in Storage
      BY <1>0, LoadType DEF FileNames
    <2> QED BY Zenon, <1>2, <2>1 DEF LoadFinish, TypeOK, Storage, FileNames
  <1>3. CASE LoadPrevious
    <2>1. load(storage, rows["previous"]) \in Storage
      BY <1>0, LoadType DEF FileNames
    <2> QED BY Zenon, <1>3, <2>1 DEF LoadPrevious, TypeOK, Storage, FileNames
  <1>4. CASE LoadCopy
    <2>1. load(storage, rows["copy"]) \in Storage
      BY <1>0, LoadType DEF FileNames
    <2> QED BY Zenon, <1>4, <2>1 DEF LoadCopy, TypeOK, Storage, FileNames
  <1>5. CASE LoadCurrent
    <2>1. load(storage, rows["current"]) \in Storage
      BY <1>0, LoadType DEF FileNames
    <2> QED BY Zenon, <1>5, <2>1 DEF LoadCurrent, TypeOK, Storage, FileNames
  <1>a. ASSUME NEW S \in SUBSET Addrs, NEW row \in Leases \union {Removed}, append(S, row)
        PROVE  rows' \in [FileNames -> [Addrs -> Leases \union {Nothing, Removed}]]
    BY Zenon, <1>a DEF append, TypeOK, FileNames
  <1>6. ASSUME NEW a \in Addrs, NEW lease \in Leases, addLease(a, lease) \/ updateLease(a, lease)
       PROVE  TypeOK'
    <2>1. append({a}, lease)
      BY <1>6 DEF addLease, updateLease
    <2>2. rows' \in [FileNames -> [Addrs -> Leases \union {Nothing, Removed}]]
      BY <1>a, <2>1
    <2> QED BY Zenon, <1>6, <2>2 DEF addLease, updateLease, TypeOK
  <1>7. ASSUME NEW S \in SUBSET Addrs, deleteLeases(S) PROVE TypeOK'
    <2>1. rows' \in [FileNames -> [Addrs -> Leases \union {Nothing, Removed}]]
      BY <1>a, <1>7 DEF deleteLeases
    <2> QED BY Zenon, <1>7, <2>1 DEF deleteLeases, TypeOK
  <1>8. ASSUME NEW p \in Procs, lfcExecute(p) PROVE TypeOK'
    <2>1. CASE MayRotate
      <3>1. files' \subseteq FileNames /\ rows' \in [FileNames -> [Addrs -> Leases \union {Nothing, Removed}]]
        BY <1>8, <2>1, RowsType DEF lfcExecute, FileNames
      <3> QED BY Zenon, <1>8, <3>1 DEF lfcExecute, execute, TypeOK
    <2>2. CASE ~MayRotate
      BY Zenon, <1>8, <2>2 DEF lfcExecute, execute, TypeOK
    <2> QED BY <2>1, <2>2
  <1>9. CASE lfcExecuteWithoutProcess
    <2>1. files' \subseteq FileNames /\ rows' \in [FileNames -> [Addrs -> Leases \union {Nothing, Removed}]]
      BY <1>9, RowsType DEF lfcExecuteWithoutProcess, FileNames
    <2>2. faults' \in Nat
      BY Zenon, <1>9, FaultType DEF lfcExecuteWithoutProcess, TypeOK
    <2> QED BY Zenon, <1>9, <2>1, <2>2 DEF lfcExecuteWithoutProcess, TypeOK
  <1>10. CASE lfcExecuteWithoutFile
    <2>1. files' \subseteq FileNames /\ rows' \in [FileNames -> [Addrs -> Leases \union {Nothing, Removed}]]
      <3>1. CASE rename("current", "copy")
        BY <3>1, RowsType DEF FileNames
      <3>2. CASE UNCHANGED <<files, rows>>
        BY Zenon, <3>2 DEF TypeOK
      <3> QED BY <1>10, <3>1, <3>2 DEF lfcExecuteWithoutFile
    <2>2. faults' \in Nat
      BY Zenon, <1>10, FaultType DEF lfcExecuteWithoutFile, TypeOK
    <2> QED BY Zenon, <1>10, <2>1, <2>2 DEF lfcExecuteWithoutFile, TypeOK
  <1>11. CASE Stop
    BY Zenon, <1>11 DEF Stop, TypeOK
  <1>12. CASE DieLoading
    <2>1. faults' \in Nat
      BY Zenon, <1>12, FaultType DEF DieLoading, TypeOK
    <2> QED BY Zenon, <1>12, <2>1 DEF DieLoading, TypeOK
  <1> QED BY <1>1, <1>2, <1>3, <1>4, <1>5, <1>6, <1>7, <1>8, <1>9, <1>10, <1>11, <1>12 DEF Server

\* Every step of kea-lfc keeps the types.
LEMMA ProcessTypes ==
  ASSUME TypeOK, NEW p \in Procs,
         launch(p) \/ WriteOutputPartly(p) \/ StepFails(p) \/ Die(p)
  PROVE  TypeOK'
  <1>0. /\ \A f \in FileNames : rows[f] \in File
        /\ merged[p] \in Storage /\ Empty \in Storage /\ Empty \in File
    BY Zenon, EmptyType DEF TypeOK, File, Storage
  <1> USE DEF serverVars, Continue
  <1>1. CASE CheckPid(p)
    BY Zenon, <1>1 DEF CheckPid, TypeOK
  <1>2. CASE OpenPid(p)
    BY Zenon, <1>2 DEF OpenPid, TypeOK
  <1>3. CASE WritePid(p)
    BY Zenon, <1>3 DEF WritePid, TypeOK
  <1>4. CASE DeletePid(p)
    BY Zenon, <1>4 DEF DeletePid, TypeOK
  <1>5. CASE LookForFinish(p)
    BY Zenon, <1>0, <1>5 DEF LookForFinish, TypeOK, Storage
  <1>6. CASE ProcessPrevious(p)
    <2>1. load(merged[p], rows["previous"]) \in Storage
      BY <1>0, LoadType DEF FileNames
    <2> QED BY Zenon, <1>6, <2>1 DEF ProcessPrevious, TypeOK, Storage
  <1>7. CASE ProcessCopy(p)
    <2>1. load(merged[p], rows["copy"]) \in Storage
      BY <1>0, LoadType DEF FileNames
    <2> QED BY Zenon, <1>7, <2>1 DEF ProcessCopy, TypeOK, Storage
  <1>w. ASSUME NEW S \in SUBSET Addrs, write(p, S)
        PROVE  /\ files' \subseteq FileNames
               /\ rows' \in [FileNames -> [Addrs -> Leases \union {Nothing, Removed}]]
    BY Zenon, <1>0, <1>w DEF write, TypeOK, FileNames, Storage
  <1>8. CASE WriteOutput(p)
    <2>1. /\ files' \subseteq FileNames
          /\ rows' \in [FileNames -> [Addrs -> Leases \union {Nothing, Removed}]]
      BY <1>8, <1>w DEF WriteOutput
    <2> QED BY Zenon, <1>8, <2>1 DEF WriteOutput, TypeOK
  <1>9. CASE WriteOutputPartly(p)
    <2>1. /\ files' \subseteq FileNames
          /\ rows' \in [FileNames -> [Addrs -> Leases \union {Nothing, Removed}]]
      BY Zenon, <1>9, <1>w DEF WriteOutputPartly
    <2>2. faults' \in Nat
      BY Zenon, <1>9, FaultType DEF WriteOutputPartly, TypeOK
    <2> QED BY Zenon, <1>9, <2>1, <2>2 DEF WriteOutputPartly, TypeOK
  <1>10. CASE RenameOutput(p)
    <2>1. files' \subseteq FileNames /\ rows' \in [FileNames -> [Addrs -> Leases \union {Nothing, Removed}]]
      BY Zenon, <1>10, RowsType DEF RenameOutput, FileNames, TypeOK
    <2> QED BY Zenon, <1>10, <2>1 DEF RenameOutput, TypeOK
  <1>11. CASE RemovePrevious(p)
    <2>1. files' \subseteq FileNames /\ rows' \in [FileNames -> [Addrs -> Leases \union {Nothing, Removed}]]
      BY Zenon, <1>11, RowsType DEF RemovePrevious, FileNames, TypeOK
    <2> QED BY Zenon, <1>11, <2>1 DEF RemovePrevious, TypeOK
  <1>12. CASE RemoveCopy(p)
    <2>1. files' \subseteq FileNames /\ rows' \in [FileNames -> [Addrs -> Leases \union {Nothing, Removed}]]
      BY Zenon, <1>12, RowsType DEF RemoveCopy, FileNames, TypeOK
    <2> QED BY Zenon, <1>12, <2>1 DEF RemoveCopy, TypeOK
  <1>13. CASE RenameFinish(p)
    <2>1. files' \subseteq FileNames /\ rows' \in [FileNames -> [Addrs -> Leases \union {Nothing, Removed}]]
      BY Zenon, <1>13, RowsType DEF RenameFinish, FileNames, TypeOK
    <2> QED BY Zenon, <1>13, <2>1 DEF RenameFinish, TypeOK
  <1>14. CASE StepFails(p)
    <2>1. faults' \in Nat
      BY Zenon, <1>14, FaultType DEF StepFails, TypeOK
    <2> QED BY Zenon, <1>14, <2>1 DEF StepFails, TypeOK
  <1>15. CASE Die(p)
    <2>1. faults' \in Nat
      BY Zenon, <1>15, FaultType DEF Die, TypeOK
    <2> QED BY Zenon, <1>15, <2>1 DEF Die, TypeOK
  <1> QED BY <1>1, <1>2, <1>3, <1>4, <1>5, <1>6, <1>7, <1>8, <1>9, <1>10, <1>11, <1>12, <1>13, <1>14, <1>15 DEF launch

\* However cleanups overlap, die and fail, every process is at one of its steps and what
\* is loaded and merged is free of removed leases (LeaseFileLoader::load).
THEOREM TypeCorrect == Spec => []TypeOK
  <1>1. Init => TypeOK
    BY EmptyType DEF Init, TypeOK, FileNames, Storage, File, Empty
  <1>2. TypeOK /\ [Next]_vars => TypeOK'
    <2> SUFFICES ASSUME TypeOK, [Next]_vars PROVE TypeOK'
      OBVIOUS
    <2>1. CASE UNCHANGED vars
      BY Zenon, <2>1 DEF vars, TypeOK
    <2> QED BY <2>1, ServerTypes, ProcessTypes DEF Next
  <1> QED BY <1>1, <1>2, PTL DEF Spec
----------------------------------------------------------------------------
\* As long as the files stay, so does what can be computed from them.
LEMMA SameFiles ==
  ASSUME UNCHANGED <<files, rows>>
  PROVE  Merged' = Merged /\ Base' = Base /\ Recovered' = Recovered
  BY DEF Merged, Base, Recovered

\* The rows that the server appends change what a restart finds, and nothing else.
LEMMA Appended ==
  ASSUME TypeOK, server = "up", UNCHANGED files,
         NEW S \in SUBSET Addrs, NEW row \in Leases \union {Removed}, append(S, row)
  PROVE  /\ Merged' = Merged /\ Base' = Base
         /\ \A f \in FileNames \ {"current"} : rows'[f] = rows[f]
         /\ Recovered' = [a \in Addrs |-> IF a \in S
                             THEN (IF row = Removed THEN Nothing ELSE row) ELSE Recovered[a]]
  <1>1. /\ rows'["current"] = [a \in Addrs |-> IF a \in S THEN row ELSE rows["current"][a]]
        /\ \A f \in FileNames \ {"current"} : rows'[f] = rows[f]
    BY Zenon DEF append, TypeOK, FileNames
  <1>2. Merged' = Merged /\ Base' = Base
    BY <1>1 DEF Merged, Base, FileNames
  <1>3. Recovered' = load(Base, rows'["current"])
    BY <1>2 DEF Recovered, Base, Merged
  <1>4. Base \in Storage /\ rows["current"] \in File /\ Recovered = load(Base, rows["current"])
    BY Zenon, MergedType DEF TypeOK, File, FileNames
  <1> QED BY <1>1, <1>2, <1>3, <1>4, LoadAppended

\* Before a rotation there are no copy, no output and no finish file, and the rotation
\* does not change what a restart finds.
LEMMA Rotated ==
  ASSUME TypeOK, FileInv, MayRotate, rotate \/ rename("current", "copy")
  PROVE  /\ Recovered' = Recovered
         /\ rows'["output"] = Empty /\ rows'["finish"] = Empty
         /\ "output" \notin files' /\ "finish" \notin files' /\ "copy" \in files'
         /\ \A f \in FileNames \ files' : rows'[f] = Empty
  <1>1. /\ rows["output"] = Empty /\ rows["finish"] = Empty /\ rows["copy"] = Empty
        /\ "output" \notin files
    BY DEF FileInv, MayRotate, FileNames
  <1>2. /\ rows'["copy"] = rows["current"] /\ rows'["current"] = Empty
        /\ \A f \in FileNames \ {"copy", "current"} : rows'[f] = rows[f]
    BY Zenon DEF rotate, rename, TypeOK, FileNames
  <1>3. "finish" \notin files /\ "finish" \notin files'
    BY DEF MayRotate, rotate, rename
  <1>4. Recovered = load(load(Empty, rows["previous"]), rows["current"])
    BY <1>1, <1>3, MergedType, LoadEmpty DEF Recovered
  <1>5. Recovered' = load(load(load(Empty, rows["previous"]), rows["current"]), Empty)
    BY <1>2, <1>3 DEF Recovered, FileNames
  <1>6. load(load(Empty, rows["previous"]), rows["current"]) \in Storage
    BY <1>4, MergedType
  <1>7. Recovered' = Recovered
    BY <1>4, <1>5, <1>6, LoadEmpty
  <1>8. \A f \in FileNames \ files' : rows'[f] = Empty
    BY <1>1, <1>2 DEF FileInv, rotate, rename, FileNames
  <1>9. "output" \notin files' /\ "copy" \in files'
    BY <1>1 DEF rotate, rename
  <1> QED BY <1>1, <1>2, <1>3, <1>7, <1>8, <1>9 DEF FileNames

\* After a rotation without a process the invariant holds for any state of the server.
LEMMA RotatedInv ==
  ASSUME IInv, MayRotate, rotate \/ rename("current", "copy"),
         \A p \in Procs : lfc'[p] \in {"none", "check"}
  PROVE  FileInv' /\ StepInv'
  <1>1. /\ rows'["output"] = Empty /\ rows'["finish"] = Empty
        /\ "output" \notin files' /\ "copy" \in files'
        /\ \A f \in FileNames \ files' : rows'[f] = Empty
    BY Rotated DEF IInv
  <1>2. FileInv'
    BY <1>1, EmptyType DEF FileInv, Empty
  <1>3. StepInv'
    BY Zenon, <1>1 DEF StepInv
  <1> QED BY <1>2, <1>3
----------------------------------------------------------------------------
\* The server keeps the invariant.
LEMMA ServerKeeps ==
  ASSUME InTime, IInv, Server
  PROVE  IInv'
  <1>0. /\ TypeOK /\ TypeOK' /\ ProcessInv /\ LoadInv /\ FileInv /\ StepInv
        /\ storage \in Storage /\ Empty \in Storage
    BY Zenon, ServerTypes, EmptyType DEF IInv, TypeOK, Storage
  <1> USE DEF lfcVars, serverVars
  <1>1. CASE StartLoading
    <2>1. \A p \in Procs : lfc[p] = "none"
      BY Zenon, <1>0, <1>1 DEF StartLoading, Running, Noticed, InTime, ProcessInv
    <2>2. ProcessInv'
      BY Zenon, <1>0, <1>1, <2>1 DEF StartLoading, ProcessInv
    <2>3. LoadInv'
      BY <1>1 DEF StartLoading, LoadInv
    <2>4. FileInv' /\ StepInv'
      BY Zenon, <1>0, <1>1, SameFiles DEF StartLoading, FileInv, StepInv
    <2> QED BY <1>0, <2>2, <2>3, <2>4 DEF IInv
  <1>2. CASE LoadFinish
    <2>1. ProcessInv'
      BY Zenon, <1>0, <1>2 DEF LoadFinish, ProcessInv, FileNames
    <2>2. LoadInv'
      <3>1. CASE "finish" \in files
        BY <1>0, <1>2, <3>1 DEF LoadFinish, LoadInv, Base
      <3>2. CASE "finish" \notin files
        <4>1. storage' = Empty
          BY <1>0, <1>2, <3>2, LoadEmpty DEF LoadFinish, LoadInv, FileInv, FileNames
        <4> QED BY <1>2, <3>2, <4>1 DEF LoadFinish, LoadInv
      <3> QED BY <3>1, <3>2
    <2>3. FileInv' /\ StepInv'
      BY Zenon, <1>0, <1>2, SameFiles DEF LoadFinish, FileInv, StepInv
    <2> QED BY <1>0, <2>1, <2>2, <2>3 DEF IInv
  <1>3. CASE LoadPrevious
    <2>1. ProcessInv'
      BY Zenon, <1>0, <1>3 DEF LoadPrevious, ProcessInv, FileNames
    <2>2. LoadInv'
      BY <1>0, <1>3 DEF LoadPrevious, LoadInv, Base, Merged
    <2>3. FileInv' /\ StepInv'
      BY Zenon, <1>0, <1>3, SameFiles DEF LoadPrevious, FileInv, StepInv
    <2> QED BY <1>0, <2>1, <2>2, <2>3 DEF IInv
  <1>4. CASE LoadCopy
    <2>1. ProcessInv'
      BY Zenon, <1>0, <1>4 DEF LoadCopy, ProcessInv, FileNames
    <2>2. LoadInv'
      BY <1>0, <1>4 DEF LoadCopy, LoadInv, Base, Merged
    <2>3. FileInv' /\ StepInv'
      BY Zenon, <1>0, <1>4, SameFiles DEF LoadCopy, FileInv, StepInv
    <2> QED BY <1>0, <2>1, <2>2, <2>3 DEF IInv
  <1>5. CASE LoadCurrent
    <2>1. ProcessInv'
      BY Zenon, <1>0, <1>5 DEF LoadCurrent, ProcessInv, FileNames
    <2>2. Merged' = Merged /\ Base' = Base /\ Recovered' = Recovered
      BY <1>5 DEF LoadCurrent, Merged, Base, Recovered
    <2>3. LoadInv'
      BY <1>0, <1>5, <2>2, MergedType DEF LoadCurrent, LoadInv
    <2>4. FileInv'
      BY <1>0, <1>5, <2>2 DEF LoadCurrent, FileInv
    <2>5. StepInv'
      BY Zenon, <1>0, <1>5, <2>2 DEF LoadCurrent, StepInv
    <2> QED BY <1>0, <2>1, <2>3, <2>4, <2>5 DEF IInv
  <1>a. ASSUME NEW S \in SUBSET Addrs, NEW row \in Leases \union {Removed},
               server \in {"up", "unsaved"}, append(S, row),
               storage' = [a \in Addrs |-> IF a \in S
                             THEN (IF row = Removed THEN Nothing ELSE row) ELSE storage[a]],
               UNCHANGED <<files, server, lfcVars>>
        PROVE  IInv'
    <2>1. ProcessInv'
      BY Zenon, <1>0, <1>a DEF ProcessInv
    <2>2. CASE server = "up"
      <3>1. /\ Merged' = Merged /\ Base' = Base
            /\ \A f \in FileNames \ {"current"} : rows'[f] = rows[f]
            /\ Recovered' = [a \in Addrs |-> IF a \in S
                 THEN (IF row = Removed THEN Nothing ELSE row) ELSE Recovered[a]]
        BY Zenon, <1>0, <1>a, <2>2, Appended
      <3>2. LoadInv'
        BY <1>0, <1>a, <2>2, <3>1 DEF LoadInv
      <3>3. FileInv'
        BY <1>0, <1>a, <2>2, <3>1 DEF FileInv, FileNames, LoadInv
      <3>4. StepInv'
        BY Zenon, <1>0, <1>a, <3>1 DEF StepInv, FileNames
      <3> QED BY <1>0, <2>1, <3>2, <3>3, <3>4 DEF IInv
    <2>3. CASE server = "unsaved"
      <3>1. UNCHANGED rows
        BY <1>a, <2>3 DEF append
      <3>2. LoadInv'
        BY <1>a, <2>3 DEF LoadInv
      <3>3. FileInv' /\ StepInv'
        BY Zenon, <1>0, <1>a, <3>1, SameFiles DEF FileInv, StepInv
      <3> QED BY <1>0, <2>1, <3>2, <3>3 DEF IInv
    <2> QED BY <1>a, <2>2, <2>3
  <1>6. ASSUME NEW a \in Addrs, NEW lease \in Leases, addLease(a, lease) \/ updateLease(a, lease)
       PROVE  IInv'
    <2>1. lease # Removed
      BY LeasesAssumption
    <2>2. storage' = [b \in Addrs |-> IF b \in {a}
                        THEN (IF lease = Removed THEN Nothing ELSE lease) ELSE storage[b]]
      BY <1>0, <1>6, <2>1 DEF addLease, updateLease, Storage
    <2> QED BY <1>6, <1>a, <2>2 DEF addLease, updateLease
  <1>7. ASSUME NEW S \in SUBSET Addrs, deleteLeases(S) PROVE IInv'
    BY <1>7, <1>a DEF deleteLeases
  <1>8. ASSUME NEW p \in Procs, lfcExecute(p) PROVE IInv'
    <2>1. /\ server = "up" /\ server' = "up" /\ storage' = storage /\ pidFile' = pidFile
          /\ \A q \in Procs : lfc[q] = "none"
          /\ \A q \in Procs : lfc'[q] = IF q = p THEN "check" ELSE "none"
      BY Zenon, <1>0, <1>8 DEF lfcExecute, TimerFires, InTime, execute, TypeOK
    <2>2. ProcessInv'
      BY Zenon, <2>1 DEF ProcessInv, FileNames
    <2>3. CASE MayRotate
      <3>1. rotate
        BY <1>8, <2>3 DEF lfcExecute
      <3>2. FileInv' /\ StepInv'
        BY <2>1, <2>3, <3>1, RotatedInv
      <3>3. LoadInv'
        BY <1>0, <2>1, <2>3, <3>1, Rotated DEF LoadInv, rotate
      <3> QED BY <1>0, <2>2, <3>2, <3>3 DEF IInv
    <2>4. CASE ~MayRotate
      <3>1. UNCHANGED <<files, rows, merged>>
        BY <1>8, <2>4 DEF lfcExecute
      <3>2. LoadInv' /\ FileInv'
        BY <1>0, <2>1, <3>1, SameFiles DEF LoadInv, FileInv
      <3>3. StepInv'
        BY Zenon, <2>1, <2>4, <3>1 DEF StepInv, MayRotate
      <3> QED BY <1>0, <2>2, <3>2, <3>3 DEF IInv
    <2> QED BY <2>3, <2>4
  <1>9. CASE lfcExecuteWithoutProcess
    <2>1. \A q \in Procs : lfc[q] = "none"
      BY Zenon, <1>9 DEF lfcExecuteWithoutProcess, TimerFires, InTime
    <2>2. FileInv' /\ StepInv'
      BY <1>9, <2>1, RotatedInv DEF lfcExecuteWithoutProcess
    <2>3. LoadInv'
      BY <1>0, <1>9, Rotated DEF lfcExecuteWithoutProcess, LoadInv, rotate, TimerFires
    <2>4. ProcessInv'
      BY Zenon, <1>9, <2>1 DEF lfcExecuteWithoutProcess, ProcessInv
    <2> QED BY <1>0, <2>2, <2>3, <2>4 DEF IInv
  <1>10. CASE lfcExecuteWithoutFile
    <2>1. \A q \in Procs : lfc[q] = "none"
      BY Zenon, <1>10 DEF lfcExecuteWithoutFile, TimerFires, InTime
    <2>2. FileInv' /\ StepInv'
      <3>1. CASE rename("current", "copy")
        BY <1>10, <2>1, <3>1, RotatedInv DEF lfcExecuteWithoutFile
      <3>2. CASE UNCHANGED <<files, rows>>
        BY Zenon, <1>0, <1>10, <3>2, SameFiles DEF lfcExecuteWithoutFile, FileInv, StepInv
      <3> QED BY <1>10, <3>1, <3>2 DEF lfcExecuteWithoutFile
    <2>3. LoadInv'
      BY <1>10 DEF lfcExecuteWithoutFile, LoadInv
    <2>4. ProcessInv'
      BY Zenon, <1>10, <2>1 DEF lfcExecuteWithoutFile, ProcessInv
    <2> QED BY <1>0, <2>2, <2>3, <2>4 DEF IInv
  <1>11. CASE Stop \/ DieLoading
    <2>1. UNCHANGED <<files, rows, lfc, merged, pidFile>> /\ server' = "down"
      BY <1>11 DEF Stop, DieLoading
    <2>2. ProcessInv' /\ LoadInv'
      BY Zenon, <1>0, <2>1 DEF ProcessInv, LoadInv, FileNames
    <2>3. FileInv' /\ StepInv'
      BY Zenon, <1>0, <2>1, SameFiles DEF FileInv, StepInv
    <2> QED BY <1>0, <2>2, <2>3 DEF IInv
  <1> QED BY <1>1, <1>2, <1>3, <1>4, <1>5, <1>6, <1>7, <1>8, <1>9, <1>10, <1>11 DEF Server
----------------------------------------------------------------------------
\* The steps that move no file.
QuietStep(p) ==
    \/ CheckPid(p) \/ OpenPid(p) \/ WritePid(p) \/ LookForFinish(p)
    \/ ProcessPrevious(p) \/ ProcessCopy(p) \/ DeletePid(p) \/ StepFails(p) \/ Die(p)

\* The steps that do.
FileStep(p) ==
    \/ WriteOutput(p) \/ WriteOutputPartly(p) \/ RenameOutput(p)
    \/ RemovePrevious(p) \/ RemoveCopy(p) \/ RenameFinish(p)

\* A step of the only kea-lfc keeps the part of the invariant about processes.
LEMMA ProcessKeepsProcesses ==
  ASSUME IInv, NEW p \in Procs, QuietStep(p) \/ FileStep(p)
  PROVE  ProcessInv' /\ (server' = server) /\ (storage' = storage) /\ lfc[p] # "none"
         /\ (server \notin FileNames) /\ \A q \in Procs \ {p} : lfc[q] = "none" /\ lfc'[q] = "none"
  <1>1. TypeOK /\ ProcessInv
    BY DEF IInv
  <1>2. lfc[p] # "none" /\ server' = server /\ storage' = storage
    BY Zenon DEF QuietStep, FileStep, CheckPid, OpenPid, WritePid, LookForFinish, ProcessPrevious,
           ProcessCopy, DeletePid, StepFails, Die, WriteOutput, WriteOutputPartly,
           RenameOutput, RemovePrevious, RemoveCopy, RenameFinish, serverVars
  <1>3. server \notin FileNames /\ \A q \in Procs \ {p} : lfc[q] = "none"
    BY Zenon, <1>1, <1>2 DEF ProcessInv
  <1>4. \E step : lfc' = [lfc EXCEPT ![p] = step]
    BY Zenon DEF QuietStep, FileStep, CheckPid, OpenPid, WritePid, LookForFinish, ProcessPrevious,
           ProcessCopy, DeletePid, StepFails, Die, WriteOutput, WriteOutputPartly,
           RenameOutput, RemovePrevious, RemoveCopy, RenameFinish, Continue
  <1>5. \A q \in Procs \ {p} : lfc'[q] = "none"
    BY Zenon, <1>1, <1>3, <1>4 DEF TypeOK
  <1>6. lfc'[p] \notin {"none", "check", "open", "write pid"} => pidFile' = p
    <2>1. CASE QuietStep(p)
      BY Zenon, <1>1, <2>1 DEF QuietStep, CheckPid, OpenPid, WritePid, LookForFinish,
         ProcessPrevious, ProcessCopy, DeletePid, StepFails, Die, Continue, ProcessInv, TypeOK
    <2>2. CASE FileStep(p)
      BY Zenon, <1>1, <2>2 DEF FileStep, WriteOutput, WriteOutputPartly, RenameOutput,
         RemovePrevious, RemoveCopy, RenameFinish, Continue, ProcessInv, TypeOK
    <2> QED BY Zenon, <2>1, <2>2
  <1>7. ProcessInv'
    BY Zenon, <1>2, <1>3, <1>5, <1>6 DEF ProcessInv
  <1> QED BY <1>2, <1>3, <1>5, <1>7

\* A step that moves no file keeps the invariant.
LEMMA QuietStepKeeps ==
  ASSUME IInv, NEW p \in Procs, QuietStep(p)
  PROVE  IInv'
  <1>1. TypeOK'
    BY ProcessTypes DEF IInv, QuietStep, launch
  <1>2. /\ ProcessInv' /\ server' = server /\ storage' = storage
        /\ \A q \in Procs \ {p} : lfc'[q] = "none"
    BY ProcessKeepsProcesses
  <1>3. UNCHANGED <<files, rows>>
    BY Zenon DEF QuietStep, CheckPid, OpenPid, WritePid, LookForFinish, ProcessPrevious,
           ProcessCopy, DeletePid, StepFails, Die
  <1>4. LoadInv' /\ FileInv'
    BY <1>2, <1>3, SameFiles DEF IInv, LoadInv, FileInv
  <1>5. StepInv'
    <2>1. TypeOK /\ StepInv /\ Merged' = Merged
      BY <1>3, SameFiles DEF IInv
    <2>2. CASE CheckPid(p) \/ OpenPid(p) \/ WritePid(p)
      BY ZenonT(30), <1>2, <1>3, <2>1, <2>2 DEF CheckPid, OpenPid, WritePid, Continue, StepInv, TypeOK
    <2>3. CASE LookForFinish(p)
      BY Zenon, <1>2, <1>3, <2>1, <2>3 DEF LookForFinish, Continue, StepInv, TypeOK
    <2>4. CASE ProcessPrevious(p)
      BY Zenon, <1>2, <1>3, <2>1, <2>4 DEF ProcessPrevious, Continue, StepInv, TypeOK
    <2>5. CASE ProcessCopy(p)
      BY Zenon, <1>2, <1>3, <2>1, <2>5 DEF ProcessCopy, Continue, StepInv, TypeOK, Merged
    <2>6. CASE DeletePid(p) \/ StepFails(p) \/ Die(p)
      BY <1>2, <1>3, <2>1, <2>6, ZenonT(40) DEF DeletePid, StepFails, Die, Continue, StepInv, TypeOK
    <2> QED BY <2>2, <2>3, <2>4, <2>5, <2>6 DEF QuietStep
  <1> QED BY <1>1, <1>2, <1>4, <1>5 DEF IInv

\* A step that moves a file keeps the invariant, and what a restart finds.
LEMMA FileStepKeeps ==
  ASSUME IInv, NEW p \in Procs, FileStep(p)
  PROVE  IInv' /\ Recovered' = Recovered
  <1>0. TypeOK /\ TypeOK' /\ LoadInv /\ FileInv /\ StepInv
    BY ProcessTypes DEF IInv, FileStep, launch
  <1>1. /\ ProcessInv' /\ server' = server /\ storage' = storage /\ server \notin FileNames
        /\ \A q \in Procs \ {p} : lfc'[q] = "none"
    BY ProcessKeepsProcesses
  <1>2. /\ Merged \in Storage /\ load(Empty, rows["previous"]) \in Storage
        /\ Recovered \in Storage /\ Empty \in Storage
    BY <1>0, MergedType, EmptyType
  <1>3. ASSUME Recovered' = Recovered, "current" \in files => "current" \in files'
        PROVE  LoadInv'
    BY <1>0, <1>1, <1>3 DEF LoadInv, FileNames
  <1>4. ASSUME NEW S \in SUBSET Addrs, lfc[p] = "write", write(p, S)
        PROVE  /\ Recovered' = Recovered /\ Merged' = Merged /\ FileInv'
               /\ files' = files \union {"output"}
               /\ rows' = [rows EXCEPT !["output"] = rows'["output"]]
               /\ S = Addrs => rows'["output"] = Merged
    <2>1. /\ merged[p] = Merged /\ "copy" \in files /\ "finish" \notin files
          /\ files' = files \union {"output"}
      BY Zenon, <1>0, <1>4 DEF StepInv, write
    <2>2. /\ rows'["output"] = [a \in Addrs |-> IF a \in S /\ Merged[a] # Nothing
                                  THEN Merged[a] ELSE rows["output"][a]]
          /\ \A f \in FileNames \ {"output"} : rows'[f] = rows[f]
          /\ rows' = [rows EXCEPT !["output"] = rows'["output"]]
      BY Zenon, <1>0, <1>4, <2>1 DEF write, TypeOK, FileNames
    <2>3. Merged' = Merged /\ Recovered' = Recovered
      BY <2>1, <2>2 DEF Merged, Recovered, FileNames
    <2>4. FileInv'
      BY <1>0, <2>1, <2>2, <2>3 DEF FileInv, FileNames
    <2>5. ASSUME S = Addrs PROVE rows'["output"] = Merged
      <3>1. \A a \in Addrs : rows'["output"][a] = Merged[a]
        BY <1>0, <2>2, <2>5 DEF FileInv
      <3>2. rows'["output"] = [a \in Addrs |-> Merged[a]]
        BY <2>2, <3>1
      <3> QED BY <1>2, <3>2 DEF Storage
    <2> QED BY <2>1, <2>2, <2>3, <2>4, <2>5
  <1>5. CASE WriteOutput(p)
    <2>1. /\ Recovered' = Recovered /\ Merged' = Merged /\ FileInv'
          /\ files' = files \union {"output"} /\ rows'["output"] = Merged
      BY <1>4, <1>5 DEF WriteOutput
    <2>2. StepInv'
      BY Zenon, <1>0, <1>1, <1>5, <2>1 DEF WriteOutput, Continue, StepInv, TypeOK
    <2> QED BY <1>0, <1>1, <1>3, <2>1, <2>2 DEF IInv
  <1>6. CASE WriteOutputPartly(p)
    <2>1. PICK S \in SUBSET Addrs : write(p, S)
      BY Zenon, <1>6 DEF WriteOutputPartly
    <2>2. /\ Recovered' = Recovered /\ FileInv'
          /\ files' = files \union {"output"}
      BY Zenon, <1>4, <1>6, <2>1 DEF WriteOutputPartly
    <2>3. StepInv'
      BY <1>0, <1>1, <1>6, ZenonT(40) DEF WriteOutputPartly, Continue, StepInv, TypeOK
    <2> QED BY <1>0, <1>1, <1>3, <2>2, <2>3 DEF IInv
  <1>7. CASE RenameOutput(p)
    <2>1. /\ "output" \in files /\ rows["output"] = Merged /\ "copy" \in files
          /\ "finish" \notin files
      BY Zenon, <1>0, <1>7 DEF RenameOutput, StepInv
    <2>2. /\ files' = (files \ {"output"}) \union {"finish"}
          /\ rows'["finish"] = Merged /\ rows'["output"] = Empty
          /\ \A f \in FileNames \ {"output", "finish"} : rows'[f] = rows[f]
      BY Zenon, <1>0, <1>7, <2>1 DEF RenameOutput, rename, TypeOK, FileNames
    <2>3. Merged' = Merged
      BY <2>2 DEF Merged, FileNames
    <2>4. load(Empty, rows'["finish"]) = Merged
      BY <1>2, <2>2, LoadFirst
    <2>5. Recovered' = Recovered
      BY <2>1, <2>2, <2>4 DEF Recovered, Merged, FileNames
    <2>6. FileInv'
      BY <1>0, <1>2, <2>2, <2>3 DEF FileInv, FileNames, Empty
    <2>7. StepInv'
      <3>1. lfc'[p] = "remove previous" /\ "finish" \in files'
        BY Zenon, <1>0, <1>7, <2>1, <2>2 DEF RenameOutput, Continue, TypeOK
      <3> QED BY Zenon, <1>1, <3>1 DEF StepInv
    <2> QED BY <1>0, <1>1, <1>3, <2>2, <2>5, <2>6, <2>7 DEF IInv
  <1>8. CASE RemovePrevious(p)
    <2>1. "finish" \in files /\ "output" \notin files /\ rows["output"] = Empty
      BY Zenon, <1>0, <1>8 DEF RemovePrevious, StepInv, FileInv, FileNames
    <2>2. /\ files' = files \ {"previous"} /\ rows'["previous"] = Empty
          /\ \A f \in FileNames \ {"previous"} : rows'[f] = rows[f]
      BY Zenon, <1>0, <1>8 DEF RemovePrevious, remove, TypeOK, FileNames
    <2>3. Recovered' = Recovered
      BY <2>1, <2>2 DEF Recovered, FileNames
    <2>4. FileInv'
      BY <1>0, <2>1, <2>2 DEF FileInv, FileNames, Empty
    <2>5. StepInv'
      BY Zenon, <1>0, <1>1, <1>8, <2>1, <2>2 DEF RemovePrevious, Continue, StepInv, TypeOK
    <2> QED BY <1>0, <1>1, <1>3, <2>2, <2>3, <2>4, <2>5 DEF IInv
  <1>9. CASE RemoveCopy(p)
    <2>1. "finish" \in files /\ "output" \notin files /\ rows["output"] = Empty
      BY Zenon, <1>0, <1>9 DEF RemoveCopy, StepInv, FileInv, FileNames
    <2>2. /\ files' = files \ {"copy"} /\ rows'["copy"] = Empty
          /\ \A f \in FileNames \ {"copy"} : rows'[f] = rows[f]
      BY Zenon, <1>0, <1>9 DEF RemoveCopy, remove, TypeOK, FileNames
    <2>3. Recovered' = Recovered
      BY <2>1, <2>2 DEF Recovered, FileNames
    <2>4. FileInv'
      BY <1>0, <2>1, <2>2 DEF FileInv, FileNames, Empty
    <2>5. StepInv'
      BY Zenon, <1>0, <1>1, <1>9, <2>1, <2>2 DEF RemoveCopy, Continue, StepInv, TypeOK
    <2> QED BY <1>0, <1>1, <1>3, <2>2, <2>3, <2>4, <2>5 DEF IInv
  <1>10. CASE RenameFinish(p)
    <2>1. /\ "finish" \in files /\ "copy" \notin files
          /\ rows["copy"] = Empty /\ "output" \notin files /\ rows["output"] = Empty
          /\ rows["finish"] \in Storage
      BY Zenon, <1>0, <1>10 DEF RenameFinish, StepInv, FileInv, FileNames
    <2>2. /\ files' = (files \ {"finish"}) \union {"previous"}
          /\ rows'["previous"] = rows["finish"] /\ rows'["finish"] = Empty
          /\ \A f \in FileNames \ {"previous", "finish"} : rows'[f] = rows[f]
      BY Zenon, <1>0, <1>10, <2>1 DEF RenameFinish, rename, TypeOK, FileNames
    <2>3. load(load(Empty, rows'["previous"]), rows'["copy"]) = load(Empty, rows["finish"])
      BY <2>1, <2>2, LoadFirst, LoadEmpty DEF FileNames
    <2>4. Recovered' = Recovered
      BY <2>1, <2>2, <2>3 DEF Recovered, FileNames
    <2>5. FileInv'
      BY <1>0, <1>2, <2>1, <2>2 DEF FileInv, FileNames, Empty
    <2>6. StepInv'
      BY Zenon, <1>0, <1>1, <1>10 DEF RenameFinish, Continue, StepInv, TypeOK
    <2> QED BY <1>0, <1>1, <1>3, <2>2, <2>4, <2>5, <2>6 DEF IInv
  <1> QED BY <1>5, <1>6, <1>7, <1>8, <1>9, <1>10 DEF FileStep

\* What is true of the lease files at every step of either process, as long as
\* cleanups do not overlap and start quickly.
THEOREM Invariance ==
  ASSUME InTime
  PROVE  Spec => []IInv
  <1>1. Init => IInv
    BY EmptyType DEF Init, IInv, TypeOK, ProcessInv, LoadInv, FileInv, StepInv, FileNames,
       Storage, File, Empty
  <1>2. IInv /\ [Next]_vars => IInv'
    <2> SUFFICES ASSUME IInv, [Next]_vars PROVE IInv'
      OBVIOUS
    <2>1. CASE Server
      BY <2>1, ServerKeeps
    <2>2. ASSUME NEW p \in Procs, launch(p) \/ WriteOutputPartly(p) \/ StepFails(p) \/ Die(p)
          PROVE  IInv'
      <3>1. QuietStep(p) \/ FileStep(p)
        BY <2>2 DEF QuietStep, FileStep, launch
      <3>2. CASE QuietStep(p)
        BY <3>2, QuietStepKeeps
      <3>3. CASE FileStep(p)
        BY <3>3, FileStepKeeps
      <3> QED BY <3>1, <3>2, <3>3
    <2>3. CASE UNCHANGED vars
      <3>1. UNCHANGED <<files, rows>>
        BY <2>3 DEF vars
      <3>2. TypeOK' /\ ProcessInv'
        BY Zenon, <2>3 DEF vars, IInv, TypeOK, ProcessInv
      <3>3. LoadInv' /\ FileInv' /\ StepInv'
        BY Zenon, <2>3, <3>1, SameFiles DEF vars, IInv, LoadInv, FileInv, StepInv
      <3> QED BY <3>2, <3>3 DEF IInv
    <2> QED BY <2>1, <2>2, <2>3 DEF Next
  <1> QED BY <1>1, <1>2, PTL DEF Spec

\* A server that persists its leases can be stopped or killed at any moment: what it
\* would load (loadLeasesFromFiles) is what it has in memory, wherever a cleanup
\* stands, whether it failed, and whether its process died.
THEOREM LeasesAreNotLost ==
  ASSUME InTime
  PROVE  Spec => []NothingLost
  <1>1. IInv => NothingLost
    BY DEF IInv, LoadInv, NothingLost
  <1> QED BY <1>1, Invariance, PTL
----------------------------------------------------------------------------
\* A change of leases that the server makes is a change of the lease database.
LEMMA ChangeIsChange ==
  ASSUME IInv, NEW S \in SUBSET Addrs, NEW row \in Leases \union {Removed},
         server \in {"up", "unsaved"}, append(S, row),
         storage' = [a \in Addrs |-> IF a \in S
                       THEN (IF row = Removed THEN Nothing ELSE row) ELSE storage[a]],
         UNCHANGED <<files, server>>
  PROVE  DB!Next
  <1> DEFINE value == IF row = Removed THEN Nothing ELSE row
  <1>1. value \in Leases \union {Nothing}
    OBVIOUS
  <1>2. CASE server = "up"
    <2>1. Recovered' = [a \in Addrs |-> IF a \in S THEN value ELSE Recovered[a]]
      BY Zenon, <1>2, Appended DEF IInv
    <2>2. DB!Change(S, value)
      BY <1>2, <2>1 DEF DB!Change
    <2> HIDE DEF value
    <2> QED BY <1>1, <2>2 DEF DB!Next
  <1>3. CASE server = "unsaved"
    <2>1. UNCHANGED rows
      BY <1>3 DEF append
    <2>2. Recovered' = Recovered
      BY <2>1, SameFiles
    <2>3. DB!Change(S, value)
      BY <1>3, <2>2 DEF DB!Change
    <2> HIDE DEF value
    <2> QED BY <1>1, <2>3 DEF DB!Next
  <1> QED BY <1>2, <1>3

\* A step of the server is a step of the lease database, or changes nothing of it.
LEMMA ServerRefines ==
  ASSUME InTime, IInv, IInv', Server
  PROVE  [DB!Next]_DB!vars
  <1>0. TypeOK /\ FileInv /\ LoadInv'
    BY DEF IInv
  <1> USE DEF lfcVars, serverVars
  <1>1. CASE StartLoading \/ LoadFinish \/ LoadPrevious \/ LoadCopy \/ DieLoading
    <2>1. UNCHANGED <<files, rows>> /\ server \notin {"up", "unsaved"}
          /\ server' \notin {"up", "unsaved"}
      BY <1>1 DEF StartLoading, LoadFinish, LoadPrevious, LoadCopy, DieLoading, FileNames
    <2> QED BY <2>1, SameFiles DEF DB!vars
  <1>2. CASE LoadCurrent
    <2>1. Recovered' = Recovered /\ storage' = Recovered'
      BY <1>0, <1>2 DEF LoadCurrent, Recovered, LoadInv
    <2>2. DB!Start
      BY <1>2, <2>1 DEF LoadCurrent, DB!Start
    <2> QED BY <2>2 DEF DB!Next
  <1>3. ASSUME NEW a \in Addrs, NEW lease \in Leases, addLease(a, lease) \/ updateLease(a, lease)
        PROVE  DB!Next
    <2>1. lease # Removed
      BY LeasesAssumption
    <2>2. storage' = [b \in Addrs |-> IF b \in {a}
                        THEN (IF lease = Removed THEN Nothing ELSE lease) ELSE storage[b]]
      BY Zenon, <1>0, <1>3, <2>1 DEF addLease, updateLease, TypeOK
    <2> QED BY <1>3, <2>2, ChangeIsChange DEF addLease, updateLease
  <1>4. ASSUME NEW S \in SUBSET Addrs, deleteLeases(S) PROVE DB!Next
    BY <1>4, ChangeIsChange DEF deleteLeases
  <1>5. ASSUME NEW p \in Procs, lfcExecute(p) PROVE UNCHANGED DB!vars
    <2>1. Recovered' = Recovered
      BY <1>0, <1>5, Rotated, SameFiles DEF lfcExecute
    <2> QED BY <1>5, <2>1 DEF lfcExecute, DB!vars
  <1>6. CASE lfcExecuteWithoutProcess \/ lfcExecuteWithoutFile
    <2>1. Recovered' = Recovered /\ server = "up" /\ storage' = storage
          /\ server' \in {"up", "unsaved", "down"}
      BY <1>0, <1>6, Rotated, SameFiles
         DEF lfcExecuteWithoutProcess, lfcExecuteWithoutFile, TimerFires
    <2>2. CASE server' = "up"
      BY <2>1, <2>2 DEF DB!vars
    <2>3. CASE server' = "unsaved"
      BY <2>1, <2>3 DEF DB!LosePersistence, DB!Next
    <2>4. CASE server' = "down"
      BY <2>1, <2>4 DEF DB!Stop, DB!NoLeases, Empty, DB!Next
    <2> QED BY <2>1, <2>2, <2>3, <2>4
  <1>7. CASE Stop
    <2>1. Recovered' = Recovered
      BY <1>7, SameFiles DEF Stop
    <2> QED BY <1>7, <2>1 DEF Stop, DB!Stop, DB!NoLeases, Empty, DB!Next
  <1> QED BY <1>1, <1>2, <1>3, <1>4, <1>5, <1>6, <1>7 DEF Server

\* A step of kea-lfc, or its death, changes nothing of the lease database.
LEMMA ProcessRefines ==
  ASSUME IInv, NEW p \in Procs, QuietStep(p) \/ FileStep(p)
  PROVE  UNCHANGED DB!vars
  <1>1. server' = server /\ storage' = storage
    BY ProcessKeepsProcesses
  <1>2. Recovered' = Recovered
    <2>1. CASE QuietStep(p)
      <3>1. UNCHANGED <<files, rows>>
        BY Zenon, <2>1 DEF QuietStep, CheckPid, OpenPid, WritePid, LookForFinish, ProcessPrevious,
               ProcessCopy, DeletePid, StepFails, Die
      <3> QED BY <3>1, SameFiles
    <2>2. CASE FileStep(p)
      BY <2>2, FileStepKeeps
    <2> QED BY <2>1, <2>2
  <1> QED BY <1>1, <1>2 DEF DB!vars

\* The lease files with their cleanup implement the lease database: a restart finds
\* every change that the server made, and nothing else, whatever memfile_lease_mgr.cc
\* and kea-lfc were doing when either of them died.
THEOREM Refinement ==
  ASSUME InTime
  PROVE  Spec => Implements
  <1>1. Init => DB!Init
    <2> SUFFICES ASSUME Init PROVE DB!Init
      OBVIOUS
    <2>1. rows["previous"] = Empty /\ rows["copy"] = Empty /\ rows["current"] = Empty
          /\ "finish" \notin files
      BY DEF Init, FileNames
    <2>2. Recovered = Empty
      BY <2>1, EmptyType, LoadEmpty DEF Recovered
    <2> QED BY <2>2 DEF Init, DB!Init, DB!NoLeases, Empty
  <1>2. IInv /\ IInv' /\ [Next]_vars => [DB!Next]_DB!vars
    <2> SUFFICES ASSUME IInv, IInv', [Next]_vars PROVE [DB!Next]_DB!vars
      OBVIOUS
    <2>1. CASE Server
      BY <2>1, ServerRefines
    <2>2. ASSUME NEW p \in Procs, launch(p) \/ WriteOutputPartly(p) \/ StepFails(p) \/ Die(p)
          PROVE  UNCHANGED DB!vars
      <3>1. QuietStep(p) \/ FileStep(p)
        BY <2>2 DEF QuietStep, FileStep, launch
      <3> QED BY <3>1, ProcessRefines
    <2>3. CASE UNCHANGED vars
      <3>1. UNCHANGED <<files, rows, server, storage>>
        BY <2>3 DEF vars
      <3> QED BY <3>1, SameFiles DEF DB!vars
    <2> QED BY <2>1, <2>2, <2>3 DEF Next
  <1> QED BY <1>1, <1>2, Invariance, PTL DEF Spec, Implements, DB!Spec
=============================================================================
