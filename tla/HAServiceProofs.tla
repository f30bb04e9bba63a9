-------------------------- MODULE HAServiceProofs --------------------------
(* Proofs about HAService, for any number of backup servers and clients, any *)
(* configuration of the servers, and any value of the bounds.               *)
EXTENDS HAService, SequenceTheorems, TLAPS

\* What is pending at a server fits the state of its process: a process that is
\* down has nothing pending, a backup server never talks to an active one, and an
\* answer belongs to the oldest request of the HTTP client.
ProcessInv ==
    \A s \in Server :
        /\ s \notin up => /\ step[s] = "idle" /\ sync[s] = "idle"
                          /\ curr[s] = "waiting" /\ queue[s] = <<>>
        /\ s \in Active => curr[s] # "backup"
        /\ s \notin Active => /\ sync[s] = "idle"
                              /\ curr[s] \in {"waiting", "backup"}
        /\ answer[s] # "none" => queue[s] # <<>>
        /\ answer[s] = "ok" => Head(queue[s]) = "lease-update"
        /\ answer[s] # "backup"

\* Where synchronize() stands.
SyncInv ==
    \A s \in Server :
        /\ sync[s] = "idle" <=> reply[s] = "idle"
        /\ sync[s] = "idle" => s \notin failed
        /\ sync[s] # "idle" => step[s] # "enter"
        /\ (sync[s] # "idle" /\ step[s] = "run") => curr[s] = "syncing"

\* The partner has executed the dhcp-disable of the synchronization of s.
PastDisable(s) ==
    \/ sync[s] \in {"lease-get-all", "dhcp-enable"}
    \/ sync[s] # "idle" /\ reply[s] = "done"

\* A server that is blocked in synchronize() executes nothing, so the partner can
\* get past its dhcp-disable only when the server is not blocked, and has not, when
\* it gets blocked later on, had its own dhcp-disable executed.
OneSyncInv == \A s \in Active : ~(PastDisable(s) /\ PastDisable(Other(s)))

IInv == TypeOK /\ ProcessInv /\ SyncInv /\ OneSyncInv

USE DEF Active, Server

\* The partner of an active server is the other active server.
LEMMA OtherType == \A s \in Active : Other(s) \in Active /\ Other(s) # s /\ Other(Other(s)) = s
  BY ServersAssumption DEF Other, Active

\* The state a handler chooses is a state of the model.
LEMMA NextStates ==
  ASSUME TypeOK, NEW s \in Server
  PROVE  /\ normalNext(s) \in States
         /\ partnerDownNext(s) \in States
         /\ readyNext(s) \in States
         /\ syncingNext(s) \in States
         /\ waitingNext(s) \in States
  <1>1. curr[s] \in States /\ Mode \in States
    BY ConfigAssumption DEF TypeOK, States
  <1>2. normalNext(s) \in States
    BY <1>1 DEF normalNext, Unless, States
  <1>3. partnerDownNext(s) \in States
    BY <1>1 DEF partnerDownNext, Unless, States, NormalState
  <1>4. readyNext(s) \in States
    BY <1>1 DEF readyNext, Unless, States, NormalState
  <1>5. syncingNext(s) \in States
    BY <1>1 DEF syncingNext, Unless, States
  <1>6. waitingNext(s) \in States
    BY <1>1 DEF waitingNext, Unless, AfterWaiting, States
  <1> QED BY <1>2, <1>3, <1>4, <1>5, <1>6

USE DEF modelVars, commVars, serviceVars, requestVars, syncVars, worldVars

\* A transition keeps the types of the state model's variables.
LEMMA TransitionType ==
  ASSUME TypeOK, NEW s \in Server, NEW t \in States, verboseTransition(s, t)
  PROVE  /\ curr' \in [Server -> States]
         /\ step' \in [Server -> {"idle", "enter", "run"}]
         /\ paused' \subseteq Server
         /\ pauses' \in [Server -> SUBSET States]
  BY ConfigAssumption DEF TypeOK, verboseTransition

\* The entry actions keep the types of the scopes and of the service switch.
LEMMA EntryType ==
  ASSUME TypeOK, NEW s \in Server, NEW sc \in SUBSET Server, OnEntry(s, sc)
  PROVE  scopes' \in [Server -> SUBSET Server] /\ enabled' \subseteq Server
  BY DEF TypeOK, OnEntry, adjustNetworkState

\* The scopes the query filter computes are names of servers.
LEMMA ScopesType ==
  ASSUME NEW s \in Server
  PROVE  serveDefaultScopes(s) \in SUBSET Server /\ serveFailoverScopes \in SUBSET Server
  BY DEF serveDefaultScopes, serveFailoverScopes

\* Setting up the heartbeat timer keeps its type.
LEMMA TimerType ==
  ASSUME TypeOK, NEW s \in Server
  PROVE  /\ startHeartbeat(s, hbTimer) \in [Server -> {"none", "armed", "fired"}]
         /\ scheduleHeartbeat(s, hbTimer) \in [Server -> {"none", "armed", "fired"}]
  BY DEF TypeOK, startHeartbeat, scheduleHeartbeat

\* Each state handler keeps the types.
LEMMA HandlerTyping ==
  ASSUME TypeOK, NEW s \in Server, RunHandler(s)
  PROVE  TypeOK'
  <1> USE NextStates, TransitionType, EntryType, ScopesType, TimerType DEF HandlerFrame
  <1>0. curr[s] \in States /\ {} \in SUBSET Server
    BY DEF TypeOK
  <1>1. CASE backupStateHandler(s)
    <2>1. OnEntry(s, {}) /\ verboseTransition(s, curr[s])
      BY <1>1 DEF backupStateHandler
    <2> QED BY Zenon, <1>0, <1>1, <2>1 DEF backupStateHandler, TypeOK
  <1>2. CASE normalStateHandler(s)
    <2>1. OnEntry(s, serveDefaultScopes(s)) /\ verboseTransition(s, normalNext(s))
      BY <1>2 DEF normalStateHandler
    <2> QED BY Zenon, <1>0, <1>2, <2>1 DEF normalStateHandler, TypeOK
  <1>3. CASE partnerDownStateHandler(s)
    <2>1. \E sc \in SUBSET Server : OnEntry(s, sc)
      BY <1>3 DEF partnerDownStateHandler
    <2>2. verboseTransition(s, partnerDownNext(s))
      BY <1>3 DEF partnerDownStateHandler
    <2> QED BY Zenon, <1>0, <1>3, <2>1, <2>2 DEF partnerDownStateHandler, TypeOK
  <1>4. CASE readyStateHandler(s)
    <2>1. OnEntry(s, {}) /\ verboseTransition(s, readyNext(s))
      BY <1>4 DEF readyStateHandler
    <2> QED BY Zenon, <1>0, <1>4, <2>1 DEF readyStateHandler, TypeOK
  <1>5. CASE syncingStateHandler(s)
    <2>1. OnEntry(s, {})
      BY <1>5 DEF syncingStateHandler
    <2>2. CASE SyncStarts(s)
      <3>1. /\ hbTimer' = [hbTimer EXCEPT ![s] = "none"]
            /\ sync' = [sync EXCEPT ![s] = "dhcp-disable"]
            /\ reply' = [reply EXCEPT ![s] = "sent"]
            /\ step' = [step EXCEPT ![s] = "run"]
            /\ fetched' = fetched \ {s}
            /\ UNCHANGED <<curr, paused, pauses, failed, delayed>>
            /\ UNCHANGED <<commVars, requestVars, worldVars>>
        BY <1>5, <2>2 DEF syncingStateHandler
      <3>2. scopes' \in [Server -> SUBSET Server] /\ enabled' \subseteq Server
        BY Zenon, <1>0, <2>1
      <3> QED BY ONLY <3>1, <3>2, TypeOK DEF TypeOK, SyncPhases
    <2>3. CASE ~SyncStarts(s)
      <3>1. verboseTransition(s, syncingNext(s))
        BY <1>5, <2>3 DEF syncingStateHandler
      <3> QED BY Zenon, <1>0, <1>5, <2>1, <2>3, <3>1 DEF syncingStateHandler, TypeOK
    <2> QED BY <2>2, <2>3
  <1>6. CASE terminatedStateHandler(s)
    <2>1. OnEntry(s, serveDefaultScopes(s)) /\ verboseTransition(s, curr[s])
      BY <1>6 DEF terminatedStateHandler
    <2> QED BY Zenon, <1>0, <1>6, <2>1 DEF terminatedStateHandler, TypeOK
  <1>7. CASE waitingStateHandler(s)
    <2>1. OnEntry(s, {}) /\ verboseTransition(s, waitingNext(s))
      BY <1>7 DEF waitingStateHandler
    <2> QED BY Zenon, <1>0, <1>7, <2>1 DEF waitingStateHandler, TypeOK
  <1> QED BY <1>1, <1>2, <1>3, <1>4, <1>5, <1>6, <1>7 DEF RunHandler

\* A command left behind by a client that gave up keeps the type of the strays.
LEMMA StrayType ==
  ASSUME TypeOK, NEW s \in Server
  PROVE  LeavesStray(s) \in [Server -> SUBSET Strays]
  BY OtherType DEF TypeOK, LeavesStray

\* The callbacks of synchronize keep the types, whatever the outcome of a request.
LEMMA SyncContinuesType ==
  ASSUME TypeOK, NEW s \in Server, NEW ok \in BOOLEAN, SyncContinues(s, ok)
  PROVE  /\ sync' \in [Server -> SyncPhases]
         /\ reply' \in [Server -> {"idle", "sent", "done"}]
         /\ failed' \subseteq Server
         /\ curr' \in [Server -> States]
         /\ step' \in [Server -> {"idle", "enter", "run"}]
         /\ paused' \subseteq Server
         /\ pauses' \in [Server -> SUBSET States]
         /\ hbTimer' \in [Server -> {"none", "armed", "fired"}]
  <1>1. ASSUME NEW req \in SyncPhases, NEW err, SyncSends(s, req, err)
        PROVE  /\ sync' \in [Server -> SyncPhases]
               /\ reply' \in [Server -> {"idle", "sent", "done"}]
               /\ failed' \subseteq Server
               /\ UNCHANGED <<curr, step, paused, pauses, hbTimer>>
    BY <1>1 DEF SyncSends, TypeOK
  <1>2. ASSUME NEW err, SyncReturns(s, err)
        PROVE  /\ sync' \in [Server -> SyncPhases]
               /\ reply' \in [Server -> {"idle", "sent", "done"}]
               /\ failed' \subseteq Server
               /\ curr' \in [Server -> States]
               /\ step' \in [Server -> {"idle", "enter", "run"}]
               /\ paused' \subseteq Server
               /\ pauses' \in [Server -> SUBSET States]
               /\ hbTimer' \in [Server -> {"none", "armed", "fired"}]
    <2>1. \/ UNCHANGED <<curr, step, paused, pauses, hbTimer>>
          \/ /\ \E t \in States : verboseTransition(s, t)
             /\ hbTimer' = scheduleHeartbeat(s, hbTimer)
      BY Zenon, <1>2 DEF SyncReturns, TypeOK, States
    <2> QED BY Zenon, <1>2, <2>1, TransitionType, TimerType DEF SyncReturns, TypeOK, SyncPhases
  <1> QED
    BY Zenon, <1>1, <1>2 DEF SyncContinues, TypeOK, SyncPhases

\* dhcp-disable and dhcp-enable keep the types of the service switch and its timer.
LEMMA CommandType ==
  ASSUME TypeOK, NEW o \in Server, NEW cmd, dhcpCommand(o, cmd)
  PROVE  enabled' \subseteq Server /\ delayed' \subseteq Server
  <1>1. enabled' \in {enabled \ {o}, adjustNetworkState(o, enabled), enabled}
    BY DEF dhcpCommand
  <1>2. delayed' \in {delayed \cup {o}, delayed}
    BY DEF dhcpCommand
  <1> QED BY <1>1, <1>2 DEF TypeOK, adjustNetworkState

\* A completed request leaves a queue of requests, without an answer.
LEMMA RequestType ==
  ASSUME TypeOK, NEW s \in Server, queue[s] # <<>>, RequestDone(s)
  PROVE  /\ queue' \in [Server -> Seq(Requests)]
         /\ answer' \in [Server -> States \cup {"none", "ok"}]
  BY DEF TypeOK, RequestDone

\* A new request leaves a queue of requests.
LEMMA SendType ==
  ASSUME TypeOK, NEW s \in Server, NEW req \in Requests, asyncSendRequest(s, req)
  PROVE  queue' \in [Server -> Seq(Requests)]
  BY DEF TypeOK, asyncSendRequest

\* Every step keeps the types.
LEMMA NextTyping ==
  ASSUME TypeOK, ProcessInv, [Next]_vars
  PROVE  TypeOK'
  <1>1. ASSUME NEW s \in Server, RunHandler(s) PROVE TypeOK'
    BY <1>1, HandlerTyping
  <1>2. ASSUME NEW s \in Server, processContinue(s) PROVE TypeOK'
    BY <1>2 DEF processContinue, TypeOK
  <1>3. ASSUME NEW s \in Server, processScopes(s) PROVE TypeOK'
    BY <1>3 DEF processScopes, adjustNetworkState, TypeOK
  <1>4. ASSUME NEW s \in Server, processSynchronize(s) PROVE TypeOK'
    BY <1>4 DEF processSynchronize, TypeOK, SyncPhases
  <1>5. ASSUME NEW s \in Server, commandDhcp(s) PROVE TypeOK'
    <2>1. enabled' \subseteq Server /\ delayed' \subseteq Server
      BY Zenon, <1>5, CommandType DEF commandDhcp
    <2> QED BY <1>5, <2>1 DEF commandDhcp, TypeOK
  <1>6. ASSUME NEW s \in Server, Start(s) PROVE TypeOK'
    BY <1>6, ConfigAssumption DEF Start, TypeOK
  <1>7. ASSUME NEW s \in Server, Crash(s) PROVE TypeOK'
    <2>1. LeavesStray(s) \in [Server -> SUBSET Strays]
      BY StrayType
    <2>2. crashes' \in 0..MaxCrashes
      BY <1>7, ConfigAssumption DEF Crash, TypeOK
    <2> QED BY <1>7, <2>1, <2>2, ScopesType, ConfigAssumption
            DEF Crash, TypeOK, SyncPhases, PartnerStates, States
  <1>8. ASSUME NEW s \in Server, enableAll(s) PROVE TypeOK'
    BY <1>8 DEF enableAll, TypeOK
  <1>9. ASSUME NEW s \in Server, ExecuteStray(s) PROVE TypeOK'
    <2>1. enabled' \subseteq Server /\ delayed' \subseteq Server
      BY Zenon, <1>9, CommandType DEF ExecuteStray
    <2> QED BY <1>9, <2>1 DEF ExecuteStray, TypeOK
  <1>10. ASSUME NEW s \in Active, SyncSucceeds(s) PROVE TypeOK'
    <2>1. SyncContinues(s, TRUE)
      BY Zenon, <1>10 DEF SyncSucceeds
    <2>2. fetched' \subseteq Server /\ UNCHANGED <<commVars, serviceVars, requestVars, worldVars>>
      BY <1>10 DEF SyncSucceeds, TypeOK
    <2> QED BY Zenon, <2>1, <2>2, SyncContinuesType DEF TypeOK
  <1>11. ASSUME NEW s \in Active, SyncFails(s) PROVE TypeOK'
    <2>1. SyncContinues(s, FALSE)
      BY Zenon, <1>11 DEF SyncFails
    <2>2. partner' \in [Server -> PartnerStates] /\ stray' \in [Server -> SUBSET Strays]
      BY Zenon, <1>11, StrayType DEF SyncFails, TypeOK, PartnerStates
    <2> QED BY Zenon, <1>11, <2>1, <2>2, SyncContinuesType DEF SyncFails, TypeOK
  <1>12. ASSUME NEW s \in Active, HeartbeatSucceeds(s) PROVE TypeOK'
    <2>1. answer[s] \in PartnerStates
      BY <1>12 DEF HeartbeatSucceeds, ProcessInv, TypeOK, PartnerStates
    <2>2. /\ queue' \in [Server -> Seq(Requests)]
          /\ answer' \in [Server -> States \cup {"none", "ok"}]
          /\ startHeartbeat(s, hbTimer) \in [Server -> {"none", "armed", "fired"}]
      BY Zenon, <1>12, RequestType, TimerType DEF HeartbeatSucceeds, HeartbeatCallback
    <2> QED BY Zenon, <1>12, <2>1, <2>2
            DEF HeartbeatSucceeds, HeartbeatCallback, poke, runModel, TypeOK
  <1>13. ASSUME NEW s \in Active, HeartbeatFails(s) PROVE TypeOK'
    <2>2. /\ queue' \in [Server -> Seq(Requests)]
          /\ answer' \in [Server -> States \cup {"none", "ok"}]
          /\ startHeartbeat(s, hbTimer) \in [Server -> {"none", "armed", "fired"}]
      BY Zenon, <1>13, RequestType, TimerType DEF HeartbeatFails, HeartbeatCallback
    <2> QED BY Zenon, <1>13, <2>2
            DEF HeartbeatFails, HeartbeatCallback, runModel, TypeOK, PartnerStates
  <1>14. ASSUME NEW s \in Active, LeaseUpdateSucceeds(s) PROVE TypeOK'
    <2>2. /\ queue' \in [Server -> Seq(Requests)]
          /\ answer' \in [Server -> States \cup {"none", "ok"}]
      BY Zenon, <1>14, RequestType DEF LeaseUpdateSucceeds, LeaseUpdateCallback
    <2> QED BY Zenon, <1>14, <2>2
            DEF LeaseUpdateSucceeds, LeaseUpdateCallback, poke, runModel, TypeOK
  <1>15. ASSUME NEW s \in Active, LeaseUpdateFails(s) PROVE TypeOK'
    <2>2. /\ queue' \in [Server -> Seq(Requests)]
          /\ answer' \in [Server -> States \cup {"none", "ok"}]
      BY Zenon, <1>15, RequestType DEF LeaseUpdateFails, LeaseUpdateCallback
    <2> QED BY Zenon, <1>15, <2>2
            DEF LeaseUpdateFails, LeaseUpdateCallback, runModel, TypeOK, PartnerStates
  <1>16. ASSUME NEW s \in Active, BackupUpdatesComplete(s) PROVE TypeOK'
    BY Zenon, <1>16 DEF BackupUpdatesComplete, runModel, TypeOK
  <1>17. ASSUME NEW s \in Active, ExecuteSync(s) PROVE TypeOK'
    <2>1. enabled' \subseteq Server /\ delayed' \subseteq Server
      BY <1>17, CommandType, OtherType DEF ExecuteSync
    <2> QED BY Zenon, <1>17, <2>1 DEF ExecuteSync, TypeOK
  <1>18. ASSUME NEW s \in Active, ExecuteRequest(s) PROVE TypeOK'
    BY <1>18, OtherType DEF ExecuteRequest, TypeOK
  <1>19. ASSUME NEW s \in Active, asyncSendHeartbeat(s) PROVE TypeOK'
    <2>1. queue' \in [Server -> Seq(Requests)]
      BY Zenon, <1>19, SendType DEF asyncSendHeartbeat, Requests
    <2> QED BY Zenon, <1>19, <2>1 DEF asyncSendHeartbeat, TypeOK
  <1>20. ASSUME NEW s \in Active, ResponseDelayElapses(s) PROVE TypeOK'
    BY Zenon, <1>20 DEF ResponseDelayElapses, TypeOK
  <1>21. ASSUME NEW s \in Active, NEW c \in Clients, ReceiveQuery(s, c) PROVE TypeOK'
    <2>1. queue' \in [Server -> Seq(Requests)]
      BY Zenon, <1>21, SendType DEF ReceiveQuery, inScope, analyzeMessage, Requests, TypeOK
    <2> QED BY <1>21, <2>1 DEF ReceiveQuery, inScope, analyzeMessage, TypeOK
  <1>22. CASE Stabilize
    BY <1>22 DEF Stabilize, TypeOK
  <1>23. CASE UNCHANGED vars
    BY Zenon, <1>23 DEF vars, TypeOK
  <1> QED
    BY <1>1, <1>2, <1>3, <1>4, <1>5, <1>6, <1>7, <1>8, <1>9, <1>10, <1>11, <1>12,
       <1>13, <1>14, <1>15, <1>16, <1>17, <1>18, <1>19, <1>20, <1>21, <1>22, <1>23
    DEF Next, Command, Completion

\* A handler never leads an active server to the backup state, and a backup server
\* that waits only there.
LEMMA RoleStates ==
  ASSUME TypeOK, ProcessInv, NEW s \in Server
  PROVE  /\ s \in Active => /\ normalNext(s) # "backup"
                            /\ partnerDownNext(s) # "backup"
                            /\ readyNext(s) # "backup"
                            /\ syncingNext(s) # "backup"
                            /\ waitingNext(s) # "backup"
         /\ s \notin Active /\ curr[s] = "waiting" => waitingNext(s) \in {"waiting", "backup"}
  <1>1. s \in Active => curr[s] # "backup" /\ Mode # "backup" /\ s \notin Backups
    BY ConfigAssumption, ServersAssumption DEF ProcessInv
  <1>2. s \in Active => normalNext(s) # "backup"
    BY <1>1 DEF normalNext, Unless
  <1>3. s \in Active => partnerDownNext(s) # "backup"
    BY <1>1 DEF partnerDownNext, Unless, NormalState
  <1>4. s \in Active => readyNext(s) # "backup"
    BY <1>1 DEF readyNext, Unless, NormalState
  <1>5. s \in Active => syncingNext(s) # "backup"
    BY <1>1 DEF syncingNext, Unless
  <1>6. s \in Active => waitingNext(s) # "backup"
    BY <1>1 DEF waitingNext, Unless, AfterWaiting
  <1>7. s \notin Active /\ curr[s] = "waiting" => waitingNext(s) \in {"waiting", "backup"}
    BY DEF waitingNext
  <1> QED BY <1>2, <1>3, <1>4, <1>5, <1>6, <1>7

\* A handler changes the state of its own server only, stays in the current state
\* or enters another one, and starts a synchronization in the syncing state.
LEMMA HandlerEffect ==
  ASSUME TypeOK, ProcessInv, NEW s \in Server, RunHandler(s)
  PROVE  /\ Running(s)
         /\ UNCHANGED <<up, queue, answer, failed, delayed>>
         /\ \E t \in States :
              /\ curr' = [curr EXCEPT ![s] = t]
              /\ s \in Active => t # "backup"
              /\ s \notin Active => t \in {"waiting", "backup"}
              /\ \/ /\ step' = [step EXCEPT ![s] = IF t = curr[s] THEN "idle" ELSE "enter"]
                    /\ UNCHANGED <<sync, reply>>
                 \/ /\ step' = [step EXCEPT ![s] = "run"]
                    /\ t = curr[s] /\ curr[s] = "syncing"
                    /\ sync' = [sync EXCEPT ![s] = "dhcp-disable"]
                    /\ reply' = [reply EXCEPT ![s] = "sent"]
  <1> DEFINE Goal(t) ==
              /\ curr' = [curr EXCEPT ![s] = t]
              /\ s \in Active => t # "backup"
              /\ s \notin Active => t \in {"waiting", "backup"}
              /\ \/ /\ step' = [step EXCEPT ![s] = IF t = curr[s] THEN "idle" ELSE "enter"]
                    /\ UNCHANGED <<sync, reply>>
                 \/ /\ step' = [step EXCEPT ![s] = "run"]
                    /\ t = curr[s] /\ curr[s] = "syncing"
                    /\ sync' = [sync EXCEPT ![s] = "dhcp-disable"]
                    /\ reply' = [reply EXCEPT ![s] = "sent"]
  <1>1. Running(s) /\ UNCHANGED <<up, queue, answer, failed, delayed>>
    BY Zenon DEF RunHandler, backupStateHandler, normalStateHandler, partnerDownStateHandler,
       readyStateHandler, syncingStateHandler, terminatedStateHandler,
       waitingStateHandler, HandlerFrame
  <1>2. ASSUME NEW t \in States, verboseTransition(s, t), UNCHANGED <<sync, reply>>,
               s \in Active => t # "backup", s \notin Active => t \in {"waiting", "backup"}
        PROVE  Goal(t)
    BY <1>2 DEF verboseTransition
  <1>3. CASE backupStateHandler(s)
    <2>1. verboseTransition(s, curr[s]) /\ UNCHANGED <<sync, reply>> /\ curr[s] \in States
      BY <1>3 DEF backupStateHandler, TypeOK
    <2> QED BY Zenon, <2>1, <1>2, <1>1 DEF ProcessInv
  <1>4. CASE normalStateHandler(s)
    <2>1. verboseTransition(s, normalNext(s)) /\ UNCHANGED <<sync, reply>> /\ s \in Active
      BY Zenon, <1>4 DEF normalStateHandler, ProcessInv
    <2> QED BY <2>1, <1>2, <1>1, NextStates, RoleStates
  <1>5. CASE partnerDownStateHandler(s)
    <2>1. verboseTransition(s, partnerDownNext(s)) /\ UNCHANGED <<sync, reply>> /\ s \in Active
      BY Zenon, <1>5 DEF partnerDownStateHandler, ProcessInv
    <2> QED BY <2>1, <1>2, <1>1, NextStates, RoleStates
  <1>6. CASE readyStateHandler(s)
    <2>1. verboseTransition(s, readyNext(s)) /\ UNCHANGED <<sync, reply>> /\ s \in Active
      BY <1>6 DEF readyStateHandler, ProcessInv
    <2> QED BY <2>1, <1>2, <1>1, NextStates, RoleStates
  <1>7. CASE syncingStateHandler(s)
    <2>1. s \in Active /\ curr[s] = "syncing" /\ curr \in [Server -> States]
      BY Zenon, <1>7 DEF syncingStateHandler, ProcessInv, TypeOK
    <2>2. CASE SyncStarts(s)
      <3>1. Goal(curr[s])
        BY <1>7, <2>1, <2>2 DEF syncingStateHandler
      <3> QED BY Zenon, <3>1, <2>1, <1>1
    <2>3. CASE ~SyncStarts(s)
      <3>1. verboseTransition(s, syncingNext(s)) /\ UNCHANGED <<sync, reply>>
        BY <1>7, <2>3 DEF syncingStateHandler
      <3> QED BY Zenon, <2>1, <3>1, <1>2, <1>1, NextStates, RoleStates
    <2> QED BY Zenon, <2>2, <2>3
  <1>8. CASE terminatedStateHandler(s)
    <2>1. verboseTransition(s, curr[s]) /\ UNCHANGED <<sync, reply>> /\ curr[s] \in States
      BY <1>8 DEF terminatedStateHandler, TypeOK
    <2> QED BY <2>1, <1>2, <1>1 DEF ProcessInv
  <1>9. CASE waitingStateHandler(s)
    <2>1. verboseTransition(s, waitingNext(s)) /\ UNCHANGED <<sync, reply>> /\ curr[s] = "waiting"
      BY <1>9 DEF waitingStateHandler
    <2> QED BY <2>1, <1>2, <1>1, NextStates, RoleStates
  <1> QED BY Zenon, <1>3, <1>4, <1>5, <1>6, <1>7, <1>8, <1>9 DEF RunHandler

\* A new request leaves the oldest one at the head of the queue.
LEMMA SequenceFacts ==
  ASSUME NEW S, NEW q \in Seq(S), NEW e \in S
  PROVE  /\ Append(q, e) # <<>>
         /\ q # <<>> => Head(Append(q, e)) = Head(q)
  <1>1. /\ Append(q, e) # <<>> /\ Append(q, e) \in Seq(S)
        /\ \A i \in 1..Len(q) : Append(q, e)[i] = q[i]
    BY AppendProperties
  <1>2. q # <<>> => Head(q) = q[1] /\ 1 \in 1..Len(q)
    BY EmptySeq, HeadTailProperties
  <1>3. Head(Append(q, e)) = Append(q, e)[1]
    BY <1>1, HeadTailProperties
  <1> QED BY <1>1, <1>2, <1>3

\* Every step keeps what is pending at a server in line with its process.
LEMMA NextProcess ==
  ASSUME TypeOK, ProcessInv, SyncInv, [Next]_vars
  PROVE  ProcessInv'
  <1>1. ASSUME NEW s \in Server, RunHandler(s) PROVE ProcessInv'
    <2>1. PICK t \in States :
              /\ curr' = [curr EXCEPT ![s] = t]
              /\ s \in Active => t # "backup"
              /\ s \notin Active => t \in {"waiting", "backup"}
              /\ \/ /\ step' = [step EXCEPT ![s] = IF t = curr[s] THEN "idle" ELSE "enter"]
                    /\ UNCHANGED <<sync, reply>>
                 \/ /\ step' = [step EXCEPT ![s] = "run"]
                    /\ t = curr[s] /\ curr[s] = "syncing"
                    /\ sync' = [sync EXCEPT ![s] = "dhcp-disable"]
                    /\ reply' = [reply EXCEPT ![s] = "sent"]
      BY <1>1, HandlerEffect
    <2>2. s \in up /\ UNCHANGED <<up, queue, answer>>
      BY <1>1, HandlerEffect DEF Running
    <2> QED BY <2>1, <2>2 DEF ProcessInv, TypeOK
  <1>2. CASE UNCHANGED <<up, step, sync, curr, queue, answer>>
    BY <1>2 DEF ProcessInv
  <1>3. ASSUME NEW s \in Server, processSynchronize(s) PROVE ProcessInv'
    BY <1>3 DEF processSynchronize, Responsive, ProcessInv, TypeOK
  <1>4. ASSUME NEW s \in Server, Start(s) PROVE ProcessInv'
    BY <1>4 DEF Start, ProcessInv, TypeOK
  <1>5. ASSUME NEW s \in Server, Crash(s) PROVE ProcessInv'
    BY <1>5 DEF Crash, ProcessInv, TypeOK
  <1>6. ASSUME NEW s \in Active, NEW ok \in BOOLEAN, s \in up, SyncContinues(s, ok),
               UNCHANGED <<up, queue, answer>>
        PROVE  ProcessInv'
    <2>1. \/ UNCHANGED <<curr, step>>
          \/ \E t \in {curr[s], "ready"} :
                /\ curr' = [curr EXCEPT ![s] = t]
                /\ \E x : step' = [step EXCEPT ![s] = x]
      BY <1>6 DEF SyncContinues, SyncSends, SyncReturns, verboseTransition
    <2>2. \E x : sync' = [sync EXCEPT ![s] = x]
      BY <1>6 DEF SyncContinues, SyncSends, SyncReturns
    <2> QED BY <1>6, <2>1, <2>2 DEF ProcessInv, TypeOK
  <1>7. ASSUME NEW s \in Active, s \in up, RequestDone(s),
               UNCHANGED <<up, sync, curr>>, runModel(s) \/ UNCHANGED step
        PROVE  ProcessInv'
    BY <1>7 DEF ProcessInv, RequestDone, runModel, TypeOK
  <1>8. ASSUME NEW s \in Active, BackupUpdatesComplete(s) PROVE ProcessInv'
    BY <1>8 DEF BackupUpdatesComplete, runModel, Responsive, ProcessInv, TypeOK
  <1>9. ASSUME NEW s \in Active, ExecuteRequest(s) PROVE ProcessInv'
    <2>1. curr[Other(s)] \in States \ {"backup"}
      BY OtherType DEF ProcessInv, TypeOK
    <2>2. queue[s] \in Seq(Requests) /\ queue[s] # <<>>
      BY <1>9 DEF ExecuteRequest, TypeOK
    <2>3. Head(queue[s]) \in Requests
      BY <2>2
    <2> QED BY <1>9, <2>1, <2>2, <2>3 DEF ExecuteRequest, ProcessInv, TypeOK, States, Requests
  <1>10. ASSUME NEW s \in Active, NEW req \in Requests, s \in up, asyncSendRequest(s, req),
                UNCHANGED <<up, step, sync, curr, answer>>
         PROVE  ProcessInv'
    <2>1. /\ Append(queue[s], req) # <<>>
          /\ queue[s] # <<>> => Head(Append(queue[s], req)) = Head(queue[s])
      BY SequenceFacts DEF TypeOK
    <2> QED BY <1>10, <2>1 DEF ProcessInv, asyncSendRequest, TypeOK
  <1> QED
    <2>1. ASSUME NEW s \in Server, Command(s) \/ enableAll(s) \/ ExecuteStray(s)
          PROVE  ProcessInv'
      BY <1>2, <1>3, <2>1 DEF Command, processContinue, processScopes, commandDhcp,
         enableAll, ExecuteStray
    <2>2. ASSUME NEW s \in Active, SyncSucceeds(s) \/ SyncFails(s) PROVE ProcessInv'
      BY <1>6, <2>2 DEF SyncSucceeds, SyncFails
    <2>3. ASSUME NEW s \in Active, HeartbeatSucceeds(s) \/ HeartbeatFails(s) PROVE ProcessInv'
      BY <1>7, <2>3 DEF HeartbeatSucceeds, HeartbeatFails, HeartbeatCallback, Responsive
    <2>4. ASSUME NEW s \in Active, LeaseUpdateSucceeds(s) \/ LeaseUpdateFails(s) PROVE ProcessInv'
      BY <1>7, <2>4 DEF LeaseUpdateSucceeds, LeaseUpdateFails, LeaseUpdateCallback, Responsive
    <2>5. ASSUME NEW s \in Active, Completion(s) PROVE ProcessInv'
      BY <1>8, <2>2, <2>3, <2>4, <2>5 DEF Completion
    <2>6. ASSUME NEW s \in Active, asyncSendHeartbeat(s) PROVE ProcessInv'
      BY <1>10, <2>6 DEF asyncSendHeartbeat, Responsive, Requests
    <2>7. ASSUME NEW s \in Active, NEW c \in Clients, ReceiveQuery(s, c) PROVE ProcessInv'
      BY <1>2, <1>10, <2>7 DEF ReceiveQuery, inScope, analyzeMessage, Responsive, Requests
    <2>8. ASSUME NEW s \in Active, ExecuteSync(s) \/ ResponseDelayElapses(s) PROVE ProcessInv'
      BY <1>2, <2>8 DEF ExecuteSync, ResponseDelayElapses
    <2>9. CASE Stabilize \/ UNCHANGED vars
      BY <1>2, <2>9 DEF Stabilize, vars
    <2> QED BY <1>1, <1>4, <1>5, <1>9, <2>1, <2>5, <2>6, <2>7, <2>8, <2>9 DEF Next

\* Every step keeps the phase of a synchronization tied to its reply, and to the
\* step of runModel.
LEMMA NextSync ==
  ASSUME TypeOK, ProcessInv, SyncInv, [Next]_vars
  PROVE  SyncInv'
  <1>1. ASSUME NEW s \in Server, RunHandler(s) PROVE SyncInv'
    <2>1. PICK t \in States :
              /\ curr' = [curr EXCEPT ![s] = t]
              /\ \/ /\ step' = [step EXCEPT ![s] = IF t = curr[s] THEN "idle" ELSE "enter"]
                    /\ UNCHANGED <<sync, reply>>
                 \/ /\ step' = [step EXCEPT ![s] = "run"]
                    /\ t = curr[s] /\ curr[s] = "syncing"
                    /\ sync' = [sync EXCEPT ![s] = "dhcp-disable"]
                    /\ reply' = [reply EXCEPT ![s] = "sent"]
      BY <1>1, HandlerEffect
    <2>2. sync[s] = "idle" /\ UNCHANGED failed
      BY <1>1, HandlerEffect DEF Running
    <2> QED BY <2>1, <2>2 DEF SyncInv, TypeOK
  <1>2. CASE UNCHANGED <<step, curr, sync, reply, failed>>
    BY <1>2 DEF SyncInv
  <1>3. ASSUME NEW s \in Server, processSynchronize(s) PROVE SyncInv'
    BY <1>3 DEF processSynchronize, Responsive, SyncInv, TypeOK
  <1>4. ASSUME NEW s \in Server, Start(s) PROVE SyncInv'
    BY <1>4 DEF Start, ProcessInv, SyncInv, TypeOK
  <1>5. ASSUME NEW s \in Server, Crash(s) PROVE SyncInv'
    BY <1>5 DEF Crash, SyncInv, TypeOK
  <1>6. ASSUME NEW s \in Active, NEW ok \in BOOLEAN, SyncContinues(s, ok)
        PROVE  SyncInv'
    <2>1. ASSUME NEW req \in SyncPhases \ {"idle"}, NEW err, SyncSends(s, req, err), sync[s] # "idle"
          PROVE  SyncInv'
      BY <2>1 DEF SyncSends, SyncInv, TypeOK
    <2>2. ASSUME NEW err, SyncReturns(s, err)
          PROVE  SyncInv'
      BY <2>2 DEF SyncReturns, verboseTransition, SyncInv, TypeOK
    <2> QED BY <1>6, <2>1, <2>2 DEF SyncContinues, SyncPhases
  <1>7. ASSUME NEW s \in Active, sync[s] = "idle", runModel(s), UNCHANGED <<curr, sync, reply, failed>>
        PROVE  SyncInv'
    BY <1>7 DEF SyncInv, runModel, TypeOK
  <1>8. ASSUME NEW s \in Active, ExecuteSync(s) PROVE SyncInv'
    BY <1>8 DEF ExecuteSync, SyncInv, TypeOK
  <1> QED
    <2>1. ASSUME NEW s \in Server, Command(s) \/ enableAll(s) \/ ExecuteStray(s)
          PROVE  SyncInv'
      BY <1>2, <1>3, <2>1 DEF Command, processContinue, processScopes, commandDhcp,
         enableAll, ExecuteStray
    <2>2. ASSUME NEW s \in Active, SyncSucceeds(s) \/ SyncFails(s) PROVE SyncInv'
      BY <1>6, <2>2 DEF SyncSucceeds, SyncFails
    <2>3. ASSUME NEW s \in Active, HeartbeatSucceeds(s) \/ HeartbeatFails(s) PROVE SyncInv'
      BY <1>7, <2>3 DEF HeartbeatSucceeds, HeartbeatFails, HeartbeatCallback, Responsive
    <2>4. ASSUME NEW s \in Active, LeaseUpdateSucceeds(s) \/ LeaseUpdateFails(s) PROVE SyncInv'
      BY <1>2, <1>7, <2>4 DEF LeaseUpdateSucceeds, LeaseUpdateFails, LeaseUpdateCallback, Responsive
    <2>5. ASSUME NEW s \in Active, BackupUpdatesComplete(s) PROVE SyncInv'
      BY <1>7, <2>5 DEF BackupUpdatesComplete, Responsive
    <2>6. ASSUME NEW s \in Active, asyncSendHeartbeat(s) \/ ExecuteRequest(s) \/ ResponseDelayElapses(s)
          PROVE  SyncInv'
      BY <1>2, <2>6 DEF asyncSendHeartbeat, ExecuteRequest, ResponseDelayElapses
    <2>7. ASSUME NEW s \in Active, NEW c \in Clients, ReceiveQuery(s, c) PROVE SyncInv'
      BY <1>2, <2>7 DEF ReceiveQuery, inScope, analyzeMessage
    <2>8. CASE Stabilize \/ UNCHANGED vars
      BY <1>2, <2>8 DEF Stabilize, vars
    <2> QED BY <1>1, <1>4, <1>5, <1>8, <2>1, <2>2, <2>3, <2>4, <2>5, <2>6, <2>7, <2>8
            DEF Next, Completion

\* Every step keeps one synchronization at a time: the dhcp-disable of the second one
\* is executed only by a server that is not blocked in its own.
LEMMA NextOneSync ==
  ASSUME IInv, [Next]_vars
  PROVE  OneSyncInv'
  <1> USE OtherType DEF IInv
  <1>1. ASSUME NEW s \in Server, RunHandler(s) PROVE OneSyncInv'
    <2>1. \/ UNCHANGED <<sync, reply>>
          \/ /\ sync' = [sync EXCEPT ![s] = "dhcp-disable"]
             /\ reply' = [reply EXCEPT ![s] = "sent"]
      BY <1>1, HandlerEffect
    <2> QED BY <2>1 DEF OneSyncInv, PastDisable, TypeOK
  <1>2. CASE UNCHANGED <<sync, reply>>
    BY <1>2 DEF OneSyncInv, PastDisable
  <1>3. ASSUME NEW s \in Server, processSynchronize(s) PROVE OneSyncInv'
    BY <1>3 DEF processSynchronize, OneSyncInv, PastDisable, TypeOK
  <1>5. ASSUME NEW s \in Server, Crash(s) PROVE OneSyncInv'
    BY <1>5 DEF Crash, OneSyncInv, PastDisable, TypeOK
  <1>6. ASSUME NEW s \in Active, SyncSucceeds(s) PROVE OneSyncInv'
    <2>1. PastDisable(s)
      BY <1>6 DEF SyncSucceeds, PastDisable, SyncInv
    <2>2. \E x, y : sync' = [sync EXCEPT ![s] = x] /\ reply' = [reply EXCEPT ![s] = y]
      BY <1>6 DEF SyncSucceeds, SyncContinues, SyncSends, SyncReturns
    <2> QED BY <2>1, <2>2 DEF OneSyncInv, PastDisable, TypeOK
  <1>7. ASSUME NEW s \in Active, SyncFails(s) PROVE OneSyncInv'
    <2>1. \/ /\ sync' = [sync EXCEPT ![s] = "idle"]
             /\ reply' = [reply EXCEPT ![s] = "idle"]
          \/ /\ PastDisable(s)
             /\ \E x, y : sync' = [sync EXCEPT ![s] = x] /\ reply' = [reply EXCEPT ![s] = y]
      BY <1>7 DEF SyncFails, SyncContinues, SyncSends, SyncReturns, PastDisable
    <2> QED BY <2>1 DEF OneSyncInv, PastDisable, TypeOK
  <1>8. ASSUME NEW s \in Active, ExecuteSync(s) PROVE OneSyncInv'
    <2>1. sync[Other(s)] = "idle"
      BY <1>8 DEF ExecuteSync, Responsive
    <2> QED BY <1>8, <2>1 DEF ExecuteSync, OneSyncInv, PastDisable, TypeOK
  <1> QED
    <2>1. ASSUME NEW s \in Server, Command(s) \/ enableAll(s) \/ ExecuteStray(s) \/ Start(s)
          PROVE  OneSyncInv'
      BY <1>2, <1>3, <2>1 DEF Command, processContinue, processScopes, commandDhcp,
         enableAll, ExecuteStray, Start
    <2>3. ASSUME NEW s \in Active, HeartbeatSucceeds(s) \/ HeartbeatFails(s) PROVE OneSyncInv'
      BY <1>2, <2>3 DEF HeartbeatSucceeds, HeartbeatFails, HeartbeatCallback
    <2>4. ASSUME NEW s \in Active, LeaseUpdateSucceeds(s) \/ LeaseUpdateFails(s) PROVE OneSyncInv'
      BY <1>2, <2>4 DEF LeaseUpdateSucceeds, LeaseUpdateFails, LeaseUpdateCallback
    <2>5. ASSUME NEW s \in Active, BackupUpdatesComplete(s) PROVE OneSyncInv'
      BY <1>2, <2>5 DEF BackupUpdatesComplete
    <2>6. ASSUME NEW s \in Active, asyncSendHeartbeat(s) \/ ExecuteRequest(s) \/ ResponseDelayElapses(s)
          PROVE  OneSyncInv'
      BY <1>2, <2>6 DEF asyncSendHeartbeat, ExecuteRequest, ResponseDelayElapses
    <2>7. ASSUME NEW s \in Active, NEW c \in Clients, ReceiveQuery(s, c) PROVE OneSyncInv'
      BY <1>2, <2>7 DEF ReceiveQuery, inScope, analyzeMessage
    <2>8. CASE Stabilize \/ UNCHANGED vars
      BY <1>2, <2>8 DEF Stabilize, vars
    <2> QED BY <1>1, <1>5, <1>6, <1>7, <1>8, <2>1, <2>3, <2>4, <2>5, <2>6, <2>7, <2>8
            DEF Next, Completion

\* The inductive invariant holds initially.
LEMMA InitInv == Init => IInv
  <1> SUFFICES ASSUME Init PROVE IInv
    OBVIOUS
  <1>1. TypeOK
    <2>1. scopes \in [Server -> SUBSET Server]
      BY ScopesType DEF Init
    <2>2. queue \in [Server -> Seq(Requests)]
      BY EmptySeq DEF Init
    <2>3. crashes \in 0..MaxCrashes
      BY ConfigAssumption DEF Init
    <2> QED BY <2>1, <2>2, <2>3, ConfigAssumption
            DEF Init, TypeOK, States, PartnerStates, SyncPhases
  <1>2. ProcessInv
    BY ServersAssumption DEF Init, ProcessInv
  <1>3. SyncInv
    BY DEF Init, SyncInv
  <1>4. OneSyncInv
    BY DEF Init, OneSyncInv, PastDisable
  <1> QED BY <1>1, <1>2, <1>3, <1>4 DEF IInv

\* Every step keeps the inductive invariant.
LEMMA NextInv == IInv /\ [Next]_vars => IInv'
  BY NextTyping, NextProcess, NextSync, NextOneSync DEF IInv

\* The conjunction of types, process facts and synchronization facts is an invariant
\* of the servers.
THEOREM Invariance == Spec => []IInv
  BY InitInv, NextInv, PTL DEF Spec

\* Every variable of the two state machines keeps its type: in particular, the
\* partner's state is always one the handlers know, never that of a backup server.
THEOREM TypeCorrect == Spec => []TypeOK
  <1>1. IInv => TypeOK
    BY DEF IInv
  <1> QED BY Invariance, <1>1, PTL

\* At most one synchronization at a time is past its dhcp-disable, whatever
\* requests are lost or executed late and whichever process dies.
THEOREM OneSync == Spec => []OneSyncAtATime
  <1>1. IInv => OneSyncAtATime
    BY DEF IInv, OneSyncInv, PastDisable, OneSyncAtATime
  <1> QED BY Invariance, <1>1, PTL

-----------------------------------------------------------------------------
(* The heartbeats of a server never cease, as long as it is not terminated. *)

\* A heartbeat of s is with the HTTP client.
HeartbeatQueued(s) == \E i \in 1..Len(queue[s]) : queue[s][i] = "ha-heartbeat"

\* The timer is set up again by the callback of the heartbeat it has sent.  It is
\* not set up at all only before the first handler of a new process, during the
\* synchronization, and in the terminated state.
HeartbeatInv ==
    \A s \in Active :
        /\ hbTimer[s] = "fired" => HeartbeatQueued(s)
        /\ (s \in up /\ hbTimer[s] = "none") =>
              \/ curr[s] = "terminated"
              \/ sync[s] # "idle" /\ step[s] = "run"
              \/ curr[s] = "waiting" /\ step[s] = "enter"

\* When the oldest request is not a heartbeat, taking it off the queue keeps the
\* heartbeats in it.
LEMMA TailKeeps ==
  ASSUME NEW S, NEW q \in Seq(S), q # <<>>, NEW i \in 1..Len(q), q[i] # Head(q)
  PROVE  \E j \in 1..Len(Tail(q)) : Tail(q)[j] = q[i]
  <1>1. Head(q) = q[1] /\ Len(q) \in Nat
    BY LenProperties
  <1>2. i # 1 /\ i - 1 \in 1..Len(Tail(q)) /\ Tail(q)[i - 1] = q[(i - 1) + 1]
    BY <1>1, HeadTailProperties
  <1>3. (i - 1) + 1 = i
    BY <1>1
  <1> QED BY <1>2, <1>3

\* A new request keeps the heartbeats that are queued.
LEMMA AppendKeeps ==
  ASSUME NEW S, NEW q \in Seq(S), NEW e \in S
  PROVE  /\ \A i \in 1..Len(q) : i \in 1..Len(Append(q, e)) /\ Append(q, e)[i] = q[i]
         /\ \E i \in 1..Len(Append(q, e)) : Append(q, e)[i] = e
  BY AppendProperties, LenProperties

\* A handler that ends outside the terminated state leaves a heartbeat ahead.
LEMMA HandlerHeartbeat ==
  ASSUME IInv, HeartbeatInv, NEW s \in Server, RunHandler(s)
  PROVE  HeartbeatInv'
  <1>0. /\ Running(s) /\ UNCHANGED <<up, queue>>
        /\ hbTimer \in [Server -> {"none", "armed", "fired"}]
        /\ curr \in [Server -> States] /\ step \in [Server -> {"idle", "enter", "run"}]
        /\ sync \in [Server -> SyncPhases]
    BY HandlerEffect DEF IInv, TypeOK
  <1>1. PICK t \in States :
              /\ curr' = [curr EXCEPT ![s] = t]
              /\ \/ /\ step' = [step EXCEPT ![s] = IF t = curr[s] THEN "idle" ELSE "enter"]
                    /\ UNCHANGED <<sync, reply>>
                 \/ /\ step' = [step EXCEPT ![s] = "run"]
                    /\ t = curr[s] /\ curr[s] = "syncing"
                    /\ sync' = [sync EXCEPT ![s] = "dhcp-disable"]
                    /\ reply' = [reply EXCEPT ![s] = "sent"]
    BY HandlerEffect DEF IInv
  <1>2. s \in Active =>
          \/ hbTimer' = scheduleHeartbeat(s, hbTimer)
          \/ hbTimer' = hbTimer /\ (curr[s] = "syncing" \/ t = "terminated")
          \/ /\ hbTimer' = [hbTimer EXCEPT ![s] = "none"]
             /\ sync' = [sync EXCEPT ![s] = "dhcp-disable"]
             /\ step' = [step EXCEPT ![s] = "run"]
          \/ hbTimer' = [hbTimer EXCEPT ![s] = "none"] /\ curr[s] = "terminated" /\ t = "terminated"
    BY <1>0, <1>1, ServersAssumption
    DEF RunHandler, backupStateHandler, normalStateHandler, partnerDownStateHandler,
        readyStateHandler, syncingStateHandler, terminatedStateHandler,
        waitingStateHandler, verboseTransition, IInv, ProcessInv
  <1>3. hbTimer' \in {hbTimer, scheduleHeartbeat(s, hbTimer), [hbTimer EXCEPT ![s] = "none"]}
    BY DEF RunHandler, backupStateHandler, normalStateHandler, partnerDownStateHandler,
       readyStateHandler, syncingStateHandler, terminatedStateHandler, waitingStateHandler
  <1>4. ASSUME NEW r \in Active, r # s
        PROVE  /\ hbTimer'[r] = hbTimer[r] /\ curr'[r] = curr[r]
               /\ sync'[r] = sync[r] /\ step'[r] = step[r]
    <2>1. hbTimer'[r] = hbTimer[r]
      BY <1>0, <1>3, <1>4 DEF scheduleHeartbeat, startHeartbeat
    <2> QED BY <1>0, <1>1, <1>4, <2>1
  <1>5. ASSUME s \in Active, hbTimer'[s] = "fired" PROVE hbTimer[s] = "fired"
    BY <1>0, <1>2, <1>5 DEF scheduleHeartbeat, startHeartbeat
  <1>6. ASSUME s \in Active, hbTimer'[s] = "none"
        PROVE  curr'[s] = "terminated" \/ (sync'[s] # "idle" /\ step'[s] = "run")
    BY <1>0, <1>1, <1>2, <1>6 DEF scheduleHeartbeat, startHeartbeat, HeartbeatInv, Running
  <1> QED BY <1>0, <1>4, <1>5, <1>6 DEF HeartbeatInv, HeartbeatQueued

\* Every step keeps the heartbeat going.
LEMMA NextHeartbeat ==
  ASSUME IInv, HeartbeatInv, [Next]_vars
  PROVE  HeartbeatInv'
  <1>0. /\ hbTimer \in [Server -> {"none", "armed", "fired"}]
        /\ curr \in [Server -> States] /\ step \in [Server -> {"idle", "enter", "run"}]
        /\ sync \in [Server -> SyncPhases] /\ queue \in [Server -> Seq(Requests)]
    BY DEF IInv, TypeOK
  <1>1. ASSUME NEW s \in Server, RunHandler(s) PROVE HeartbeatInv'
    BY <1>1, HandlerHeartbeat
  <1>2. CASE UNCHANGED <<hbTimer, queue, up, curr, sync, step>>
    BY <1>2 DEF HeartbeatInv, HeartbeatQueued
  <1>3. ASSUME NEW s \in Server, processSynchronize(s) PROVE HeartbeatInv'
    BY <1>0, <1>3 DEF processSynchronize, Responsive, HeartbeatInv, HeartbeatQueued
  <1>4. ASSUME NEW s \in Server, Start(s) PROVE HeartbeatInv'
    BY <1>0, <1>4 DEF Start, HeartbeatInv, HeartbeatQueued, IInv, ProcessInv
  <1>5. ASSUME NEW s \in Server, Crash(s) PROVE HeartbeatInv'
    <2>1. /\ up' = up \ {s} /\ hbTimer' = [hbTimer EXCEPT ![s] = "none"]
          /\ queue' = [queue EXCEPT ![s] = <<>>] /\ curr' = [curr EXCEPT ![s] = "waiting"]
          /\ sync' = [sync EXCEPT ![s] = "idle"] /\ step' = [step EXCEPT ![s] = "idle"]
      BY <1>5 DEF Crash
    <2> QED BY <1>0, <2>1 DEF HeartbeatInv, HeartbeatQueued
  <1>6. ASSUME NEW s \in Active, NEW ok \in BOOLEAN, SyncContinues(s, ok),
               UNCHANGED <<up, queue>>
        PROVE  HeartbeatInv'
    <2>1. ASSUME NEW req \in SyncPhases \ {"idle"}, NEW err, SyncSends(s, req, err)
          PROVE  HeartbeatInv'
      BY <1>0, <1>6, <2>1 DEF SyncSends, HeartbeatInv, HeartbeatQueued
    <2>2. ASSUME NEW err, SyncReturns(s, err), sync[s] # "idle"
          PROVE  HeartbeatInv'
      <3>1. sync' = [sync EXCEPT ![s] = "idle"]
        BY <2>2 DEF SyncReturns
      <3>2. CASE step[s] = "run"
        <4>1. /\ hbTimer' = scheduleHeartbeat(s, hbTimer)
              /\ \E t, x : curr' = [curr EXCEPT ![s] = t] /\ step' = [step EXCEPT ![s] = x]
          BY <2>2, <3>2 DEF SyncReturns, verboseTransition
        <4> QED BY <1>0, <1>6, <3>1, <4>1
                DEF HeartbeatInv, HeartbeatQueued, scheduleHeartbeat, startHeartbeat
      <3>3. CASE step[s] # "run"
        <4>1. UNCHANGED <<hbTimer, curr, step>> /\ step[s] = "idle"
          BY <1>0, <2>2, <3>3 DEF SyncReturns, IInv, SyncInv
        <4> QED BY <1>0, <1>6, <2>2, <3>1, <4>1 DEF HeartbeatInv, HeartbeatQueued
      <3> QED BY <3>2, <3>3
    <2> QED BY <1>6, <2>1, <2>2 DEF SyncContinues, SyncPhases
  <1>7. ASSUME NEW s \in Active, HeartbeatSucceeds(s) \/ HeartbeatFails(s)
        PROVE  HeartbeatInv'
    <2>1. /\ hbTimer' = [hbTimer EXCEPT ![s] = "armed"]
          /\ queue' = [queue EXCEPT ![s] = Tail(@)]
          /\ step' = [step EXCEPT ![s] = "run"]
          /\ UNCHANGED <<up, curr, sync>>
      BY <1>7 DEF HeartbeatSucceeds, HeartbeatFails, HeartbeatCallback, startHeartbeat,
         RequestDone, runModel
    <2> QED BY <1>0, <2>1 DEF HeartbeatInv, HeartbeatQueued
  <1>8. ASSUME NEW s \in Active, LeaseUpdateSucceeds(s) \/ LeaseUpdateFails(s)
        PROVE  HeartbeatInv'
    <2>1. /\ queue' = [queue EXCEPT ![s] = Tail(@)]
          /\ step' = [step EXCEPT ![s] = "run"] \/ UNCHANGED step
          /\ queue[s] # <<>> /\ Head(queue[s]) = "lease-update"
          /\ sync[s] = "idle" /\ step[s] = "idle"
          /\ UNCHANGED <<up, curr, sync, hbTimer>>
      BY <1>8 DEF LeaseUpdateSucceeds, LeaseUpdateFails, LeaseUpdateCallback, RequestDone,
         runModel, Responsive
    <2>2. HeartbeatQueued(s) =>
            \E i \in 1..Len(Tail(queue[s])) : Tail(queue[s])[i] = "ha-heartbeat"
      BY <1>0, <2>1, TailKeeps DEF HeartbeatQueued
    <2>3. HeartbeatQueued(s) => HeartbeatQueued(s)'
      BY <1>0, <2>1, <2>2 DEF HeartbeatQueued
    <2>4. \A r \in Active : r # s => (HeartbeatQueued(r) <=> HeartbeatQueued(r)')
      BY <1>0, <2>1 DEF HeartbeatQueued
    <2> QED BY <1>0, <2>1, <2>3, <2>4 DEF HeartbeatInv
  <1>9. ASSUME NEW s \in Active, BackupUpdatesComplete(s) PROVE HeartbeatInv'
    BY <1>0, <1>9 DEF BackupUpdatesComplete, runModel, Responsive, HeartbeatInv, HeartbeatQueued
  <1>10. ASSUME NEW s \in Active, NEW req \in Requests, asyncSendRequest(s, req),
                UNCHANGED <<up, step, sync, curr>>
         PROVE  /\ \A r \in Active : HeartbeatQueued(r) => HeartbeatQueued(r)'
                /\ req = "ha-heartbeat" => HeartbeatQueued(s)'
    <2>1. queue' = [queue EXCEPT ![s] = Append(queue[s], req)]
      BY <1>10 DEF asyncSendRequest
    <2>2. queue[s] \in Seq(Requests) /\ queue'[s] = Append(queue[s], req)
      BY <1>0, <2>1
    <2>3. HeartbeatQueued(s) => HeartbeatQueued(s)'
      BY <2>2, AppendKeeps DEF HeartbeatQueued
    <2>4. req = "ha-heartbeat" => HeartbeatQueued(s)'
      BY <2>2, AppendKeeps DEF HeartbeatQueued
    <2>5. \A r \in Active : r # s => queue'[r] = queue[r]
      BY <1>0, <2>1
    <2> QED BY <2>3, <2>4, <2>5 DEF HeartbeatQueued
  <1>11. ASSUME NEW s \in Active, asyncSendHeartbeat(s) PROVE HeartbeatInv'
    <2>1. /\ hbTimer' = [hbTimer EXCEPT ![s] = "fired"]
          /\ asyncSendRequest(s, "ha-heartbeat") /\ UNCHANGED <<up, step, sync, curr>>
      BY <1>11 DEF asyncSendHeartbeat
    <2>2. HeartbeatQueued(s)' /\ \A r \in Active : HeartbeatQueued(r) => HeartbeatQueued(r)'
      BY <1>10, <2>1 DEF Requests
    <2> QED BY <1>0, <2>1, <2>2 DEF HeartbeatInv
  <1>12. ASSUME NEW s \in Active, NEW c \in Clients, ReceiveQuery(s, c) PROVE HeartbeatInv'
    <2>1. /\ UNCHANGED <<up, step, sync, curr, hbTimer>>
          /\ asyncSendRequest(s, "lease-update") \/ UNCHANGED queue
      BY <1>12 DEF ReceiveQuery, inScope, analyzeMessage
    <2>2. \A r \in Active : HeartbeatQueued(r) => HeartbeatQueued(r)'
      BY <1>10, <2>1 DEF Requests, HeartbeatQueued
    <2> QED BY <2>1, <2>2 DEF HeartbeatInv
  <1> QED
    <2>1. ASSUME NEW s \in Server, Command(s) \/ enableAll(s) \/ ExecuteStray(s)
          PROVE  HeartbeatInv'
      BY <1>2, <1>3, <2>1 DEF Command, processContinue, processScopes, commandDhcp,
         enableAll, ExecuteStray
    <2>2. ASSUME NEW s \in Active, SyncSucceeds(s) \/ SyncFails(s) PROVE HeartbeatInv'
      BY <1>6, <2>2 DEF SyncSucceeds, SyncFails
    <2>3. ASSUME NEW s \in Active, ExecuteSync(s) \/ ExecuteRequest(s) \/ ResponseDelayElapses(s)
          PROVE  HeartbeatInv'
      BY <1>2, <2>3 DEF ExecuteSync, ExecuteRequest, ResponseDelayElapses
    <2>4. CASE Stabilize \/ UNCHANGED vars
      BY <1>2, <2>4 DEF Stabilize, vars
    <2> QED BY <1>1, <1>4, <1>5, <1>7, <1>8, <1>9, <1>11, <1>12, <2>1, <2>2, <2>3, <2>4
            DEF Next, Completion

\* A server that is not terminated always has its next heartbeat ahead of it,
\* whatever the order in which timers, callbacks and synchronizations take place.
THEOREM HeartbeatNeverStops == Spec => []HeartbeatGoesOn
  <1>1. Init => HeartbeatInv
    BY DEF Init, HeartbeatInv
  <1>2. IInv /\ HeartbeatInv /\ [Next]_vars => HeartbeatInv'
    BY NextHeartbeat
  <1>3. IInv /\ HeartbeatInv => HeartbeatGoesOn
    BY DEF IInv, TypeOK, HeartbeatInv, HeartbeatQueued, HeartbeatGoesOn, Responsive
  <1> QED BY Invariance, <1>1, <1>2, <1>3, PTL DEF Spec
=============================================================================
