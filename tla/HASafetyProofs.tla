--------------------------- MODULE HASafetyProofs ---------------------------
(* What the state of a server says of its scopes, of its service and of the *)
(* leases it has fetched: proofs for every configuration and every bound.   *)
EXTENDS HAServiceProofs

USE DEF Active, Server, modelVars, commVars, serviceVars, requestVars, syncVars, worldVars

\* The scopes a server has once the handler of state t has run.
StateScopes(s, t) ==
    CASE t \in {"waiting", "syncing", "ready"} -> {}
      [] t = "partner-down" -> IF s \in AutoFailover THEN serveFailoverScopes
                                                     ELSE serveDefaultScopes(s)
      [] OTHER -> serveDefaultScopes(s)

\* The scopes follow the state, except between a transition and the entry actions.
ScopesInv ==
    \A s \in Active : s \in up /\ step[s] # "enter" => scopes[s] = StateScopes(s, curr[s])

\* The leases are fetched before the last request of a synchronization, which
\* leads to the ready state unless an error was recorded.
FetchInv ==
    \A s \in Active :
        /\ curr[s] = "ready" => s \in fetched
        /\ (sync[s] = "dhcp-enable" /\ step[s] = "run" /\ s \notin failed) => s \in fetched

\* The service is on, or its timer is armed, except between a transition and the
\* entry actions; and no command without a max-period is on its way.
ServiceInv ==
    \A s \in Active :
        /\ (s \in up /\ curr[s] \in EnabledStates /\ step[s] # "enter") => s \in enabled \cup delayed
        /\ sync[s] # "dhcp-disable-untimed"
        /\ "dhcp-disable-untimed" \notin stray[s]

----------------------------------------------------------------------------
\* A step of the server's own process other than a handler does not change its
\* state, unless it is the end of a synchronization, or of the process.
LEMMA CurrOf ==
  ASSUME IInv, [Next]_vars
  PROVE  \/ UNCHANGED curr
         \/ \E s \in Server : RunHandler(s) \/ Crash(s)
         \/ \E s \in Active : SyncSucceeds(s) \/ SyncFails(s)
  BY Zenon DEF Next, vars, Command, Completion, processContinue, processScopes, processSynchronize,
     commandDhcp, Start, enableAll, ExecuteStray, HeartbeatSucceeds, HeartbeatFails,
     HeartbeatCallback, LeaseUpdateSucceeds, LeaseUpdateFails, LeaseUpdateCallback,
     BackupUpdatesComplete, ExecuteSync, ExecuteRequest, asyncSendHeartbeat,
     ResponseDelayElapses, ReceiveQuery, inScope, analyzeMessage, Stabilize

\* The end of a synchronization changes the state in the syncing state only.
LEMMA SyncCurr ==
  ASSUME IInv, NEW s \in Active, NEW ok \in BOOLEAN, SyncContinues(s, ok)
  PROVE  \/ UNCHANGED <<curr, step>>
         \/ /\ curr[s] = "syncing" /\ step[s] = "run" /\ sync[s] # "idle"
            /\ \/ curr' = [curr EXCEPT ![s] = curr[s]] /\ step' = [step EXCEPT ![s] = "idle"]
               \/ /\ curr' = [curr EXCEPT ![s] = "ready"] /\ step' = [step EXCEPT ![s] = "enter"]
                  /\ ok /\ sync[s] = "dhcp-enable" /\ s \notin failed
  <1>1. ASSUME NEW req, NEW err, SyncSends(s, req, err) PROVE UNCHANGED <<curr, step>>
    BY <1>1 DEF SyncSends
  <1>2. ASSUME NEW err, SyncReturns(s, err), sync[s] # "idle"
        PROVE  \/ UNCHANGED <<curr, step>>
               \/ /\ curr[s] = "syncing" /\ step[s] = "run"
                  /\ \/ curr' = [curr EXCEPT ![s] = curr[s]] /\ step' = [step EXCEPT ![s] = "idle"]
                     \/ /\ curr' = [curr EXCEPT ![s] = "ready"] /\ step' = [step EXCEPT ![s] = "enter"]
                        /\ ~err
    BY <1>2 DEF SyncReturns, verboseTransition, IInv, SyncInv
  <1>3. CASE sync[s] \in {"dhcp-disable", "dhcp-disable-untimed"}
    <2>1. (\E err : SyncSends(s, "lease-get-all", err)) \/ SyncReturns(s, TRUE)
      BY Zenon, <1>3 DEF SyncContinues
    <2> QED BY Zenon, <1>1, <1>2, <1>3, <2>1
  <1>4. CASE sync[s] = "lease-get-all"
    <2>1. \E err : SyncSends(s, "dhcp-enable", err)
      BY <1>4 DEF SyncContinues
    <2> QED BY <1>1, <2>1
  <1>5. CASE sync[s] = "dhcp-enable"
    <2>1. SyncReturns(s, ~ok \/ s \in failed)
      BY <1>5 DEF SyncContinues
    <2> QED BY Zenon, <1>2, <1>5, <2>1
  <1> QED BY Zenon, <1>3, <1>4, <1>5 DEF SyncContinues

\* A terminated server stays so until its process dies: no handler, callback,
\* synchronization or command leads out of the terminated state.
THEOREM Termination == Spec => TerminatedForGood
  <1> DEFINE Stays == \A s \in Active : curr[s] = "terminated" /\ s \in up' => curr'[s] = "terminated"
  <1>1. IInv /\ [Next]_vars => [Stays]_vars
    <2> SUFFICES ASSUME IInv, [Next]_vars PROVE Stays
      OBVIOUS
    <2>0. curr \in [Server -> States]
      BY DEF IInv, TypeOK
    <2>1. ASSUME NEW s \in Server, RunHandler(s) PROVE Stays
      <3>1. PICK t : curr' = [curr EXCEPT ![s] = t]
        BY <2>1, HandlerEffect DEF IInv
      <3>2. curr[s] = "terminated" => terminatedStateHandler(s)
        BY <2>1 DEF RunHandler, backupStateHandler, normalStateHandler, readyStateHandler,
           partnerDownStateHandler, syncingStateHandler, waitingStateHandler
      <3>3. curr[s] = "terminated" => curr' = [curr EXCEPT ![s] = curr[s]]
        BY <3>2 DEF terminatedStateHandler, verboseTransition
      <3> QED BY <2>0, <3>1, <3>3
    <2>2. ASSUME NEW s \in Server, Crash(s) PROVE Stays
      BY <2>0, <2>2 DEF Crash
    <2>3. ASSUME NEW s \in Active, SyncSucceeds(s) \/ SyncFails(s) PROVE Stays
      <3>1. \E ok \in BOOLEAN : SyncContinues(s, ok)
        BY Zenon, <2>3 DEF SyncSucceeds, SyncFails
      <3> QED BY <2>0, <3>1, SyncCurr
    <2> QED BY <2>1, <2>2, <2>3, CurrOf
  <1> QED BY Invariance, <1>1, PTL DEF Spec, TerminatedForGood

----------------------------------------------------------------------------
\* The entry actions of a handler, for the state it is the handler of.
LEMMA HandlerEntry ==
  ASSUME IInv, NEW s \in Server, RunHandler(s)
  PROVE  /\ enabled' = IF step[s] = "enter" THEN adjustNetworkState(s, enabled) ELSE enabled
         /\ \E sc : scopes' = IF step[s] = "enter" THEN [scopes EXCEPT ![s] = sc] ELSE scopes
         /\ s \in Active =>
              scopes' = IF step[s] = "enter"
                        THEN [scopes EXCEPT ![s] = StateScopes(s, curr[s])] ELSE scopes
  <1>1. PICK sc : /\ OnEntry(s, sc)
                  /\ s \in Active => sc = StateScopes(s, curr[s])
    <2>1. CASE backupStateHandler(s)
      BY <2>1 DEF backupStateHandler, IInv, ProcessInv
    <2>2. CASE normalStateHandler(s)
      BY <2>2 DEF normalStateHandler, StateScopes
    <2>3. CASE partnerDownStateHandler(s)
      BY <2>3 DEF partnerDownStateHandler, StateScopes
    <2>4. CASE readyStateHandler(s) \/ waitingStateHandler(s)
      BY <2>4 DEF readyStateHandler, waitingStateHandler, StateScopes
    <2>5. CASE syncingStateHandler(s)
      BY <2>5 DEF syncingStateHandler, StateScopes
    <2>6. CASE terminatedStateHandler(s)
      BY <2>6 DEF terminatedStateHandler, StateScopes
    <2> QED BY <2>1, <2>2, <2>3, <2>4, <2>5, <2>6 DEF RunHandler
  <1> QED BY <1>1 DEF OnEntry

\* Every step other than a command to set the scopes keeps them in line with the state.
LEMMA NextScopes ==
  ASSUME IInv, ScopesInv, [Next]_vars, "ha-scopes" \notin Admin
  PROVE  ScopesInv'
  <1>0. /\ curr \in [Server -> States] /\ step \in [Server -> {"idle", "enter", "run"}]
        /\ scopes \in [Server -> SUBSET Server]
    BY DEF IInv, TypeOK
  <1>1. ASSUME NEW s \in Server, RunHandler(s) PROVE ScopesInv'
    <2>1. PICK t : /\ curr' = [curr EXCEPT ![s] = t]
                   /\ \/ step' = [step EXCEPT ![s] = IF t = curr[s] THEN "idle" ELSE "enter"]
                      \/ step' = [step EXCEPT ![s] = "run"] /\ t = curr[s]
                   /\ UNCHANGED up /\ s \in up
      BY <1>1, HandlerEffect DEF IInv, Running
    <2>2. \E sc : scopes' = IF step[s] = "enter" THEN [scopes EXCEPT ![s] = sc] ELSE scopes
      BY <1>1, HandlerEntry
    <2>3. s \in Active => scopes' = IF step[s] = "enter"
                                    THEN [scopes EXCEPT ![s] = StateScopes(s, curr[s])] ELSE scopes
      BY <1>1, HandlerEntry
    <2>4. ASSUME NEW r \in Active, r # s
          PROVE  curr'[r] = curr[r] /\ step'[r] = step[r] /\ scopes'[r] = scopes[r]
      BY <1>0, <2>1, <2>2, <2>4
    <2>5. ASSUME s \in Active, step'[s] # "enter"
          PROVE  curr'[s] = curr[s] /\ scopes'[s] = StateScopes(s, curr[s])
      BY <1>0, <2>1, <2>3, <2>5 DEF ScopesInv
    <2>6. ASSUME NEW r \in Active, r \in up', step'[r] # "enter"
          PROVE  scopes'[r] = StateScopes(r, curr'[r])
      BY <2>1, <2>4, <2>5, <2>6 DEF ScopesInv
    <2> QED BY <2>6 DEF ScopesInv, StateScopes, serveDefaultScopes, serveFailoverScopes
  <1>2. ASSUME UNCHANGED <<up, curr, step, scopes>> PROVE ScopesInv'
    BY <1>2 DEF ScopesInv, StateScopes
  <1>3. ASSUME NEW s \in Server, Start(s) PROVE ScopesInv'
    BY Zenon, <1>0, <1>3 DEF Start, ScopesInv, StateScopes
  <1>4. ASSUME NEW s \in Server, Crash(s) PROVE ScopesInv'
    <2>1. /\ up' = up \ {s} /\ curr' = [curr EXCEPT ![s] = "waiting"]
          /\ step' = [step EXCEPT ![s] = "idle"]
          /\ \E sc : scopes' = [scopes EXCEPT ![s] = sc]
      BY Zenon, <1>4 DEF Crash
    <2> QED BY Zenon, <1>0, <2>1 DEF ScopesInv, StateScopes
  <1>5. ASSUME NEW s \in Active, NEW ok \in BOOLEAN, SyncContinues(s, ok), UNCHANGED <<up, scopes>>
        PROVE  ScopesInv'
    <2>1. \/ UNCHANGED <<curr, step>>
          \/ /\ step[s] = "run"
             /\ \/ curr' = [curr EXCEPT ![s] = curr[s]] /\ step' = [step EXCEPT ![s] = "idle"]
                \/ curr' = [curr EXCEPT ![s] = "ready"] /\ step' = [step EXCEPT ![s] = "enter"]
      BY <1>5, SyncCurr
    <2> QED BY <1>0, <1>5, <2>1 DEF ScopesInv, StateScopes
  <1>6. ASSUME NEW s \in Active, Responsive(s), runModel(s), UNCHANGED <<up, curr, scopes>>
        PROVE  ScopesInv'
    BY Zenon, <1>0, <1>6 DEF Responsive, runModel, ScopesInv, StateScopes
  <1> QED
    <2>1. ASSUME NEW s \in Server, Command(s) \/ enableAll(s) \/ ExecuteStray(s)
          PROVE  ScopesInv'
      BY <1>2, <2>1 DEF Command, processContinue, processScopes, processSynchronize,
         commandDhcp, enableAll, ExecuteStray
    <2>2. ASSUME NEW s \in Active, SyncSucceeds(s) \/ SyncFails(s) PROVE ScopesInv'
      BY Zenon, <1>5, <2>2 DEF SyncSucceeds, SyncFails
    <2>3. ASSUME NEW s \in Active, HeartbeatSucceeds(s) \/ HeartbeatFails(s) PROVE ScopesInv'
      BY <1>6, <2>3 DEF HeartbeatSucceeds, HeartbeatFails, HeartbeatCallback
    <2>4. ASSUME NEW s \in Active, LeaseUpdateSucceeds(s) \/ LeaseUpdateFails(s) PROVE ScopesInv'
      BY <1>2, <1>6, <2>4 DEF LeaseUpdateSucceeds, LeaseUpdateFails, LeaseUpdateCallback
    <2>5. ASSUME NEW s \in Active, BackupUpdatesComplete(s) PROVE ScopesInv'
      BY <1>6, <2>5 DEF BackupUpdatesComplete
    <2>6. ASSUME NEW s \in Active, asyncSendHeartbeat(s) \/ ExecuteRequest(s)
                                   \/ ExecuteSync(s) \/ ResponseDelayElapses(s)
          PROVE  ScopesInv'
      BY <1>2, <2>6 DEF asyncSendHeartbeat, ExecuteRequest, ExecuteSync, ResponseDelayElapses
    <2>7. ASSUME NEW s \in Active, NEW c \in Clients, ReceiveQuery(s, c) PROVE ScopesInv'
      BY <1>2, <2>7 DEF ReceiveQuery, inScope, analyzeMessage
    <2>8. CASE Stabilize \/ UNCHANGED vars
      BY <1>2, <2>8 DEF Stabilize, vars
    <2> QED BY <1>1, <1>3, <1>4, <2>1, <2>2, <2>3, <2>4, <2>5, <2>6, <2>7, <2>8
            DEF Next, Completion

\* Unless the administrator sets the scopes, they follow the state.
LEMMA ScopesInvariance ==
  ASSUME "ha-scopes" \notin Admin
  PROVE  Spec => [](IInv /\ ScopesInv)
  <1>1. Init => ScopesInv
    BY DEF Init, ScopesInv
  <1>2. IInv /\ ScopesInv /\ [Next]_vars => ScopesInv'
    BY NextScopes
  <1> QED BY Invariance, <1>1, <1>2, PTL DEF Spec

\* A server answers no client before it has left the ready state, whatever the
\* delayed-enable timer has done to its service meanwhile.
THEOREM NoEarlyService ==
  ASSUME "ha-scopes" \notin Admin
  PROVE  Spec => []NoServiceBeforeReady
  <1>1. IInv /\ ScopesInv => NoServiceBeforeReady
    <2> SUFFICES ASSUME IInv, ScopesInv, NEW s \in Active, NEW c \in Clients,
                        Responsive(s), Serves(s, c)
                 PROVE  curr[s] \notin {"waiting", "syncing", "ready"}
      BY DEF NoServiceBeforeReady
    <2>1. Owner[c] \in StateScopes(s, curr[s])
      BY DEF ScopesInv, Responsive, Serves, inScope
    <2> QED BY <2>1 DEF StateScopes
  <1> QED BY ScopesInvariance, <1>1, PTL

\* Two servers answer the same client only while one of them is in the
\* partner-down state, for any number of clients and any split of the load.
THEOREM SingleServer ==
  ASSUME "ha-scopes" \notin Admin
  PROVE  Spec => []OneServerPerClient
  <1>1. IInv /\ ScopesInv => OneServerPerClient
    <2> SUFFICES ASSUME IInv, ScopesInv, NEW c \in Clients,
                        \A s \in Active : ~Running(s) /\ Serves(s, c)
                 PROVE  \E s \in Active : curr[s] = "partner-down"
      BY DEF OneServerPerClient
    <2>1. ASSUME NEW s \in Active, curr[s] # "partner-down" PROVE Owner[c] = s
      <3>1. s \in up /\ Owner[c] \in scopes[s] /\ step[s] # "enter"
        BY <2>1 DEF Running, Serves, inScope, IInv, SyncInv
      <3>2. Owner[c] \in StateScopes(s, curr[s])
        BY <3>1 DEF ScopesInv
      <3>3. StateScopes(s, curr[s]) \in {{}, serveDefaultScopes(s)}
        BY <2>1 DEF StateScopes
      <3>4. serveDefaultScopes(s) \subseteq {s}
        BY DEF serveDefaultScopes
      <3> QED BY <3>2, <3>3, <3>4
    <2> QED BY <2>1, ServersAssumption
  <1> QED BY ScopesInvariance, <1>1, PTL

----------------------------------------------------------------------------
\* A handler never leads to the ready state when leases are synchronized, and
\* forgets the fetched leases in the partner-down and syncing states only.
LEMMA HandlerFetch ==
  ASSUME IInv, NEW s \in Active, RunHandler(s), "sync-leases" \in Options
  PROVE  /\ curr' = [curr EXCEPT ![s] = "ready"] => curr[s] = "ready"
         /\ fetched' = fetched \/ (fetched' = fetched \ {s} /\ curr[s] \in {"partner-down", "syncing"})
  <1>0. curr \in [Server -> States] /\ s \notin Backups /\ Mode # "ready"
    BY ServersAssumption, ConfigAssumption DEF IInv, TypeOK
  <1>1. ASSUME NEW t, verboseTransition(s, t), curr' = [curr EXCEPT ![s] = "ready"]
        PROVE  t = "ready"
    BY Zenon, <1>0, <1>1 DEF verboseTransition
  <1>2. CASE backupStateHandler(s)
    BY <1>1, <1>2 DEF backupStateHandler
  <1>3. CASE normalStateHandler(s)
    <2>1. normalNext(s) # "ready"
      BY <1>3 DEF normalStateHandler, normalNext, Unless
    <2> QED BY <1>1, <1>3, <2>1 DEF normalStateHandler
  <1>4. CASE partnerDownStateHandler(s)
    <2>1. partnerDownNext(s) # "ready"
      BY <1>0, <1>4 DEF partnerDownStateHandler, partnerDownNext, Unless, NormalState
    <2> QED BY <1>1, <1>4, <2>1 DEF partnerDownStateHandler
  <1>5. CASE readyStateHandler(s)
    BY <1>5 DEF readyStateHandler
  <1>6. CASE syncingStateHandler(s)
    <2>1. syncingNext(s) # "ready" /\ curr[s] = "syncing"
      BY <1>6 DEF syncingStateHandler, syncingNext, Unless
    <2>2. CASE SyncStarts(s)
      BY <1>0, <1>6, <2>1, <2>2 DEF syncingStateHandler
    <2>3. CASE ~SyncStarts(s)
      BY <1>1, <1>6, <2>1, <2>3 DEF syncingStateHandler
    <2> QED BY <2>2, <2>3
  <1>7. CASE terminatedStateHandler(s)
    BY <1>1, <1>7 DEF terminatedStateHandler
  <1>8. CASE waitingStateHandler(s)
    <2>1. waitingNext(s) # "ready"
      BY <1>0, <1>8 DEF waitingStateHandler, waitingNext, Unless, AfterWaiting
    <2> QED BY <1>1, <1>8, <2>1 DEF waitingStateHandler
  <1> QED BY <1>2, <1>3, <1>4, <1>5, <1>6, <1>7, <1>8 DEF RunHandler

\* Every step keeps the ready state tied to the fetched leases.
LEMMA NextFetch ==
  ASSUME IInv, FetchInv, [Next]_vars, "sync-leases" \in Options
  PROVE  FetchInv'
  <1>0. /\ curr \in [Server -> States] /\ step \in [Server -> {"idle", "enter", "run"}]
        /\ sync \in [Server -> SyncPhases]
    BY DEF IInv, TypeOK
  <1>1. ASSUME NEW s \in Active, RunHandler(s) PROVE FetchInv'
    <2>1. PICK t \in States :
                   /\ curr' = [curr EXCEPT ![s] = t]
                   /\ \/ step' = [step EXCEPT ![s] = IF t = curr[s] THEN "idle" ELSE "enter"]
                         /\ UNCHANGED sync
                      \/ step' = [step EXCEPT ![s] = "run"] /\ t = curr[s]
                         /\ sync' = [sync EXCEPT ![s] = "dhcp-disable"]
      BY <1>1, HandlerEffect DEF IInv
    <2>2. UNCHANGED failed /\ sync[s] = "idle"
      BY <1>1, HandlerEffect DEF IInv, Running
    <2>3. t = "ready" => curr[s] = "ready"
      BY Zenon, <1>1, <2>1, HandlerFetch
    <2>4. fetched' = fetched \/ (fetched' = fetched \ {s} /\ curr[s] \in {"partner-down", "syncing"})
      BY <1>1, HandlerFetch
    <2>5. \A r \in Active : r # s => /\ curr'[r] = curr[r] /\ sync'[r] = sync[r]
                                     /\ step'[r] = step[r] /\ (r \in fetched' <=> r \in fetched)
      BY <1>0, <2>1, <2>4
    <2>6. /\ curr'[s] = "ready" => s \in fetched'
          /\ sync'[s] # "dhcp-enable"
      BY <1>0, <2>1, <2>2, <2>3, <2>4 DEF FetchInv
    <2> QED BY <2>2, <2>5, <2>6 DEF FetchInv
  <1>2. ASSUME NEW s \in Server, s \notin Active, RunHandler(s) PROVE FetchInv'
    <2>1. \E t, x, y : /\ curr' = [curr EXCEPT ![s] = t] /\ step' = [step EXCEPT ![s] = x]
                       /\ sync' = sync \/ sync' = [sync EXCEPT ![s] = y]
      BY <1>2, HandlerEffect DEF IInv
    <2>2. UNCHANGED failed
      BY <1>2, HandlerEffect DEF IInv
    <2>3. fetched' = fetched \/ fetched' = fetched \ {s}
      BY Zenon, <1>2 DEF RunHandler, backupStateHandler, normalStateHandler, partnerDownStateHandler,
         readyStateHandler, syncingStateHandler, terminatedStateHandler, waitingStateHandler
    <2>4. \A r \in Active : r # s
      BY <1>2
    <2> QED BY ONLY <1>0, <2>1, <2>2, <2>3, <2>4, FetchInv DEF FetchInv
  <1>3. ASSUME UNCHANGED <<curr, sync, failed, fetched>>,
               \A s \in Active : step'[s] = "run" => step[s] = "run" \/ sync[s] = "idle"
        PROVE  FetchInv'
    BY <1>3 DEF FetchInv
  <1>4. ASSUME NEW s \in Server, Crash(s) PROVE FetchInv'
    <2>1. /\ curr' = [curr EXCEPT ![s] = "waiting"] /\ step' = [step EXCEPT ![s] = "idle"]
          /\ sync' = [sync EXCEPT ![s] = "idle"] /\ failed' = failed \ {s} /\ fetched' = fetched \ {s}
      BY <1>4 DEF Crash
    <2> QED BY <1>0, <2>1 DEF FetchInv
  <1>5. ASSUME NEW s \in Server, processSynchronize(s) PROVE FetchInv'
    BY <1>0, <1>5 DEF processSynchronize, FetchInv
  <1>6. ASSUME NEW s \in Active, SyncSucceeds(s) \/ SyncFails(s) PROVE FetchInv'
    <2>1. PICK ok \in BOOLEAN :
             /\ SyncContinues(s, ok)
             /\ fetched' = IF ok /\ sync[s] = "lease-get-all" /\ step[s] = "run"
                           THEN fetched \cup {s} ELSE fetched
      BY Zenon, <1>6 DEF SyncSucceeds, SyncFails
    <2>2. \/ UNCHANGED <<curr, step>>
          \/ /\ curr[s] = "syncing" /\ step[s] = "run" /\ sync[s] # "idle"
             /\ \/ curr' = [curr EXCEPT ![s] = curr[s]] /\ step' = [step EXCEPT ![s] = "idle"]
                \/ /\ curr' = [curr EXCEPT ![s] = "ready"] /\ step' = [step EXCEPT ![s] = "enter"]
                   /\ ok /\ sync[s] = "dhcp-enable" /\ s \notin failed
      BY <2>1, SyncCurr
    <2>3. \/ sync' = [sync EXCEPT ![s] = "idle"] /\ failed' = failed \ {s}
          \/ /\ sync' = [sync EXCEPT ![s] = "lease-get-all"]
             /\ failed' = failed
          \/ /\ sync' = [sync EXCEPT ![s] = "dhcp-enable"] /\ sync[s] = "lease-get-all"
             /\ failed' = IF ok THEN failed ELSE failed \cup {s}
      BY Zenon, <2>1 DEF SyncContinues, SyncSends, SyncReturns
    <2>4. \A r \in Active : r # s =>
             /\ curr'[r] = curr[r] /\ step'[r] = step[r] /\ sync'[r] = sync[r]
             /\ (r \in failed' <=> r \in failed) /\ (r \in fetched => r \in fetched')
      BY <1>0, <2>1, <2>2, <2>3
    <2>5. curr'[s] = "ready" => s \in fetched'
      BY <1>0, <2>1, <2>2 DEF FetchInv
    <2>6. ASSUME sync'[s] = "dhcp-enable", step'[s] = "run", s \notin failed' PROVE s \in fetched'
      <3>1. sync[s] = "lease-get-all" /\ ok
        BY <1>0, <2>3, <2>6
      <3>2. step[s] = "run"
        BY <1>0, <2>2, <2>6
      <3> QED BY <2>1, <3>1, <3>2
    <2> QED BY <2>4, <2>5, <2>6 DEF FetchInv
  <1> QED
    <2>1. ASSUME NEW s \in Server, processContinue(s) \/ processScopes(s) \/ commandDhcp(s)
                                   \/ enableAll(s) \/ ExecuteStray(s)
          PROVE  FetchInv'
      BY Zenon, <1>3, <2>1 DEF processContinue, processScopes, commandDhcp, enableAll, ExecuteStray
    <2>2. ASSUME NEW s \in Server, Start(s) PROVE FetchInv'
      BY <1>0, <1>3, <2>2 DEF Start
    <2>3. ASSUME NEW s \in Active, Responsive(s), runModel(s), UNCHANGED <<curr, sync, failed, fetched>>
          PROVE  FetchInv'
      BY <1>0, <1>3, <2>3 DEF Responsive, runModel
    <2>4. ASSUME NEW s \in Active, HeartbeatSucceeds(s) \/ HeartbeatFails(s) \/ BackupUpdatesComplete(s)
          PROVE  FetchInv'
      BY Zenon, <2>3, <2>4 DEF HeartbeatSucceeds, HeartbeatFails, HeartbeatCallback, BackupUpdatesComplete
    <2>5. ASSUME NEW s \in Active, LeaseUpdateSucceeds(s) \/ LeaseUpdateFails(s) PROVE FetchInv'
      BY Zenon, <1>3, <2>3, <2>5 DEF LeaseUpdateSucceeds, LeaseUpdateFails, LeaseUpdateCallback
    <2>6. ASSUME NEW s \in Active, asyncSendHeartbeat(s) \/ ExecuteRequest(s)
                                   \/ ExecuteSync(s) \/ ResponseDelayElapses(s)
          PROVE  FetchInv'
      BY Zenon, <1>3, <2>6 DEF asyncSendHeartbeat, ExecuteRequest, ExecuteSync, ResponseDelayElapses
    <2>7. ASSUME NEW s \in Active, NEW c \in Clients, ReceiveQuery(s, c) PROVE FetchInv'
      BY Zenon, <1>3, <2>7 DEF ReceiveQuery, inScope, analyzeMessage
    <2>8. CASE Stabilize \/ UNCHANGED vars
      BY Zenon, <1>3, <2>8 DEF Stabilize, vars
    <2> QED BY <1>1, <1>2, <1>4, <1>5, <1>6, <2>1, <2>2, <2>4, <2>5, <2>6, <2>7, <2>8
            DEF Next, Command, Completion

\* A server is ready only with the leases of its partner, whatever requests of the
\* synchronization fail, and whoever asks for another one meanwhile.
THEOREM ReadyWithLeases == Spec => []ReadyMeansFetched
  <1>1. CASE "sync-leases" \in Options
    <2>1. Init => FetchInv
      BY DEF Init, FetchInv
    <2>2. IInv /\ FetchInv /\ [Next]_vars => FetchInv'
      BY <1>1, NextFetch
    <2>3. FetchInv => ReadyMeansFetched
      BY DEF FetchInv, ReadyMeansFetched
    <2> QED BY Invariance, <2>1, <2>2, <2>3, PTL DEF Spec
  <1>2. CASE "sync-leases" \notin Options
    <2>1. ReadyMeansFetched
      BY <1>2 DEF ReadyMeansFetched
    <2> QED BY <2>1, PTL
  <1> QED BY <1>1, <1>2

----------------------------------------------------------------------------
\* A command with a max-period, or a dhcp-enable, at a server between two runs of
\* its state machine leaves the service on or its timer armed.
LEMMA CommandService ==
  ASSUME IInv, ServiceInv, NEW o \in Server, NEW cmd, cmd # "dhcp-disable-untimed",
         dhcpCommand(o, cmd), Responsive(o), UNCHANGED <<up, curr, step>>
  PROVE  \A s \in Active : (s \in up' /\ curr'[s] \in EnabledStates /\ step'[s] # "enter")
                               => s \in enabled' \cup delayed'
  <1>1. \/ enabled' = enabled \ {o} /\ delayed' = delayed \cup {o}
        \/ enabled' = adjustNetworkState(o, enabled) /\ delayed' = delayed
        \/ enabled' = enabled /\ delayed' = delayed
    BY DEF dhcpCommand
  <1>2. CASE enabled' = adjustNetworkState(o, enabled) /\ delayed' = delayed
    BY <1>2 DEF adjustNetworkState, ServiceInv
  <1> QED BY <1>1, <1>2 DEF ServiceInv

\* Every step keeps the service on, or its timer armed, in the states that serve.
LEMMA NextService ==
  ASSUME IInv, ServiceInv, [Next]_vars, Admin \cap {"ha-sync", "dhcp-disable-untimed"} = {}
  PROVE  ServiceInv'
  <1> DEFINE Kept == \A s \in Active :
                (s \in up /\ curr[s] \in EnabledStates /\ step[s] # "enter") => s \in enabled \cup delayed
             Timed == \A s \in Active : /\ sync[s] # "dhcp-disable-untimed"
                                        /\ "dhcp-disable-untimed" \notin stray[s]
  <1>a. Kept /\ Timed
    BY Zenon DEF ServiceInv
  <1>b. ASSUME Kept', Timed' PROVE ServiceInv'
    BY <1>b DEF ServiceInv
  <1>0. /\ curr \in [Server -> States] /\ step \in [Server -> {"idle", "enter", "run"}]
        /\ sync \in [Server -> SyncPhases] /\ stray \in [Server -> SUBSET Strays]
    BY DEF IInv, TypeOK
  <1>1. ASSUME NEW s \in Server, RunHandler(s) PROVE ServiceInv'
    <2>1. PICK t : /\ curr' = [curr EXCEPT ![s] = t]
                   /\ \/ step' = [step EXCEPT ![s] = IF t = curr[s] THEN "idle" ELSE "enter"]
                         /\ UNCHANGED sync
                      \/ step' = [step EXCEPT ![s] = "run"] /\ t = curr[s]
                         /\ sync' = [sync EXCEPT ![s] = "dhcp-disable"]
      BY Zenon, <1>1, HandlerEffect DEF IInv
    <2>2. UNCHANGED <<up, delayed, stray>>
      BY Zenon, <1>1 DEF RunHandler, backupStateHandler, normalStateHandler, partnerDownStateHandler,
         readyStateHandler, syncingStateHandler, terminatedStateHandler, waitingStateHandler,
         HandlerFrame
    <2>3. enabled' = IF step[s] = "enter" THEN adjustNetworkState(s, enabled) ELSE enabled
      BY <1>1, HandlerEntry
    <2>4. ASSUME NEW r \in Active, r # s
          PROVE  curr'[r] = curr[r] /\ step'[r] = step[r] /\ (r \in enabled' <=> r \in enabled)
      BY <1>0, <2>1, <2>3, <2>4 DEF adjustNetworkState
    <2>5. ASSUME s \in Active, s \in up, curr'[s] \in EnabledStates, step'[s] # "enter"
          PROVE  s \in enabled' \cup delayed
      <3>1. curr[s] \in EnabledStates
        BY <1>0, <2>1, <2>5
      <3>2. CASE step[s] = "enter"
        BY <2>3, <3>1, <3>2 DEF adjustNetworkState
      <3>3. CASE step[s] # "enter"
        BY <1>a, <2>3, <2>5, <3>1, <3>3
      <3> QED BY <3>2, <3>3
    <2>6. Kept'
      BY <1>a, <2>2, <2>4, <2>5
    <2>7. Timed'
      BY <1>0, <1>a, <2>1, <2>2
    <2> QED BY Zenon, <1>b, <2>6, <2>7
  <1>2. ASSUME UNCHANGED <<up, curr, step, enabled, delayed, sync, stray>> PROVE ServiceInv'
    BY <1>2 DEF ServiceInv
  <1>3. ASSUME NEW s \in Server, Start(s) PROVE ServiceInv'
    BY <1>0, <1>3 DEF Start, ServiceInv
  <1>4. ASSUME NEW s \in Server, Timed
        PROVE  /\ LeavesStray(s) \in [Server -> SUBSET Strays]
               /\ \A r \in Active : "dhcp-disable-untimed" \notin LeavesStray(s)[r]
    BY Zenon, <1>0, <1>4 DEF LeavesStray
  <1>5. ASSUME NEW s \in Server, Crash(s) PROVE ServiceInv'
    <2>1. /\ up' = up \ {s} /\ curr' = [curr EXCEPT ![s] = "waiting"]
          /\ step' = [step EXCEPT ![s] = "idle"] /\ sync' = [sync EXCEPT ![s] = "idle"]
          /\ enabled' = enabled \cup {s} /\ delayed' = delayed \ {s}
          /\ stray' = [LeavesStray(s) EXCEPT ![s] = {}]
      BY Zenon, <1>5 DEF Crash
    <2>2. Timed'
      BY <1>0, <1>a, <1>4, <2>1
    <2>3. Kept'
      BY <1>0, <1>a, <2>1
    <2> QED BY Zenon, <1>b, <2>2, <2>3
  <1>6. ASSUME NEW s \in Active, NEW ok \in BOOLEAN, SyncContinues(s, ok),
               UNCHANGED <<up, enabled, delayed>>, stray' \in {stray, LeavesStray(s)}
        PROVE  ServiceInv'
    <2>1. \/ UNCHANGED <<curr, step>>
          \/ /\ curr[s] = "syncing" /\ step[s] = "run"
             /\ \/ curr' = [curr EXCEPT ![s] = curr[s]] /\ step' = [step EXCEPT ![s] = "idle"]
                \/ curr' = [curr EXCEPT ![s] = "ready"] /\ step' = [step EXCEPT ![s] = "enter"]
      BY <1>6, SyncCurr
    <2>2. \E x \in {"idle", "lease-get-all", "dhcp-enable"} : sync' = [sync EXCEPT ![s] = x]
      BY Zenon, <1>6 DEF SyncContinues, SyncSends, SyncReturns
    <2>3. Timed'
      BY <1>0, <1>a, <1>4, <1>6, <2>2
    <2>4. Kept'
      BY <1>0, <1>a, <1>6, <2>1
    <2> QED BY <1>b, <2>3, <2>4
  <1>7. ASSUME NEW s \in Active, Responsive(s), runModel(s),
               UNCHANGED <<up, curr, enabled, delayed, sync, stray>>
        PROVE  ServiceInv'
    BY <1>0, <1>7 DEF Responsive, runModel, ServiceInv
  <1>8. ASSUME NEW s \in Active, ExecuteSync(s) PROVE ServiceInv'
    <2>1. /\ dhcpCommand(Other(s), sync[s]) /\ Responsive(Other(s))
          /\ UNCHANGED <<up, curr, step, sync, stray>>
      BY <1>8 DEF ExecuteSync
    <2>2. Kept'
      BY Zenon, <1>a, <2>1, CommandService, OtherType
    <2> QED BY Zenon, <1>a, <1>b, <2>1, <2>2
  <1>9. ASSUME NEW s \in Server, ExecuteStray(s) PROVE ServiceInv'
    <2>1. PICK cmd \in stray[s] : /\ stray' = [stray EXCEPT ![s] = @ \ {cmd}]
                                  /\ dhcpCommand(s, cmd)
      BY Zenon, <1>9 DEF ExecuteStray
    <2>2. Responsive(s) /\ UNCHANGED <<up, curr, step, sync>>
      BY <1>9 DEF ExecuteStray
    <2>3. Timed'
      BY <1>0, <1>a, <2>1, <2>2
    <2>4. CASE s \in Active
      <3>1. Kept'
        BY Zenon, <1>a, <2>1, <2>2, <2>4, CommandService
      <3> QED BY Zenon, <1>b, <2>3, <3>1
    <2>5. CASE s \notin Active
      <3>1. \A r \in Active : /\ r \in enabled' <=> r \in enabled
                              /\ r \in delayed' <=> r \in delayed
        <4>1. enabled' \in {enabled \ {s}, adjustNetworkState(s, enabled), enabled}
          BY <2>1 DEF dhcpCommand
        <4>2. delayed' \in {delayed, delayed \cup {s}}
          BY <2>1 DEF dhcpCommand
        <4> QED BY Zenon, <2>5, <4>1, <4>2 DEF adjustNetworkState
      <3>2. Kept'
        BY Zenon, <1>a, <2>2, <3>1
      <3> QED BY Zenon, <1>b, <2>3, <3>2
    <2> QED BY <2>4, <2>5
  <1>10. ASSUME NEW s \in Server, commandDhcp(s) PROVE ServiceInv'
    <2>1. PICK cmd \in Admin \cap Strays : dhcpCommand(s, cmd)
      BY <1>10 DEF commandDhcp
    <2>2. Responsive(s) /\ UNCHANGED <<up, curr, step, sync, stray>> /\ cmd # "dhcp-disable-untimed"
      BY <1>10, <2>1 DEF commandDhcp
    <2>3. Kept'
      BY Zenon, <2>1, <2>2, CommandService
    <2> QED BY Zenon, <1>a, <1>b, <2>2, <2>3
  <1>11. ASSUME NEW s \in Server, processScopes(s) PROVE ServiceInv'
    BY Zenon, <1>11 DEF processScopes, adjustNetworkState, ServiceInv
  <1>12. ASSUME NEW s \in Server, enableAll(s) PROVE ServiceInv'
    BY Zenon, <1>12 DEF enableAll, ServiceInv
  <1> QED
    <2>1. ASSUME NEW s \in Server, Command(s) PROVE ServiceInv'
      BY <1>2, <1>10, <1>11, <2>1 DEF Command, processContinue, processSynchronize
    <2>2. ASSUME NEW s \in Active, SyncSucceeds(s) \/ SyncFails(s) PROVE ServiceInv'
      BY Zenon, <1>6, <2>2 DEF SyncSucceeds, SyncFails
    <2>3. ASSUME NEW s \in Active, HeartbeatSucceeds(s) \/ HeartbeatFails(s) \/ BackupUpdatesComplete(s)
          PROVE  ServiceInv'
      BY Zenon, <1>7, <2>3 DEF HeartbeatSucceeds, HeartbeatFails, HeartbeatCallback, BackupUpdatesComplete
    <2>4. ASSUME NEW s \in Active, LeaseUpdateSucceeds(s) \/ LeaseUpdateFails(s) PROVE ServiceInv'
      BY Zenon, <1>2, <1>7, <2>4 DEF LeaseUpdateSucceeds, LeaseUpdateFails, LeaseUpdateCallback
    <2>5. ASSUME NEW s \in Active, asyncSendHeartbeat(s) \/ ExecuteRequest(s) \/ ResponseDelayElapses(s)
          PROVE  ServiceInv'
      BY Zenon, <1>2, <2>5 DEF asyncSendHeartbeat, ExecuteRequest, ResponseDelayElapses
    <2>6. ASSUME NEW s \in Active, NEW c \in Clients, ReceiveQuery(s, c) PROVE ServiceInv'
      BY Zenon, <1>2, <2>6 DEF ReceiveQuery, inScope, analyzeMessage
    <2>7. CASE Stabilize \/ UNCHANGED vars
      BY <1>2, <2>7 DEF Stabilize, vars
    <2> QED BY <1>1, <1>3, <1>5, <1>8, <1>9, <1>12, <2>1, <2>2, <2>3, <2>4, <2>5, <2>6, <2>7
            DEF Next, Completion

\* A server in a state that serves is never left disabled without a timer, wherever
\* its partner's synchronization breaks off and however late its commands arrive,
\* as long as nobody sends a dhcp-disable without a max-period.
THEOREM DisabledOnlyForAWhile ==
  ASSUME Admin \cap {"ha-sync", "dhcp-disable-untimed"} = {}
  PROVE  Spec => []DisabledIsTemporary
  <1>1. Init => ServiceInv
    BY Zenon, ServersAssumption DEF Init, ServiceInv, EnabledStates
  <1>2. IInv /\ ServiceInv /\ [Next]_vars => ServiceInv'
    BY NextService
  <1>3. IInv /\ ServiceInv => DisabledIsTemporary
    BY Zenon DEF IInv, SyncInv, ServiceInv, DisabledIsTemporary, Running
  <1> QED BY Invariance, <1>1, <1>2, <1>3, PTL DEF Spec

----------------------------------------------------------------------------
\* A server that resumes, or may resume, normal operation without the leases of its
\* partner: it has done so, it is about to because it heard in the partner-down state
\* that the partner is ready, or such an answer waits for it. A server that is ready
\* itself, and at rest, takes the answer before its state machine runs again.
Alone(s) ==
    \/ curr[s] = NormalState /\ s \notin fetched
    \/ curr[s] = "partner-down" /\ partner[s] = "ready"
    \/ answer[s] = "ready" /\ ~(curr[s] = "ready" /\ step[s] = "idle")

AloneInv == owed = {} /\ \E s \in Active : ~Alone(s)

\* A server is in the same position when nothing of it changes, and its lease
\* synchronization does not make it worse.
LEMMA AloneFrame ==
  ASSUME NEW r \in Active, ~Alone(r), curr'[r] = curr[r], step'[r] = step[r],
         partner'[r] = partner[r] \/ partner'[r] # "ready",
         answer'[r] = answer[r] \/ answer'[r] # "ready", r \in fetched => r \in fetched'
  PROVE  ~Alone(r)'
  BY Zenon DEF Alone, NormalState

\* A handler runs in a server that is not waiting for anything, and changes its own state.
LEMMA HandlerMoves ==
  ASSUME IInv, NEW s \in Server, RunHandler(s)
  PROVE  Running(s) /\ \E t, x : curr' = [curr EXCEPT ![s] = t] /\ step' = [step EXCEPT ![s] = x]
  <1>1. TypeOK /\ ProcessInv
    BY Zenon DEF IInv
  <1>2. Running(s)
    BY <1>1, HandlerEffect
  <1>3. PICK t : /\ curr' = [curr EXCEPT ![s] = t]
                 /\ \/ step' = [step EXCEPT ![s] = IF t = curr[s] THEN "idle" ELSE "enter"]
                    \/ step' = [step EXCEPT ![s] = "run"]
    BY <1>1, HandlerEffect
  <1> QED BY Zenon, <1>2, <1>3

\* A handler leads to normal operation from the ready state, or from partner-down when
\* the partner is ready, and to partner-down when the partner is unavailable.
LEMMA HandlerResumes ==
  ASSUME IInv, NEW s \in Active, RunHandler(s)
  PROVE  /\ UNCHANGED <<partner, answer>>
         /\ fetched' = fetched \/ fetched' = fetched \ {s}
         /\ curr'[s] = NormalState =>
              \/ curr[s] \in {NormalState, "ready"} /\ fetched' = fetched
              \/ curr[s] = "partner-down" /\ partner[s] = "ready"
         /\ curr'[s] = "partner-down" => curr[s] = "partner-down" \/ partner[s] = "unavailable"
  <1>0. /\ curr \in [Server -> States] /\ s \notin Backups /\ s \in Server
        /\ Mode \in {"load-balancing", "hot-standby"}
    BY Zenon, ServersAssumption, ConfigAssumption DEF IInv, TypeOK
  <1>1. ASSUME NEW t, verboseTransition(s, t) PROVE curr'[s] = t
    BY <1>0, <1>1 DEF verboseTransition
  <1>2. CASE backupStateHandler(s)
    BY Zenon, <1>0, <1>1, <1>2 DEF backupStateHandler, HandlerFrame, NormalState
  <1>3. CASE normalStateHandler(s)
    <2>1. /\ normalNext(s) = NormalState => curr[s] = NormalState
          /\ normalNext(s) = "partner-down" => partner[s] = "unavailable"
      BY <1>0, <1>3 DEF normalStateHandler, normalNext, Unless, NormalState
    <2> QED BY Zenon, <1>1, <1>3, <2>1 DEF normalStateHandler, HandlerFrame
  <1>4. CASE partnerDownStateHandler(s)
    <2>1. partnerDownNext(s) = NormalState => partner[s] = "ready"
      BY <1>0, <1>4 DEF partnerDownStateHandler, partnerDownNext, Unless, NormalState
    <2> QED BY Zenon, <1>1, <1>4, <2>1 DEF partnerDownStateHandler, HandlerFrame
  <1>5. CASE readyStateHandler(s)
    <2>1. readyNext(s) = "partner-down" => partner[s] = "unavailable"
      BY <1>0, <1>5 DEF readyStateHandler, readyNext, Unless, NormalState
    <2> QED BY Zenon, <1>1, <1>5, <2>1 DEF readyStateHandler, HandlerFrame
  <1>6. CASE syncingStateHandler(s)
    <2>1. curr[s] = "syncing" /\ UNCHANGED <<partner, answer>>
      BY Zenon, <1>6 DEF syncingStateHandler, HandlerFrame
    <2>2. CASE SyncStarts(s)
      BY <1>0, <1>6, <2>1, <2>2 DEF syncingStateHandler, NormalState
    <2>3. CASE ~SyncStarts(s)
      <3>1. /\ syncingNext(s) # NormalState
            /\ syncingNext(s) = "partner-down" => partner[s] = "unavailable"
        BY <1>0, <2>1 DEF syncingNext, Unless, NormalState
      <3> QED BY Zenon, <1>1, <1>6, <2>1, <2>3, <3>1 DEF syncingStateHandler
    <2> QED BY Zenon, <2>2, <2>3
  <1>7. CASE terminatedStateHandler(s)
    BY Zenon, <1>0, <1>1, <1>7 DEF terminatedStateHandler, HandlerFrame, NormalState
  <1>8. CASE waitingStateHandler(s)
    <2>1. /\ waitingNext(s) # NormalState
          /\ waitingNext(s) = "partner-down" => partner[s] = "unavailable"
      BY <1>0, <1>8 DEF waitingStateHandler, waitingNext, AfterWaiting, Unless, NormalState
    <2> QED BY Zenon, <1>1, <1>8, <2>1 DEF waitingStateHandler, HandlerFrame
  <1> QED BY Zenon, <1>2, <1>3, <1>4, <1>5, <1>6, <1>7, <1>8 DEF RunHandler

\* Only the answer of a partner that is ready puts a server in that position.
LEMMA BecomesAlone ==
  ASSUME IInv, FetchInv, owed = {}, [Next]_vars, NEW r \in Active, ~Alone(r), Alone(r)'
  PROVE  ExecuteRequest(r) /\ curr[Other(r)] = "ready"
  <1>0. /\ curr \in [Server -> States] /\ step \in [Server -> {"idle", "enter", "run"}]
        /\ partner \in [Server -> PartnerStates] /\ answer \in [Server -> States \cup {"none", "ok"}]
        /\ r \in Server /\ Mode \in {"load-balancing", "hot-standby"}
    BY Zenon, ConfigAssumption DEF IInv, TypeOK
  <1>1. ASSUME NEW s \in Active, RunHandler(s) PROVE FALSE
    <2>1. /\ UNCHANGED <<partner, answer>>
          /\ fetched' = fetched \/ fetched' = fetched \ {s}
          /\ curr'[s] = NormalState =>
               \/ curr[s] \in {NormalState, "ready"} /\ fetched' = fetched
               \/ curr[s] = "partner-down" /\ partner[s] = "ready"
          /\ curr'[s] = "partner-down" => curr[s] = "partner-down" \/ partner[s] = "unavailable"
      BY Zenon, <1>1, HandlerResumes
    <2>2. Running(s) /\ \E t, x : curr' = [curr EXCEPT ![s] = t] /\ step' = [step EXCEPT ![s] = x]
      BY Zenon, <1>1, HandlerMoves
    <2>3. CASE s # r
      <3>1. curr'[r] = curr[r] /\ step'[r] = step[r] /\ (r \in fetched => r \in fetched')
        BY Zenon, <1>0, <2>1, <2>2, <2>3
      <3> QED BY Zenon, <2>1, <3>1, AloneFrame
    <2>4. CASE s = r
      <3>1. answer[r] # "ready"
        BY Zenon, <2>2, <2>4 DEF Running, Alone
      <3>2. ~(curr'[r] = NormalState /\ r \notin fetched')
        BY Zenon, <2>1, <2>4 DEF Alone, FetchInv
      <3>3. ~(curr'[r] = "partner-down" /\ partner[r] = "ready")
        BY Zenon, <2>1, <2>4 DEF Alone
      <3> QED BY Zenon, <2>1, <3>1, <3>2, <3>3 DEF Alone, NormalState
    <2> QED BY <2>3, <2>4
  <1>2. ASSUME NEW s \in Server, s \notin Active, RunHandler(s) PROVE FALSE
    <2>1. \E t, x : curr' = [curr EXCEPT ![s] = t] /\ step' = [step EXCEPT ![s] = x]
      BY Zenon, <1>2, HandlerMoves
    <2>2. /\ UNCHANGED <<partner, answer>>
          /\ fetched' = fetched \/ fetched' = fetched \ {s}
      BY Zenon, <1>2 DEF RunHandler, backupStateHandler, normalStateHandler, partnerDownStateHandler,
         readyStateHandler, syncingStateHandler, terminatedStateHandler, waitingStateHandler,
         HandlerFrame
    <2>3. s # r
      BY <1>2
    <2>4. curr'[r] = curr[r] /\ step'[r] = step[r] /\ (r \in fetched => r \in fetched')
      BY <1>0, <2>1, <2>2, <2>3
    <2> QED BY Zenon, <2>2, <2>4, AloneFrame
  <1>3. ASSUME NEW s \in Server, Crash(s) PROVE FALSE
    <2>1. /\ curr' = [curr EXCEPT ![s] = "waiting"] /\ step' = [step EXCEPT ![s] = "idle"]
          /\ partner' = [partner EXCEPT ![s] = "unknown"]
          /\ answer' = [answer EXCEPT ![s] = "none"] /\ fetched' = fetched \ {s}
      BY Zenon, <1>3 DEF Crash
    <2>2. CASE s # r
      <3>1. /\ curr'[r] = curr[r] /\ step'[r] = step[r] /\ partner'[r] = partner[r]
            /\ answer'[r] = answer[r] /\ (r \in fetched => r \in fetched')
        BY <1>0, <2>1, <2>2
      <3> QED BY Zenon, <3>1, AloneFrame
    <2>3. CASE s = r
      <3>1. curr'[r] = "waiting" /\ answer'[r] = "none"
        BY <1>0, <2>1, <2>3
      <3> QED BY Zenon, <1>0, <3>1 DEF Alone, NormalState
    <2> QED BY <2>2, <2>3
  <1>4. ASSUME NEW s \in Server, Start(s) PROVE FALSE
    <2>1. /\ step' = [step EXCEPT ![s] = "enter"] /\ UNCHANGED <<curr, partner, answer, fetched>>
          /\ s \notin up
      BY <1>4 DEF Start
    <2>2. CASE s # r
      <3>1. step'[r] = step[r]
        BY <1>0, <2>1, <2>2
      <3> QED BY Zenon, <2>1, <3>1, AloneFrame
    <2>3. CASE s = r
      <3>1. answer[r] = "none"
        BY Zenon, <2>1, <2>3 DEF IInv, ProcessInv
      <3> QED BY <2>1, <3>1 DEF Alone, NormalState
    <2> QED BY <2>2, <2>3
  <1>5. ASSUME NEW s \in Active, SyncSucceeds(s) \/ SyncFails(s) PROVE FALSE
    <2>1. PICK ok \in BOOLEAN : SyncContinues(s, ok)
      BY Zenon, <1>5 DEF SyncSucceeds, SyncFails
    <2>2. /\ UNCHANGED answer /\ fetched \subseteq fetched'
          /\ UNCHANGED partner \/ partner' = [partner EXCEPT ![s] = "unavailable"]
      BY Zenon, <1>5 DEF SyncSucceeds, SyncFails
    <2>3. partner'[r] = partner[r] \/ partner'[r] # "ready"
      BY <1>0, <2>2
    <2>4. \/ UNCHANGED <<curr, step>>
          \/ /\ curr[s] = "syncing" /\ step[s] = "run"
             /\ \/ curr' = [curr EXCEPT ![s] = curr[s]] /\ step' = [step EXCEPT ![s] = "idle"]
                \/ curr' = [curr EXCEPT ![s] = "ready"] /\ step' = [step EXCEPT ![s] = "enter"]
      BY <2>1, SyncCurr
    <2>5. CASE curr'[r] = curr[r] /\ step'[r] = step[r]
      BY Zenon, <2>2, <2>3, <2>5, AloneFrame
    <2>6. CASE s = r /\ curr[r] = "syncing" /\ step[r] = "run" /\ curr'[r] \in {"syncing", "ready"}
      <3>1. answer[r] # "ready"
        BY <2>6 DEF Alone
      <3> QED BY Zenon, <1>0, <2>2, <2>6, <3>1 DEF Alone, NormalState
    <2> QED BY <1>0, <2>4, <2>5, <2>6
  <1>6. ASSUME NEW s \in Active, RequestDone(s), UNCHANGED <<curr, fetched>>,
               \/ UNCHANGED partner
               \/ partner' = [partner EXCEPT ![s] = "unavailable"]
               \/ partner' = [partner EXCEPT ![s] = answer[s]],
               UNCHANGED step \/ runModel(s)
        PROVE  FALSE
    <2>1. answer' = [answer EXCEPT ![s] = "none"]
      BY <1>6 DEF RequestDone
    <2>2. CASE s # r
      <3>1. step'[r] = step[r] /\ partner'[r] = partner[r] /\ answer'[r] = answer[r]
        BY <1>0, <1>6, <2>1, <2>2 DEF runModel
      <3> QED BY Zenon, <1>6, <3>1, AloneFrame
    <2>3. CASE s = r
      <3>1. answer'[r] = "none" /\ partner'[r] \in {partner[r], "unavailable", answer[r]}
        BY <1>0, <1>6, <2>1, <2>3
      <3> QED BY Zenon, <1>6, <3>1 DEF Alone, NormalState
    <2> QED BY <2>2, <2>3
  <1>7. ASSUME NEW s \in Active, ExecuteRequest(s)
        PROVE  s = r /\ curr[Other(r)] = "ready"
    <2>1. /\ UNCHANGED <<curr, step, partner, fetched>>
          /\ answer' = [answer EXCEPT ![s] =
                           IF Head(queue[s]) = "ha-heartbeat" THEN curr[Other(s)] ELSE "ok"]
      BY Zenon, <1>7 DEF ExecuteRequest
    <2>2. s = r /\ answer'[r] = "ready"
      BY <1>0, <2>1, AloneFrame
    <2> QED BY <1>0, <2>1, <2>2
  <1>8. ASSUME UNCHANGED <<curr, step, partner, answer, fetched>> PROVE FALSE
    BY <1>8, AloneFrame
  <1> QED
    <2>1. ASSUME NEW s \in Server, Command(s) \/ enableAll(s) \/ ExecuteStray(s) PROVE FALSE
      BY Zenon, <1>8, <2>1 DEF Command, processContinue, processScopes, processSynchronize,
         commandDhcp, enableAll, ExecuteStray
    <2>2. ASSUME NEW s \in Active, HeartbeatSucceeds(s) \/ HeartbeatFails(s) PROVE FALSE
      BY Zenon, <1>6, <2>2 DEF HeartbeatSucceeds, HeartbeatFails, HeartbeatCallback
    <2>3. ASSUME NEW s \in Active, LeaseUpdateSucceeds(s) \/ LeaseUpdateFails(s) PROVE FALSE
      BY Zenon, <1>6, <2>3 DEF LeaseUpdateSucceeds, LeaseUpdateFails, LeaseUpdateCallback
    <2>4. ASSUME NEW s \in Active, asyncSendHeartbeat(s) \/ ExecuteSync(s) \/ ResponseDelayElapses(s)
          PROVE  FALSE
      BY Zenon, <1>8, <2>4 DEF asyncSendHeartbeat, ExecuteSync, ResponseDelayElapses
    <2>5. ASSUME NEW s \in Active, NEW c \in Clients, ReceiveQuery(s, c) PROVE FALSE
      BY Zenon, <1>8, <2>5 DEF ReceiveQuery, inScope, analyzeMessage
    <2>6. ~(Stabilize \/ UNCHANGED vars)
      BY Zenon, <1>8 DEF Stabilize, vars
    <2>7. \A s \in Active : ~BackupUpdatesComplete(s)
      BY DEF BackupUpdatesComplete
    <2>8. \E s \in Active : ExecuteRequest(s)
      BY Zenon, <1>1, <1>2, <1>3, <1>4, <1>5, <2>1, <2>2, <2>3, <2>4, <2>5, <2>6, <2>7
      DEF Next, Completion
    <2> QED BY <1>7, <2>8

\* No update to a backup server is outstanding when there is none to be sent.
LEMMA NothingOwed ==
  ASSUME Backups = {} \/ "send-lease-updates" \notin Options, owed = {}, [Next]_vars
  PROVE  owed' = {}
  <1>1. \A s \in Server : RunHandler(s) => UNCHANGED owed
    BY Zenon DEF RunHandler, backupStateHandler, normalStateHandler, partnerDownStateHandler,
       readyStateHandler, syncingStateHandler, terminatedStateHandler, waitingStateHandler,
       HandlerFrame
  <1>2. \A s \in Server : Command(s) \/ Start(s) \/ enableAll(s) \/ ExecuteStray(s) => UNCHANGED owed
    BY Zenon DEF Command, processContinue, processScopes, processSynchronize, commandDhcp, Start,
       enableAll, ExecuteStray
  <1>3. \A s \in Server : Crash(s) => owed' = owed \ {s}
    BY Zenon DEF Crash
  <1>4. \A s \in Active : Completion(s) => UNCHANGED owed
    BY Zenon DEF Completion, SyncSucceeds, SyncFails, HeartbeatSucceeds, HeartbeatFails,
       HeartbeatCallback, LeaseUpdateSucceeds, LeaseUpdateFails, LeaseUpdateCallback,
       BackupUpdatesComplete
  <1>5. \A s \in Active : ExecuteSync(s) \/ ExecuteRequest(s) \/ asyncSendHeartbeat(s)
                          \/ ResponseDelayElapses(s) => UNCHANGED owed
    BY Zenon DEF ExecuteSync, ExecuteRequest, asyncSendHeartbeat, ResponseDelayElapses
  <1>6. \A s \in Active, c \in Clients : ReceiveQuery(s, c) => UNCHANGED owed
    BY DEF ReceiveQuery
  <1>7. Stabilize \/ UNCHANGED vars => UNCHANGED owed
    BY DEF Stabilize, vars
  <1> QED BY Zenon, <1>1, <1>2, <1>3, <1>4, <1>5, <1>6, <1>7 DEF Next

\* When both servers are in normal operation one of them has the leases of the other,
\* whatever answers are late, requests fail and processes die: two servers that were on
\* their own do not both resume without a synchronization (partnerDownStateHandler,
\* readyStateHandler). The completion of an update to a backup server, which runs the
\* state machine while an answer of the partner waits, is left out.
THEOREM NormalWithLeases ==
  ASSUME Backups = {} \/ "send-lease-updates" \notin Options
  PROVE  Spec => []NormalMeansFetched
  <1>0. Primary \in Active /\ Mode \notin {"waiting", "ready"}
    BY ConfigAssumption
  <1>1. CASE "sync-leases" \in Options
    <2>1. Init => FetchInv /\ AloneInv
      <3>1. Init => ~Alone(Primary)
        BY Zenon, <1>0 DEF Init, Alone, NormalState
      <3>2. Init => owed = {}
        BY Zenon DEF Init
      <3>3. Init => FetchInv
        BY DEF Init, FetchInv
      <3> QED BY Zenon, <1>0, <3>1, <3>2, <3>3 DEF AloneInv
    <2>2. IInv /\ FetchInv /\ AloneInv /\ [Next]_vars => AloneInv'
      <3> SUFFICES ASSUME IInv, FetchInv, AloneInv, [Next]_vars PROVE AloneInv'
        OBVIOUS
      <3>1. owed' = {}
        BY NothingOwed DEF AloneInv
      <3>2. PICK r \in Active : ~Alone(r)
        BY DEF AloneInv
      <3>3. CASE Alone(r)'
        <4>1. ExecuteRequest(r) /\ curr[Other(r)] = "ready"
          BY <3>2, <3>3, BecomesAlone DEF AloneInv
        <4>2. /\ curr'[Other(r)] = "ready" /\ step'[Other(r)] = "idle"
          BY Zenon, <4>1 DEF ExecuteRequest, Responsive
        <4>3. ~Alone(Other(r))'
          BY <1>0, <4>2, OtherType DEF Alone, Other, NormalState
        <4> QED BY <3>1, <4>3, OtherType DEF AloneInv, Other
      <3>4. CASE ~Alone(r)'
        BY <3>1, <3>4 DEF AloneInv
      <3> QED BY <3>3, <3>4
    <2>3. IInv /\ FetchInv /\ [Next]_vars => FetchInv'
      BY <1>1, NextFetch
    <2>4. AloneInv => NormalMeansFetched
      BY Zenon DEF AloneInv, Alone, NormalMeansFetched
    <2> QED BY Invariance, <2>1, <2>2, <2>3, <2>4, PTL DEF Spec
  <1>2. CASE "sync-leases" \notin Options
    <2>1. NormalMeansFetched
      BY <1>2 DEF NormalMeansFetched
    <2> QED BY <2>1, PTL
  <1> QED BY <1>1, <1>2
=============================================================================
