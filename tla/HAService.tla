----------------------------- MODULE HAService -----------------------------
(***************************************************************************)
(* The high availability hook library: two active DHCP servers, and any    *)
(* number of backup servers, each running the HAService state machine on   *)
(* top of StateModel.  Modelled here: the state handlers, the heartbeat    *)
(* timer and its request, the blocking lease database synchronization, the *)
(* lease update traffic as far as the state machine sees it, the scopes of *)
(* the query filter, the DHCP service switch with its delayed-enable       *)
(* timer, the control commands, process crashes and restarts, and requests *)
(* that fail, are answered late, or are executed after the client gave up. *)
(*                                                                         *)
(* A server process is single threaded.  It is "responsive" when it is     *)
(* neither inside runModel nor blocked in synchronize, which runs an IO    *)
(* service of its own; only then does it take packets, timers, commands    *)
(* and HTTP completions.  Booleans are kept as sets of servers.            *)
(***************************************************************************)
EXTENDS Integers, Sequences, FiniteSets

CONSTANTS
    Primary,        \* the active server with the role "primary"
    Secondary,      \* the other active server: "secondary" or "standby"
    Backups,        \* the servers with the role "backup"
    Mode,           \* "load-balancing" or "hot-standby"
    Options,        \* which of sync-leases and send-lease-updates are on
    AutoFailover,   \* the active servers with auto-failover
    PauseAlways,    \* the states with pause "always", on every server
    PauseOnce,      \* the states with pause "once"
    Clients,        \* the DHCP clients
    Owner,          \* the server loadBalance picks for a client
    MaxUnacked,     \* the max-unacked-clients parameter
    Faults,         \* which of "loss", "crash", "skew" and "slow" (a lease
                    \* synchronization longer than max-response-delay) may
                    \* happen, and whether the network may "recover"
    Admin,          \* the control commands an administrator may send
    MaxCrashes,     \* bound on the number of crashes
    MaxStray,       \* bound on the commands waiting to be executed late
    MaxQueue        \* bound on the requests queued to the partner

Active == {Primary, Secondary}
Server == Active \cup Backups

States == {"waiting", "syncing", "ready", "load-balancing", "hot-standby",
           "partner-down", "terminated", "backup"}
PartnerStates == (States \ {"backup"}) \cup {"unknown", "unavailable"}

Requests == {"ha-heartbeat", "lease-update"}
SyncPhases == {"idle", "dhcp-disable", "dhcp-disable-untimed", "lease-get-all",
               "dhcp-enable"}
Strays == {"dhcp-disable", "dhcp-disable-untimed", "dhcp-enable"}

ASSUME ServersAssumption ==
    /\ Primary # Secondary
    /\ Active \cap Backups = {}

ASSUME ConfigAssumption ==
    /\ Mode \in {"load-balancing", "hot-standby"}
    /\ Options \subseteq {"sync-leases", "send-lease-updates"}
    /\ AutoFailover \subseteq Active
    /\ PauseAlways \subseteq States
    /\ PauseOnce \subseteq States
    /\ Owner \in [Clients -> Active]
    /\ Mode = "hot-standby" => \A c \in Clients : Owner[c] = Primary
    /\ MaxUnacked \in Nat
    /\ MaxCrashes \in Nat
    /\ MaxStray \in Nat
    /\ MaxQueue \in Nat \ {0}

VARIABLES
    up,         \* the servers whose process runs
    curr,       \* curr_state_ of the state model
    step,       \* where runModel stands: "idle", "enter" a new state, "run"
    paused,     \* paused_
    pauses,     \* the states that pause the model when they are entered
    partner,    \* partner_state_ of the communication state
    silent,     \* isCommunicationInterrupted()
    unacked,    \* unacked_clients_
    skewed,     \* clockSkewShouldTerminate()
    scopes,     \* the scopes the query filter serves
    enabled,    \* isServiceEnabled() of the network state
    delayed,    \* isDelayedEnableAll(): the delayed-enable timer is armed
    hbTimer,    \* timer_: "none", "armed", or "fired" and not yet set up again
    queue,      \* the requests of the HTTP client to the partner, oldest first
    answer,     \* the partner's answer to the oldest one, "none" before it
    sync,       \* the request synchronize() is waiting for
    reply,      \* "sent", "done" when the partner executed it, or "idle"
    failed,     \* synchronize() recorded an error
    fetched,    \* history: the leases of the partner were fetched since the
                \* server started, or was last in the partner-down state
    owed,       \* lease updates to the backup servers are not complete
    stray,      \* commands a server has yet to execute for nobody
    crashes,    \* crashes so far
    net         \* "lossy", or "reliable" for good

modelVars == <<curr, step, paused, pauses>>
commVars == <<partner, silent, unacked, skewed>>
serviceVars == <<scopes, enabled, delayed>>
requestVars == <<queue, answer, owed>>
syncVars == <<sync, reply, failed, fetched>>
worldVars == <<up, stray, crashes, net>>
vars == <<modelVars, commVars, serviceVars, hbTimer, requestVars, syncVars,
          worldVars>>

Other(s) == IF s = Primary THEN Secondary ELSE Primary

Running(s) == s \in up /\ step[s] # "idle" /\ sync[s] = "idle"

\* Mutant: synchronize() runs the IO service of the server instead of its own.
ResponsiveWhileSyncing(s) == s \in up /\ ~Running(s)

Responsive(s) == s \in up /\ step[s] = "idle" /\ sync[s] = "idle"

\* A request of s may fail: the network loses it or its answer, the partner
\* process is down, or it is blocked in synchronize() for too long.
MayFail(s) ==
    \/ net = "lossy"
    \/ Other(s) \notin up
    \/ sync[Other(s)] # "idle"

----------------------------------------------------------------------------
(* The query filter: the scopes a server is responsible for.               *)

\* Mutant: the default scopes are the failover scopes.
serveAllScopes(s) == IF Mode = "load-balancing" THEN Active ELSE {Primary}

serveDefaultScopes(s) ==
    IF s = Primary \/ (s = Secondary /\ Mode = "load-balancing")
    THEN {s} ELSE {}

serveFailoverScopes ==
    IF Mode = "load-balancing" THEN Active ELSE {Primary}

(* The network state.                                                      *)

EnabledStates == {"load-balancing", "hot-standby", "partner-down", "terminated"}

\* Mutant: the service is disabled when the state calls for it, and never enabled.
disableNetworkState(s, on) == IF curr[s] \in EnabledStates THEN on ELSE on \ {s}

adjustNetworkState(s, on) ==
    IF curr[s] \in EnabledStates THEN on \cup {s} ELSE on \ {s}

(* The communication state.                                                *)

failureDetected(s) == MaxUnacked = 0 \/ Cardinality(unacked[s]) > MaxUnacked

poke(s) ==
    /\ silent' = silent \ {s}
    /\ unacked' = [unacked EXCEPT ![s] = {}]

startHeartbeat(s, timers) == [timers EXCEPT ![s] = "armed"]

scheduleHeartbeat(s, timers) ==
    IF timers[s] = "none" THEN startHeartbeat(s, timers) ELSE timers

----------------------------------------------------------------------------
(* The state model: a handler either stays in its state, which posts       *)
(* NOP_EVT and ends runModel, or makes a transition, after which runModel  *)
(* invokes the handler of the new state.                                   *)

verboseTransition(s, t) ==
    /\ curr' = [curr EXCEPT ![s] = t]
    /\ IF t = curr[s]
       THEN /\ step' = [step EXCEPT ![s] = "idle"]
            /\ UNCHANGED <<paused, pauses>>
       ELSE /\ step' = [step EXCEPT ![s] = "enter"]
            /\ IF s \notin paused /\ t \in pauses[s]
               THEN /\ paused' = paused \cup {s}
                    /\ pauses' = [pauses EXCEPT ![s] = (@ \ {t}) \cup PauseAlways]
               ELSE UNCHANGED <<paused, pauses>>

runModel(s) == step' = [step EXCEPT ![s] = "run"]

\* Mutant: a new state switches the service, but leaves the scopes as they are.
OnEntryServiceOnly(s, sc) ==
    /\ enabled' = IF step[s] = "enter" THEN adjustNetworkState(s, enabled) ELSE enabled
    /\ UNCHANGED scopes

\* What a handler does when doOnEntry() holds.
OnEntry(s, sc) ==
    IF step[s] = "enter"
    THEN /\ scopes' = [scopes EXCEPT ![s] = sc]
         /\ enabled' = adjustNetworkState(s, enabled)
    ELSE UNCHANGED <<scopes, enabled>>

\* The service is looked up after the entry actions of the handler.
ServiceOn(s) ==
    IF step[s] = "enter" THEN curr[s] \in EnabledStates ELSE s \in enabled

shouldPartnerDown(s) ==
    /\ s \in silent
    /\ (ServiceOn(s) /\ (Mode = "load-balancing" \/ s = Secondary))
          => failureDetected(s)

NormalState == Mode

\* The common start of the handlers: a paused model stays where it is, a clock
\* skew terminates, and only then the partner's state t decides.
Unless(s, t) ==
    IF s \in paused THEN curr[s] ELSE IF s \in skewed THEN "terminated" ELSE t

normalNext(s) == Unless(s,
    CASE partner[s] = "partner-down" -> "waiting"
      [] partner[s] = "terminated" -> "terminated"
      [] partner[s] = "unavailable" /\ shouldPartnerDown(s) -> "partner-down"
      [] OTHER -> curr[s])

\* Mutant: a server that was on its own resumes normal operation with a partner
\* that never noticed, without a synchronization.
partnerDownNextResumes(s) == Unless(s,
    CASE partner[s] \in {"hot-standby", "load-balancing", "ready"} -> NormalState
      [] partner[s] = "partner-down" -> "waiting"
      [] partner[s] = "terminated" -> "terminated"
      [] OTHER -> curr[s])

partnerDownNext(s) == Unless(s,
    CASE partner[s] \in {"hot-standby", "load-balancing", "partner-down"} -> "waiting"
      [] partner[s] = "ready" -> NormalState
      [] partner[s] = "terminated" -> "terminated"
      [] OTHER -> curr[s])

readyNext(s) == Unless(s,
    CASE partner[s] \in {"hot-standby", "load-balancing"} -> partner[s]
      [] partner[s] = "ready" /\ s = Primary -> NormalState
      [] partner[s] = "terminated" -> "terminated"
      [] partner[s] = "unavailable" /\ shouldPartnerDown(s) -> "partner-down"
      [] OTHER -> curr[s])

syncingNext(s) == Unless(s,
    CASE partner[s] = "terminated" -> "terminated"
      [] partner[s] = "unavailable" /\ shouldPartnerDown(s) -> "partner-down"
      [] OTHER -> curr[s])

AfterWaiting == IF "sync-leases" \in Options THEN "syncing" ELSE "ready"

\* Mutant: the primary server, too, waits for a partner that waits.
waitingNextBothWait(s) ==
    IF s \in Backups THEN IF s \in paused THEN curr[s] ELSE "backup"
    ELSE Unless(s,
    CASE partner[s] \in {"hot-standby", "load-balancing", "partner-down", "ready"}
            -> AfterWaiting
      [] partner[s] = "terminated" -> "terminated"
      [] partner[s] = "unavailable" /\ shouldPartnerDown(s) -> "partner-down"
      [] OTHER -> curr[s])

waitingNext(s) ==
    IF s \in Backups THEN IF s \in paused THEN curr[s] ELSE "backup"
    ELSE Unless(s,
    CASE partner[s] \in {"hot-standby", "load-balancing", "partner-down", "ready"}
            -> AfterWaiting
      [] partner[s] = "waiting" /\ s = Primary -> AfterWaiting
      [] partner[s] = "terminated" -> "terminated"
      [] partner[s] = "unavailable" /\ shouldPartnerDown(s) -> "partner-down"
      [] OTHER -> curr[s])

----------------------------------------------------------------------------
(* The state handlers.                                                     *)

HandlerFrame == UNCHANGED <<commVars, delayed, requestVars, worldVars>>

backupStateHandler(s) ==
    /\ Running(s) /\ curr[s] = "backup"
    /\ OnEntry(s, {})
    /\ verboseTransition(s, curr[s])
    /\ HandlerFrame /\ UNCHANGED <<hbTimer, syncVars>>

normalStateHandler(s) ==
    /\ Running(s) /\ curr[s] \in {"load-balancing", "hot-standby"}
    /\ OnEntry(s, serveDefaultScopes(s))
    /\ hbTimer' = scheduleHeartbeat(s, hbTimer)
    /\ verboseTransition(s, normalNext(s))
    /\ HandlerFrame /\ UNCHANGED syncVars

partnerDownStateHandler(s) ==
    /\ Running(s) /\ curr[s] = "partner-down"
    /\ OnEntry(s, IF s \in AutoFailover THEN serveFailoverScopes
                                        ELSE serveDefaultScopes(s))
    /\ hbTimer' = scheduleHeartbeat(s, hbTimer)
    /\ verboseTransition(s, partnerDownNext(s))
    /\ fetched' = fetched \ {s}
    /\ HandlerFrame /\ UNCHANGED <<sync, reply, failed>>

readyStateHandler(s) ==
    /\ Running(s) /\ curr[s] = "ready"
    /\ OnEntry(s, {})
    /\ hbTimer' = scheduleHeartbeat(s, hbTimer)
    /\ verboseTransition(s, readyNext(s))
    /\ HandlerFrame /\ UNCHANGED syncVars

waitingStateHandler(s) ==
    /\ Running(s) /\ curr[s] = "waiting"
    /\ OnEntry(s, {})
    /\ hbTimer' = IF s \in Backups THEN hbTimer ELSE scheduleHeartbeat(s, hbTimer)
    /\ verboseTransition(s, waitingNext(s))
    /\ HandlerFrame /\ UNCHANGED syncVars

\* Mutant: the server starts over when the clock skew has gone.
terminatedStateHandlerRestarts(s) ==
    /\ Running(s) /\ curr[s] = "terminated"
    /\ OnEntry(s, serveDefaultScopes(s))
    /\ hbTimer' = IF step[s] = "enter" THEN [hbTimer EXCEPT ![s] = "none"] ELSE hbTimer
    /\ verboseTransition(s, IF s \in skewed THEN curr[s] ELSE "waiting")
    /\ HandlerFrame /\ UNCHANGED syncVars

terminatedStateHandler(s) ==
    /\ Running(s) /\ curr[s] = "terminated"
    /\ OnEntry(s, serveDefaultScopes(s))
    /\ hbTimer' = IF step[s] = "enter" THEN [hbTimer EXCEPT ![s] = "none"] ELSE hbTimer
    /\ verboseTransition(s, curr[s])
    /\ HandlerFrame /\ UNCHANGED syncVars

\* The synchronization starts unless the model is paused, must terminate, or
\* knows the partner to be terminated or unavailable.
SyncStarts(s) ==
    /\ s \notin paused /\ s \notin skewed
    /\ partner[s] \notin {"terminated", "unavailable"}

syncingStateHandler(s) ==
    /\ Running(s) /\ curr[s] = "syncing"
    /\ OnEntry(s, {})
    /\ IF SyncStarts(s)
       THEN /\ hbTimer' = [hbTimer EXCEPT ![s] = "none"]
            /\ sync' = [sync EXCEPT ![s] = "dhcp-disable"]
            /\ reply' = [reply EXCEPT ![s] = "sent"]
            /\ step' = [step EXCEPT ![s] = "run"]
            /\ fetched' = fetched \ {s}
            /\ UNCHANGED <<curr, paused, pauses, failed>>
       ELSE /\ hbTimer' = IF s \notin paused \cup skewed /\ partner[s] = "unavailable"
                          THEN scheduleHeartbeat(s, hbTimer) ELSE hbTimer
            /\ verboseTransition(s, syncingNext(s))
            /\ UNCHANGED syncVars
    /\ HandlerFrame

----------------------------------------------------------------------------
(* synchronize(): dhcp-disable, lease-get-all and dhcp-enable are sent to  *)
(* the partner one after the other while the server is blocked.            *)

\* Mutant: max-period is ignored.
dhcpCommandUntimed(o, cmd) ==
    /\ enabled' = CASE cmd \in {"dhcp-disable", "dhcp-disable-untimed"} -> enabled \ {o}
                    [] cmd = "dhcp-enable" -> adjustNetworkState(o, enabled)
                    [] OTHER -> enabled
    /\ UNCHANGED delayed

\* A dhcp-disable or dhcp-enable command at server o.  The latter is followed by
\* the command_processed callout of the library, which calls adjustNetworkState.
dhcpCommand(o, cmd) ==
    /\ enabled' = CASE cmd \in {"dhcp-disable", "dhcp-disable-untimed"} -> enabled \ {o}
                    [] cmd = "dhcp-enable" -> adjustNetworkState(o, enabled)
                    [] OTHER -> enabled
    /\ delayed' = IF cmd = "dhcp-disable" THEN delayed \cup {o} ELSE delayed

\* The partner executes the command of s that is on its way.
ExecuteSync(s) ==
    /\ s \in up /\ reply[s] = "sent" /\ Responsive(Other(s))
    /\ reply' = [reply EXCEPT ![s] = "done"]
    /\ dhcpCommand(Other(s), sync[s])
    /\ UNCHANGED <<modelVars, commVars, scopes, hbTimer, requestVars, sync,
                   failed, fetched, worldVars>>

\* Mutant: the heartbeat stopped before the synchronization is not set up again.
SyncReturnsSilently(s, err) ==
    /\ sync' = [sync EXCEPT ![s] = "idle"]
    /\ reply' = [reply EXCEPT ![s] = "idle"]
    /\ failed' = failed \ {s}
    /\ IF step[s] = "run"
       THEN verboseTransition(s, IF err THEN curr[s] ELSE "ready")
       ELSE UNCHANGED modelVars
    /\ UNCHANGED hbTimer

\* synchronize() returns to syncingStateHandler, or to processSynchronize,
\* which answers the ha-sync command and leaves the state machine alone.
SyncReturns(s, err) ==
    /\ sync' = [sync EXCEPT ![s] = "idle"]
    /\ reply' = [reply EXCEPT ![s] = "idle"]
    /\ failed' = failed \ {s}
    /\ IF step[s] = "run"
       THEN /\ verboseTransition(s, IF err THEN curr[s] ELSE "ready")
            /\ hbTimer' = scheduleHeartbeat(s, hbTimer)
       ELSE UNCHANGED <<modelVars, hbTimer>>

SyncSends(s, request, err) ==
    /\ sync' = [sync EXCEPT ![s] = request]
    /\ reply' = [reply EXCEPT ![s] = "sent"]
    /\ failed' = IF err THEN failed \cup {s} ELSE failed
    /\ UNCHANGED <<modelVars, hbTimer>>

\* Mutant: the outcome of the dhcp-enable hides that of the lease-get-all.
SyncContinuesForgetful(s, ok) ==
    \/ /\ sync[s] \in {"dhcp-disable", "dhcp-disable-untimed"}
       /\ IF ok THEN SyncSends(s, "lease-get-all", FALSE) ELSE SyncReturns(s, TRUE)
    \/ /\ sync[s] = "lease-get-all"
       /\ SyncSends(s, "dhcp-enable", ~ok)
    \/ /\ sync[s] = "dhcp-enable"
       /\ SyncReturns(s, ~ok)

\* The callbacks chained in synchronize(), given the outcome of the request.
SyncContinues(s, ok) ==
    \/ /\ sync[s] \in {"dhcp-disable", "dhcp-disable-untimed"}
       /\ IF ok THEN SyncSends(s, "lease-get-all", FALSE) ELSE SyncReturns(s, TRUE)
    \/ /\ sync[s] = "lease-get-all"
       /\ SyncSends(s, "dhcp-enable", ~ok)
    \/ /\ sync[s] = "dhcp-enable"
       /\ SyncReturns(s, ~ok \/ s \in failed)

SyncSucceeds(s) ==
    /\ s \in up /\ reply[s] = "done"
    /\ SyncContinues(s, TRUE)
    /\ fetched' = IF sync[s] = "lease-get-all" /\ step[s] = "run"
                  THEN fetched \cup {s} ELSE fetched
    /\ UNCHANGED <<commVars, serviceVars, requestVars, worldVars>>

\* A command on its way to the partner, for which nobody waits any more.
LeavesStray(s) ==
    IF s \in Active /\ reply[s] = "sent" /\ sync[s] \in Strays /\ Other(s) \in up
        /\ Cardinality({x \in Server \X Strays : x[2] \in stray[x[1]]}) < MaxStray
    THEN [stray EXCEPT ![Other(s)] = @ \cup {sync[s]}] ELSE stray

\* The request fails; a command not executed by now may still be, later on.
SyncFails(s) ==
    /\ s \in up /\ sync[s] # "idle" /\ MayFail(s)
    /\ partner' = [partner EXCEPT ![s] = "unavailable"]
    /\ SyncContinues(s, FALSE)
    /\ stray' \in {stray, LeavesStray(s)}
    /\ UNCHANGED <<silent, unacked, skewed, serviceVars, requestVars, fetched,
                   up, crashes, net>>

ExecuteStray(o) ==
    /\ Responsive(o)
    /\ \E cmd \in stray[o] :
          /\ stray' = [stray EXCEPT ![o] = @ \ {cmd}]
          /\ dhcpCommand(o, cmd)
    /\ UNCHANGED <<modelVars, commVars, scopes, hbTimer, requestVars, syncVars,
                   up, crashes, net>>

----------------------------------------------------------------------------
(* Heartbeats and lease updates share one HTTP connection to the partner:  *)
(* the client sends the next request when the previous one completed.      *)

asyncSendRequest(s, request) == queue' = [queue EXCEPT ![s] = Append(@, request)]

\* The heartbeat timer expires: asyncSendHeartbeat.
asyncSendHeartbeat(s) ==
    /\ Responsive(s) /\ hbTimer[s] = "armed" /\ Len(queue[s]) < MaxQueue
    /\ hbTimer' = [hbTimer EXCEPT ![s] = "fired"]
    /\ asyncSendRequest(s, "ha-heartbeat")
    /\ UNCHANGED <<modelVars, commVars, serviceVars, answer, owed, syncVars,
                   worldVars>>

\* The partner executes the oldest request of s: processHeartbeat answers with
\* the current state; a lease update is applied to the lease database.
ExecuteRequest(s) ==
    /\ s \in up /\ queue[s] # <<>> /\ answer[s] = "none" /\ Responsive(Other(s))
    /\ answer' = [answer EXCEPT ![s] =
                     IF Head(queue[s]) = "ha-heartbeat" THEN curr[Other(s)] ELSE "ok"]
    /\ UNCHANGED <<modelVars, commVars, serviceVars, hbTimer, queue, owed,
                   syncVars, worldVars>>

RequestDone(s) ==
    /\ queue' = [queue EXCEPT ![s] = Tail(@)]
    /\ answer' = [answer EXCEPT ![s] = "none"]

\* Mutant: a paused state machine does not set up the next heartbeat.
HeartbeatCallbackUnlessPaused(s) ==
    /\ hbTimer' = IF s \in paused THEN hbTimer ELSE startHeartbeat(s, hbTimer)
    /\ runModel(s)
    /\ RequestDone(s)
    /\ UNCHANGED <<curr, paused, pauses, serviceVars, owed, syncVars, worldVars>>

HeartbeatCallback(s) ==
    /\ hbTimer' = startHeartbeat(s, hbTimer)
    /\ runModel(s)
    /\ RequestDone(s)
    /\ UNCHANGED <<curr, paused, pauses, serviceVars, owed, syncVars, worldVars>>

HeartbeatSucceeds(s) ==
    /\ Responsive(s) /\ queue[s] # <<>> /\ Head(queue[s]) = "ha-heartbeat"
    /\ answer[s] # "none"
    /\ partner' = [partner EXCEPT ![s] = answer[s]]
    /\ skewed' \in {skewed \ {s}} \cup
                   (IF "skew" \in Faults THEN {skewed \cup {s}} ELSE {})
    /\ poke(s)
    /\ HeartbeatCallback(s)

HeartbeatFails(s) ==
    /\ Responsive(s) /\ queue[s] # <<>> /\ Head(queue[s]) = "ha-heartbeat"
    /\ MayFail(s)
    /\ partner' = [partner EXCEPT ![s] = "unavailable"]
    /\ HeartbeatCallback(s)
    /\ UNCHANGED <<silent, unacked, skewed>>

\* A lease update to the partner completes.  The state machine runs when it was
\* the last request for its query, which is up to the backup servers' answers.
LeaseUpdateCallback(s) ==
    /\ RequestDone(s)
    /\ \/ runModel(s)
       \/ s \in owed /\ UNCHANGED step
    /\ UNCHANGED <<curr, paused, pauses, skewed, serviceVars, hbTimer, owed,
                   syncVars, worldVars>>

LeaseUpdateSucceeds(s) ==
    /\ Responsive(s) /\ queue[s] # <<>> /\ Head(queue[s]) = "lease-update"
    /\ answer[s] = "ok"
    /\ poke(s)
    /\ LeaseUpdateCallback(s)
    /\ UNCHANGED partner

LeaseUpdateFails(s) ==
    /\ Responsive(s) /\ queue[s] # <<>> /\ Head(queue[s]) = "lease-update"
    /\ MayFail(s)
    /\ partner' = [partner EXCEPT ![s] = "unavailable"]
    /\ LeaseUpdateCallback(s)
    /\ UNCHANGED <<silent, unacked>>

\* A backup server's answer, or its failure, completes the updates of a query.
BackupUpdatesComplete(s) ==
    /\ Responsive(s) /\ s \in owed
    /\ owed' \in {owed, owed \ {s}}
    /\ runModel(s)
    /\ UNCHANGED <<curr, paused, pauses, commVars, serviceVars, hbTimer, queue,
                   answer, syncVars, worldVars>>

----------------------------------------------------------------------------
(* DHCP queries, time, and the environment.                                *)

shouldSendLeaseUpdates(s) ==
    /\ "send-lease-updates" \in Options
    /\ curr[s] \in {"hot-standby", "load-balancing"}

\* The query belongs to a scope that the server serves.
inScope(s, c) == Owner[c] \in scopes[s]

\* A client that has waited for the partner longer than max-ack-delay.
analyzeMessage(s, c) == unacked' = [unacked EXCEPT ![s] = @ \cup {c}]

\* A query in scope leads to lease updates: to the partner when the state calls
\* for it, and to the backup servers.  One out of scope is dropped, but counts
\* in the failure detection while the communication is interrupted.
ReceiveQuery(s, c) ==
    /\ Responsive(s) /\ s \in enabled
    /\ \/ /\ inScope(s, c)
          /\ IF shouldSendLeaseUpdates(s)
             THEN Len(queue[s]) < MaxQueue /\ asyncSendRequest(s, "lease-update")
             ELSE UNCHANGED queue
          /\ owed' = IF Backups # {} /\ "send-lease-updates" \in Options
                     THEN owed \cup {s} ELSE owed
          /\ UNCHANGED unacked
       \/ /\ ~inScope(s, c) /\ s \in silent
          /\ analyzeMessage(s, c)
          /\ UNCHANGED <<queue, owed>>
    /\ UNCHANGED <<modelVars, partner, silent, skewed, serviceVars, hbTimer,
                   answer, syncVars, worldVars>>

\* max-response-delay passes since the last poke.  It is several times the
\* heartbeat delay, so it takes several lost requests, a partner that is down,
\* or a synchronization that is slow in comparison.
ResponseDelayElapses(s) ==
    /\ s \in up /\ ~Running(s) /\ s \notin silent
    /\ \/ net = "lossy" \/ Other(s) \notin up
       \/ "slow" \in Faults /\ \E r \in Active : sync[r] # "idle"
    /\ silent' = silent \cup {s}
    /\ UNCHANGED <<modelVars, partner, unacked, skewed, serviceVars, hbTimer,
                   requestVars, syncVars, worldVars>>

\* max-period passes since the last timed dhcp-disable: enableAll.
enableAll(s) ==
    /\ Responsive(s) /\ s \in delayed
    /\ enabled' = enabled \cup {s}
    /\ delayed' = delayed \ {s}
    /\ UNCHANGED <<modelVars, commVars, scopes, hbTimer, requestVars, syncVars,
                   worldVars>>

\* The constructor of HAService in a new process.
Start(s) ==
    /\ s \notin up
    /\ up' = up \cup {s}
    /\ step' = [step EXCEPT ![s] = "enter"]
    /\ paused' = IF "waiting" \in pauses[s] THEN paused \cup {s} ELSE paused
    /\ pauses' = [pauses EXCEPT ![s] =
                     IF "waiting" \in @ THEN (@ \ {"waiting"}) \cup PauseAlways ELSE @]
    /\ UNCHANGED <<curr, commVars, serviceVars, hbTimer, requestVars, syncVars,
                   stray, crashes, net>>

\* The process dies.  What it had sent to the partner may still be executed.
Crash(s) ==
    /\ "crash" \in Faults /\ s \in up /\ ~Running(s) /\ crashes < MaxCrashes
    /\ up' = up \ {s}
    /\ crashes' = crashes + 1
    /\ curr' = [curr EXCEPT ![s] = "waiting"]
    /\ step' = [step EXCEPT ![s] = "idle"]
    /\ paused' = paused \ {s}
    /\ pauses' = [pauses EXCEPT ![s] = PauseAlways \cup PauseOnce]
    /\ partner' = [partner EXCEPT ![s] = "unknown"]
    /\ silent' = silent \ {s}
    /\ unacked' = [unacked EXCEPT ![s] = {}]
    /\ skewed' = skewed \ {s}
    /\ scopes' = [scopes EXCEPT ![s] = serveDefaultScopes(s)]
    /\ enabled' = enabled \cup {s}
    /\ delayed' = delayed \ {s}
    /\ hbTimer' = [hbTimer EXCEPT ![s] = "none"]
    /\ queue' = [queue EXCEPT ![s] = <<>>]
    /\ answer' = [answer EXCEPT ![s] = "none"]
    /\ owed' = owed \ {s}
    /\ sync' = [sync EXCEPT ![s] = "idle"]
    /\ reply' = [reply EXCEPT ![s] = "idle"]
    /\ failed' = failed \ {s}
    /\ fetched' = fetched \ {s}
    /\ stray' = [LeavesStray(s) EXCEPT ![s] = {}]
    /\ UNCHANGED net

\* From here on no request is lost.
Stabilize ==
    /\ "recover" \in Faults /\ net = "lossy"
    /\ net' = "reliable"
    /\ UNCHANGED <<modelVars, commVars, serviceVars, hbTimer, requestVars,
                   syncVars, up, stray, crashes>>

----------------------------------------------------------------------------
(* The control commands.                                                   *)

processContinue(s) ==
    /\ "ha-continue" \in Admin /\ Responsive(s) /\ s \in paused
    /\ paused' = paused \ {s}
    /\ UNCHANGED <<curr, step, pauses, commVars, serviceVars, hbTimer,
                   requestVars, syncVars, worldVars>>

processScopes(s) ==
    /\ "ha-scopes" \in Admin /\ s \in Active /\ Responsive(s)
    /\ \E sc \in SUBSET Server : scopes' = [scopes EXCEPT ![s] = sc]
    /\ enabled' = adjustNetworkState(s, enabled)
    /\ UNCHANGED <<modelVars, commVars, delayed, hbTimer, requestVars, syncVars,
                   worldVars>>

processSynchronize(s) ==
    /\ "ha-sync" \in Admin /\ s \in Active /\ Responsive(s)
    /\ \E request \in {"dhcp-disable", "dhcp-disable-untimed"} :
          sync' = [sync EXCEPT ![s] = request]
    /\ reply' = [reply EXCEPT ![s] = "sent"]
    /\ UNCHANGED <<modelVars, commVars, serviceVars, hbTimer, requestVars,
                   failed, fetched, worldVars>>

commandDhcp(s) ==
    /\ s \in Active /\ Responsive(s)
    /\ \E cmd \in Admin \cap Strays : dhcpCommand(s, cmd)
    /\ UNCHANGED <<modelVars, commVars, scopes, hbTimer, requestVars, syncVars,
                   worldVars>>

----------------------------------------------------------------------------
Init ==
    /\ up = {}
    /\ curr = [s \in Server |-> "waiting"]
    /\ step = [s \in Server |-> "idle"]
    /\ paused = {}
    /\ pauses = [s \in Server |-> PauseAlways \cup PauseOnce]
    /\ partner = [s \in Server |-> "unknown"]
    /\ silent = {}
    /\ unacked = [s \in Server |-> {}]
    /\ skewed = {}
    /\ scopes = [s \in Server |-> serveDefaultScopes(s)]
    /\ enabled = Server
    /\ delayed = {}
    /\ hbTimer = [s \in Server |-> "none"]
    /\ queue = [s \in Server |-> <<>>]
    /\ answer = [s \in Server |-> "none"]
    /\ sync = [s \in Server |-> "idle"]
    /\ reply = [s \in Server |-> "idle"]
    /\ failed = {}
    /\ fetched = {}
    /\ owed = {}
    /\ stray = [s \in Server |-> {}]
    /\ crashes = 0
    /\ net = IF "loss" \in Faults THEN "lossy" ELSE "reliable"

\* runModel invokes the handler of the current state.
RunHandler(s) ==
    \/ backupStateHandler(s)
    \/ normalStateHandler(s)
    \/ partnerDownStateHandler(s)
    \/ readyStateHandler(s)
    \/ syncingStateHandler(s)
    \/ terminatedStateHandler(s)
    \/ waitingStateHandler(s)

Completion(s) ==
    \/ SyncSucceeds(s)
    \/ SyncFails(s)
    \/ HeartbeatSucceeds(s)
    \/ HeartbeatFails(s)
    \/ LeaseUpdateSucceeds(s)
    \/ LeaseUpdateFails(s)
    \/ BackupUpdatesComplete(s)

Command(s) ==
    \/ processContinue(s)
    \/ processScopes(s)
    \/ processSynchronize(s)
    \/ commandDhcp(s)

Next ==
    \/ \E s \in Server : RunHandler(s) \/ Command(s) \/ Start(s) \/ Crash(s)
                         \/ enableAll(s) \/ ExecuteStray(s)
    \/ \E s \in Active : Completion(s) \/ ExecuteSync(s) \/ ExecuteRequest(s)
                         \/ asyncSendHeartbeat(s) \/ ResponseDelayElapses(s)
    \/ \E s \in Active, c \in Clients : ReceiveQuery(s, c)
    \/ Stabilize

Spec == Init /\ [][Next]_vars

----------------------------------------------------------------------------
\* The types of the variables.
TypeOK ==
    /\ up \subseteq Server
    /\ curr \in [Server -> States]
    /\ step \in [Server -> {"idle", "enter", "run"}]
    /\ paused \subseteq Server
    /\ pauses \in [Server -> SUBSET States]
    /\ partner \in [Server -> PartnerStates]
    /\ silent \subseteq Server
    /\ unacked \in [Server -> SUBSET Clients]
    /\ skewed \subseteq Server
    /\ scopes \in [Server -> SUBSET Server]
    /\ enabled \subseteq Server
    /\ delayed \subseteq Server
    /\ hbTimer \in [Server -> {"none", "armed", "fired"}]
    /\ queue \in [Server -> Seq(Requests)]
    /\ answer \in [Server -> States \cup {"none", "ok"}]
    /\ sync \in [Server -> SyncPhases]
    /\ reply \in [Server -> {"idle", "sent", "done"}]
    /\ failed \subseteq Server
    /\ fetched \subseteq Server
    /\ owed \subseteq Server
    /\ stray \in [Server -> SUBSET Strays]
    /\ crashes \in 0..MaxCrashes
    /\ net \in {"lossy", "reliable"}

\* At most one synchronization at a time gets past its dhcp-disable: while one
\* server fetches leases from its partner, or re-enables it, the partner is not
\* itself fetching from that server (synchronize, and the servers' inability to
\* answer while blocked in it).
OneSyncAtATime ==
    \A s \in Active :
        sync[s] \in {"lease-get-all", "dhcp-enable"} =>
            sync[Other(s)] \notin {"lease-get-all", "dhcp-enable"}

\* A server in a state that sends heartbeats is never left without the next one:
\* its timer is armed, or a heartbeat is on its way whose callback will set the
\* timer up again (scheduleHeartbeat, startHeartbeat, stopHeartbeat).
HeartbeatGoesOn ==
    \A s \in Active :
        (Responsive(s) /\ curr[s] # "terminated") =>
            \/ hbTimer[s] = "armed"
            \/ \E i \in 1..Len(queue[s]) : queue[s][i] = "ha-heartbeat"

Serves(s, c) == s \in up /\ s \in enabled /\ inScope(s, c)

\* A server that waits for its partner, or copies its leases, answers no client,
\* whatever has become of its DHCP service switch (serveNoScopes on entry).
NoServiceBeforeReady ==
    \A s \in Active, c \in Clients :
        Responsive(s) /\ Serves(s, c) => curr[s] \notin {"waiting", "syncing", "ready"}

\* Two servers answer the same client only when one of them took over the scope
\* of the other in the partner-down state (serveFailoverScopes).
OneServerPerClient ==
    \A c \in Clients :
        (\A s \in Active : ~Running(s) /\ Serves(s, c)) =>
            \E s \in Active : curr[s] = "partner-down"

\* A server that was told by its synchronizing partner to stop its service does
\* not stay silent for good: the delayed-enable timer is armed for as long as the
\* service is off in a state that should serve (createDHCPDisable with the
\* max-period of 60 seconds, delayedEnableAll).
DisabledIsTemporary ==
    \A s \in Active :
        (s \in up /\ ~Running(s) /\ curr[s] \in EnabledStates) =>
            s \in enabled \cup delayed

\* A server is ready only when the leases of the partner were fetched without an
\* error (synchronize, syncingStateHandler).
ReadyMeansFetched ==
    "sync-leases" \in Options =>
        \A s \in Active : curr[s] = "ready" => s \in fetched

\* When both servers are back in normal operation, one of them has copied the
\* leases of the other since it was last on its own.
NormalMeansFetched ==
    ("sync-leases" \in Options /\ \A s \in Active : curr[s] = NormalState) =>
        \E s \in Active : s \in fetched

\* A terminated server stays so until its process is restarted.
TerminatedForGood ==
    [][\A s \in Active : curr[s] = "terminated" /\ s \in up' => curr'[s] = "terminated"]_vars

----------------------------------------------------------------------------
\* The state machine, the heartbeat timer and the HTTP client make progress, a
\* process that is down is started, and the network recovers.  The partner gets to
\* execute a request it is sent again and again, although it is not responsive all
\* the time: the two servers' heartbeat timers do not stay in step for ever.
Fairness ==
    /\ WF_vars(Stabilize)
    /\ \A s \in Server : WF_vars(RunHandler(s)) /\ WF_vars(Start(s))
    /\ \A s \in Active :
          /\ WF_vars(Completion(s))
          /\ WF_vars(asyncSendHeartbeat(s))
          /\ SF_vars(ExecuteRequest(s))
          /\ SF_vars(ExecuteSync(s))
          /\ SF_vars(enableAll(s))

FairSpec == Spec /\ Fairness

BothNormal == \A s \in Active : s \in up /\ curr[s] = NormalState

\* Both servers are blocked in synchronize, each waiting for the other.
Collision == \A s \in Active : sync[s] # "idle"

\* Once requests are no longer lost and processes no longer die, both servers
\* return to normal operation and remain there, provided that their attempts to
\* synchronize do not collide for ever, and a machine that pauses is told to go on.
EventuallyNormal == (<>[]~Collision /\ <>[](paused = {})) => <>[]BothNormal

\* From then on every client is answered by one server, and by one only.
EventuallyServed ==
    <>[]~Collision =>
        <>[](\A c \in Clients : \E s \in Active : Serves(s, c) /\ ~Serves(Other(s), c))

\* A server that should serve but was disabled by its partner serves again, or
\* leaves the state, even if the partner dies before its dhcp-enable.
ServiceComesBack ==
    \A s \in Active :
        (s \in up /\ curr[s] \in EnabledStates /\ s \notin enabled)
            ~> (s \notin up \/ curr[s] \notin EnabledStates \/ s \in enabled)
=============================================================================
