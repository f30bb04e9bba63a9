---------------------------- MODULE NetworkState ----------------------------
(***************************************************************************)
(* The switch of the DHCP service of one server: the dhcp-disable and      *)
(* dhcp-enable commands of the control channel, NetworkState, and the      *)
(* one-shot timer of TimerMgr that enables the service again.  Time is     *)
(* counted in the milliseconds of the timer.  The period of the timer is   *)
(* computed in unsigned integers, and a timer with an interval of zero     *)
(* stays registered for good: IntervalTimer takes it for a cancelled one.  *)
(***************************************************************************)
EXTENDS Integers

CONSTANTS
    UintRange,      \* one more than the largest unsigned int
    Millis,         \* milliseconds in a second
    Periods         \* the max-period values that are sent

ASSUME UintAssumption ==
    /\ UintRange \in Nat \ {0}
    /\ Millis \in Nat \ {0}
    /\ Periods \subseteq Int

VARIABLES
    service,        \* "disabled" when globally_disabled_
    timer,          \* the registered timer: milliseconds left, or None
    due             \* history: milliseconds until the service has to be enabled
                    \* again, or None when nothing was promised

vars == <<service, timer, due>>

None == -1

Init == service = "enabled" /\ timer = None /\ due = None

disableService == service' = "disabled"

enableService == service' = "enabled"

\* Mutant: a timer that is already registered is kept.
createTimerOnce(seconds) ==
    timer' = IF timer = None THEN ((seconds % UintRange) * Millis) % UintRange ELSE timer

\* delayedEnableAll replaces a timer that is already registered.
createTimer(seconds) == timer' = ((seconds % UintRange) * Millis) % UintRange

\* The max-period is checked, but the timer is created in any case.
dhcpDisableFor(period) ==
    /\ createTimer(period)
    /\ IF period > 0
       THEN disableService /\ due' = period * Millis
       ELSE UNCHANGED <<service, due>>

dhcpDisable == disableService /\ UNCHANGED <<timer, due>>

\* A timer that is registered stays so.
dhcpEnable == enableService /\ due' = None /\ UNCHANGED timer

\* A millisecond passes: none of the timers is late.
Tick ==
    /\ timer # 1
    /\ timer > 1 \/ due > 0
    /\ timer' = IF timer > 1 THEN timer - 1 ELSE timer
    /\ due' = IF due > 0 THEN due - 1 ELSE due
    /\ UNCHANGED service

\* The timer expires.
enableAll == timer = 1 /\ enableService /\ timer' = None /\ due' = None

Next ==
    \/ \E period \in Periods : dhcpDisableFor(period)
    \/ dhcpDisable
    \/ dhcpEnable
    \/ Tick
    \/ enableAll

Spec == Init /\ [][Next]_vars

\* The periods the command accepts, and the timer can count.
Valid(period) == period > 0 /\ period * Millis < UintRange

\* The types of the variables.
TypeOK ==
    /\ service \in {"enabled", "disabled"}
    /\ timer \in Int
    /\ due \in Int

\* A service that was disabled for max-period seconds is enabled again by then,
\* unless it was enabled before: its timer is registered and in time.
ResumesWithinMaxPeriod == due # None => timer \in 1..due
=============================================================================
