---------------------------- MODULE SlaveRegistry -----------------------------
(***************************************************************************)
(* InMemorySlaveRegistry (internal/master/registry.go) and those who use it *)
(* at the same time: the handlers for register, heartbeat, drain and        *)
(* unregister (api/rest), the master's health check, and the watchers of    *)
(* slave events.  Every registry call is atomic (mu), but the health check  *)
(* and the heartbeat handlers are several calls each.                       *)
(***************************************************************************)
EXTENDS Integers, FiniteSets

CONSTANTS Slaves, Watchers,
          Capacity,         \* of a watcher's channel; 100 in the code
          HeartbeatTimeout, \* config.HeartbeatTimeout, in units of the clock
          MaxTime,          \* bound: the clock
          MaxInFlight       \* bound: heartbeats being handled at the same time

ASSUME SetsAssumption == IsFiniteSet(Slaves) /\ IsFiniteSet(Watchers)
ASSUME NumbersAssumption ==
    /\ Capacity \in Nat /\ HeartbeatTimeout \in Nat
    /\ MaxTime \in Nat /\ MaxInFlight \in Nat

NoStatus == "none"
Reported == {"online", "busy", "offline"}   \* what a slave says of itself
States   == Reported \cup {"draining"}
Events   == {"registered", "unregistered", "online", "offline", "updated"}

VARIABLES
    clock,
    slaves,      \* keys of r.slaves
    status,      \* status[s]: state in r.status, or NoStatus
    lastSeen,    \* lastSeen[s]: LastSeen in r.status
    beats,       \* heartbeats whose handler has not yet called UpdateStatus
    chk,         \* the running checkSlaveHealth: now, what is left of its list,
                 \* and the slave it is about to mark with the LastSeen it read
    watcher,     \* watcher[w]: "none", "subscribed", "removed", "closed"
    pending,     \* pending[w]: number of events in w's channel
    told,        \* told[w][s]: the last event of s that was put into it
    missed       \* missed[w]: slaves whose last event found it full

regVars   == <<slaves, status, lastSeen>>
eventVars == <<watcher, pending, told, missed>>
registryVars == <<clock, regVars, beats, chk, eventVars>>

Nobody == [mark |-> FALSE]
NoCheck == [on |-> FALSE, now |-> 0, todo |-> {}, target |-> Nobody]

RegistryInit ==
    /\ clock = 0
    /\ slaves = {}
    /\ status = [s \in Slaves |-> NoStatus]
    /\ lastSeen = [s \in Slaves |-> 0]
    /\ beats = {} /\ chk = NoCheck
    /\ watcher = [w \in Watchers |-> "none"]
    /\ pending = [w \in Watchers |-> 0]
    /\ told = [w \in Watchers |-> [s \in Slaves |-> "none"]]
    /\ missed = [w \in Watchers |-> {}]

-----------------------------------------------------------------------------
(* The registry.                                                            *)

subscribers == {w \in Watchers : watcher[w] = "subscribed"}

\* A full channel is skipped.
notifyEvent(s, ev) ==
    LET room == {w \in subscribers : pending[w] < Capacity} IN
    /\ pending' = [w \in Watchers |-> IF w \in room THEN pending[w] + 1 ELSE pending[w]]
    /\ told' = [w \in Watchers |-> IF w \in room THEN [told[w] EXCEPT ![s] = ev] ELSE told[w]]
    /\ missed' = [w \in Watchers |-> IF w \in room THEN missed[w] \ {s}
                                     ELSE IF w \in subscribers THEN missed[w] \cup {s}
                                     ELSE missed[w]]
    /\ UNCHANGED watcher

\* An id that is registered is refused.
Register(s) ==
    /\ s \notin slaves
    /\ slaves' = slaves \cup {s}
    /\ status' = [status EXCEPT ![s] = "online"]
    /\ lastSeen' = [lastSeen EXCEPT ![s] = clock]
    /\ notifyEvent(s, "registered")
    /\ UNCHANGED <<clock, beats, chk>>

\* Mutated form: delete(r.status, slaveID) is missing.
UnregisterKeepsStatus(s) ==
    /\ s \in slaves
    /\ slaves' = slaves \ {s}
    /\ notifyEvent(s, "unregistered")
    /\ UNCHANGED <<clock, status, lastSeen, beats, chk>>

Unregister(s) ==
    /\ s \in slaves
    /\ slaves' = slaves \ {s}
    /\ status' = [status EXCEPT ![s] = NoStatus]
    /\ lastSeen' = [lastSeen EXCEPT ![s] = 0]
    /\ notifyEvent(s, "unregistered")
    /\ UNCHANGED <<clock, beats, chk>>

StateEvent(state) == CASE state = "online" -> "online"
                       [] state = "offline" -> "offline"
                       [] OTHER -> "updated"

\* Mutated form: the slave is not looked up.
UpdateStatusUnchecked(s, state, seen) ==
    /\ status' = [status EXCEPT ![s] = state]
    /\ lastSeen' = [lastSeen EXCEPT ![s] = seen]
    /\ IF status[s] \notin {NoStatus, state} THEN notifyEvent(s, StateEvent(state))
       ELSE UNCHANGED eventVars
    /\ UNCHANGED slaves

\* Mutated form: only a transition to online or offline is an event.
UpdateStatusQuiet(s, state, seen) ==
    IF s \in slaves
    THEN /\ status' = [status EXCEPT ![s] = state]
         /\ lastSeen' = [lastSeen EXCEPT ![s] = seen]
         /\ IF status[s] # state /\ state # "busy" THEN notifyEvent(s, StateEvent(state))
            ELSE UNCHANGED eventVars
         /\ UNCHANGED slaves
    ELSE UNCHANGED <<regVars, eventVars>>

\* Replaces the whole status, whoever wrote the one before.
UpdateStatus(s, state, seen) ==
    IF s \in slaves
    THEN /\ status' = [status EXCEPT ![s] = state]
         /\ lastSeen' = [lastSeen EXCEPT ![s] = seen]
         /\ IF status[s] # state THEN notifyEvent(s, StateEvent(state))
            ELSE UNCHANGED eventVars
         /\ UNCHANGED slaves
    ELSE UNCHANGED <<regVars, eventVars>>

DrainSlave(s) ==
    /\ s \in slaves
    /\ status' = [status EXCEPT ![s] = "draining"]
    /\ notifyEvent(s, "updated")
    /\ UNCHANGED <<clock, slaves, lastSeen, beats, chk>>

-----------------------------------------------------------------------------
(* Heartbeats.                                                              *)

InFlight(s, state) ==
    /\ Cardinality(beats) < MaxInFlight
    /\ beats' = beats \cup {[slave |-> s, state |-> state, seen |-> clock]}
    /\ UNCHANGED <<clock, regVars, chk, eventVars>>

\* slaveHeartbeat has found the slave and taken the time.
ReceiveHeartbeat(s, state) == s \in slaves /\ InFlight(s, state)

\* A heartbeat over WebSocket: the slave is not looked up, and always says online.
handleMessage(s) == InFlight(s, "online")

ApplyHeartbeat(b) ==
    /\ b \in beats
    /\ beats' = beats \ {b}
    /\ UpdateStatus(b.slave, b.state, b.seen)
    /\ UNCHANGED <<clock, chk>>

-----------------------------------------------------------------------------
(* checkSlaveHealth, called by one loop.                                    *)

ListSlaves ==
    /\ ~chk.on
    /\ chk' = [on |-> TRUE, now |-> clock, todo |-> slaves, target |-> Nobody]
    /\ UNCHANGED <<clock, regVars, beats, eventVars>>

\* Mutated form: only slaves that are online are looked at.
ReadStatusOnlineOnly(s) ==
    /\ chk.on /\ chk.target = Nobody /\ s \in chk.todo
    /\ chk' = [chk EXCEPT !.todo = @ \ {s},
                          !.target = IF /\ status[s] = "online"
                                        /\ chk.now - lastSeen[s] > HeartbeatTimeout
                                     THEN [mark |-> TRUE, slave |-> s, seen |-> lastSeen[s]]
                                     ELSE Nobody]
    /\ UNCHANGED <<clock, regVars, beats, eventVars>>

\* GetSlaveStatus, and the comparison with the timeout.
ReadStatus(s) ==
    /\ chk.on /\ chk.target = Nobody /\ s \in chk.todo
    /\ chk' = [chk EXCEPT !.todo = @ \ {s},
                          !.target = IF s \in slaves /\ chk.now - lastSeen[s] > HeartbeatTimeout
                                     THEN [mark |-> TRUE, slave |-> s, seen |-> lastSeen[s]]
                                     ELSE Nobody]
    /\ UNCHANGED <<clock, regVars, beats, eventVars>>

\* The status may have changed, or be that of a new registration, by now.
MarkOverdue ==
    /\ chk.target # Nobody
    /\ UpdateStatus(chk.target.slave, "offline", chk.target.seen)
    /\ chk' = [chk EXCEPT !.target = Nobody]
    /\ UNCHANGED <<clock, beats>>

EndCheck ==
    /\ chk.on /\ chk.target = Nobody /\ chk.todo = {}
    /\ chk' = NoCheck
    /\ UNCHANGED <<clock, regVars, beats, eventVars>>

checkSlaveHealth == ListSlaves \/ (\E s \in Slaves : ReadStatus(s)) \/ MarkOverdue \/ EndCheck

-----------------------------------------------------------------------------
(* Watchers.                                                                *)

Subscription(w, from, to) == watcher[w] = from /\ watcher' = [watcher EXCEPT ![w] = to]

WatchSlaves(w) ==
    /\ Subscription(w, "none", "subscribed")
    /\ UNCHANGED <<clock, regVars, beats, chk, pending, told, missed>>

\* The watcher takes an event out of its channel.
TakeEvent(w) ==
    /\ pending[w] > 0
    /\ pending' = [pending EXCEPT ![w] = @ - 1]
    /\ UNCHANGED <<clock, regVars, beats, chk, watcher, told, missed>>

\* The watcher's context has ended; what it was told does not count any more.
removeSubscriber(w) ==
    /\ Subscription(w, "subscribed", "removed")
    /\ told' = [told EXCEPT ![w] = [s \in Slaves |-> "none"]]
    /\ missed' = [missed EXCEPT ![w] = {}]
    /\ UNCHANGED <<clock, regVars, beats, chk, pending>>

CloseChannel(w) ==
    /\ Subscription(w, "removed", "closed")
    /\ UNCHANGED <<clock, regVars, beats, chk, pending, told, missed>>

-----------------------------------------------------------------------------

Tick ==
    /\ clock < MaxTime
    /\ clock' = clock + 1
    /\ UNCHANGED <<regVars, beats, chk, eventVars>>

RegistryNext ==
    \/ Tick
    \/ \E s \in Slaves :
         \/ Register(s) \/ Unregister(s) \/ DrainSlave(s)
         \/ \E state \in Reported : ReceiveHeartbeat(s, state)
         \/ handleMessage(s)
    \/ \E b \in beats : ApplyHeartbeat(b)
    \/ checkSlaveHealth
    \/ \E w \in Watchers : WatchSlaves(w) \/ TakeEvent(w) \/ removeSubscriber(w) \/ CloseChannel(w)

\* The ticker of healthCheckLoop never ends while the master runs.
RegistrySpec == RegistryInit /\ [][RegistryNext]_registryVars /\ WF_registryVars(checkSlaveHealth)

-----------------------------------------------------------------------------
(* Properties.                                                              *)

Targets == {Nobody} \cup [mark : {TRUE}, slave : Slaves, seen : 0 .. MaxTime]

RegistryTypeOK ==
    /\ clock \in 0 .. MaxTime
    /\ slaves \subseteq Slaves
    /\ status \in [Slaves -> States \cup {NoStatus}]
    /\ lastSeen \in [Slaves -> 0 .. MaxTime]
    /\ beats \subseteq [slave : Slaves, state : Reported, seen : 0 .. MaxTime]
    /\ chk \in [on : BOOLEAN, now : 0 .. MaxTime, todo : SUBSET Slaves, target : Targets]
    /\ watcher \in [Watchers -> {"none", "subscribed", "removed", "closed"}]
    /\ pending \in [Watchers -> 0 .. Capacity]
    /\ told \in [Watchers -> [Slaves -> Events \cup {"none"}]]
    /\ missed \in [Watchers -> SUBSET Slaves]

\* r.slaves and r.status have the same keys: neither a late heartbeat nor a
\* health check that still has the slave on its list brings the status of an
\* unregistered slave back.
MapsAgree == slaves = {s \in Slaves : status[s] # NoStatus}

\* What an event says of the slave.
Says(ev, s) ==
    CASE ev \in {"registered", "online"} -> status[s] = "online"
      [] ev = "offline"      -> status[s] = "offline"
      [] ev = "updated"      -> status[s] \in {"busy", "draining"}
      [] ev = "unregistered" -> s \notin slaves
      [] ev = "none"         -> TRUE

\* The last event of a slave in a watcher's channel is true of the registry,
\* unless that slave's latest event was dropped: a later event that is not
\* dropped brings the watcher up to date.
EventsTellState ==
    \A w \in subscribers : \A s \in Slaves \ missed[w] : Says(told[w][s], s)

\* A slave that is not heard of, whatever its state, is marked offline.
SilentGoesOffline ==
    \A s \in Slaves :
        (s \in slaves /\ clock - lastSeen[s] > HeartbeatTimeout) ~>
            (s \notin slaves \/ status[s] = "offline" \/ clock - lastSeen[s] <= HeartbeatTimeout)
=============================================================================
