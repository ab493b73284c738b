--------------------------- MODULE SidecarLifecycle ---------------------------
(***************************************************************************)
(* The life of one persistent sidecar under SidecarManager: spawning       *)
(* behind a per-name promise, the two callbacks that notice the end of a   *)
(* child (its exit status and the end of its stdout), restarts with        *)
(* backoff, the crash-loop breaker, stop, restart, rotation and shutdown.  *)
(* Sidecars of different names share no state, so one name is modelled.    *)
(* The segments IpcCoordinator maps for a name are state nothing here      *)
(* reads: their mapping is in IpcRing.                                     *)
(* Children are numbered in the order of their spawning.  Exit status and  *)
(* end of stdout reach the event loop independently, in any order.         *)
(***************************************************************************)
EXTENDS Naturals, FiniteSets

CONSTANTS
    MaxRetries,      \* MAX_RETRY_ATTEMPTS, 5 in the code
    MaxChildren,     \* bound: children spawned
    MaxSpawnFails,   \* bound: failed spawns
    MaxOps           \* bound: stop, restart and rotation requests

ASSUME SidecarAssumption ==
    /\ MaxRetries \in Nat \ {0} /\ MaxChildren \in Nat \ {0}
    /\ MaxSpawnFails \in Nat /\ MaxOps \in Nat

Children == 1 .. MaxChildren
NoChild == 0
Ops == {"stop", "restart", "shutdown"}   \* a rotation is a restart

VARIABLES
    spawned,      \* children spawned so far
    alive,        \* children that have not exited
    status,       \* children whose exit callback has not run
    stdout,       \* children whose response reader has not ended
    registered,   \* persistentProcesses.get(name), or NoChild
    spawning,     \* the spawning promise is set
    count,        \* restartInfo.count
    backoff,      \* restart timers pending
    tripped,      \* trippedSidecars has the name
    cooloff,      \* breaker reset timers pending
    expected,     \* expectedExits has the name
    forget,       \* 100 ms timers that will clear expectedExits
    unsupported,  \* unsupportedSidecars has the name
    op,           \* progress of the stop, restart and shutdown requests
    target,       \* the child each of them waits for
    down,         \* isShuttingDown
    failed,       \* spawns that failed so far
    requests,     \* stop and restart requests so far
    stopped,      \* the last thing anybody asked for was to stop it
    cooled        \* the crash-loop breaker was reset once

kids   == <<spawned, alive, status, stdout>>
timers == <<backoff, cooloff, forget>>
flags  == <<expected, unsupported, tripped, down>>
ops    == <<op, target>>
hist   == <<failed, requests, stopped, cooled>>
vars   == <<kids, registered, spawning, count, timers, flags, ops, hist>>

Init ==
    /\ spawned = 0 /\ alive = {} /\ status = {} /\ stdout = {}
    /\ registered = NoChild /\ spawning = FALSE
    /\ count = 0 /\ backoff = 0 /\ cooloff = 0 /\ forget = 0
    /\ expected = FALSE /\ unsupported = FALSE /\ tripped = FALSE
    /\ down = FALSE
    /\ op = [o \in Ops |-> "idle"] /\ target = [o \in Ops |-> NoChild]
    /\ failed = 0 /\ requests = 0 /\ stopped = FALSE /\ cooled = FALSE

-----------------------------------------------------------------------------
(* getPersistentSidecar.                                                   *)

\* It runs without an await from its checks to the setting of the promise.
MustSpawn ==
    /\ ~unsupported /\ ~tripped
    /\ registered = NoChild /\ ~spawning

Get == spawning' = (spawning \/ MustSpawn)

\* A caller wants the sidecar: boot, a service, or sendCommand.
Call ==
    /\ MustSpawn
    /\ Get
    /\ stopped' = FALSE
    /\ UNCHANGED <<kids, registered, count, timers, flags, ops, failed,
                   requests, cooled>>

\* The binary was found, verified and started: callbacks, registration.
SpawnOk ==
    LET c == spawned + 1 IN
    /\ spawning /\ spawned < MaxChildren
    /\ spawning' = FALSE
    /\ spawned' = c
    /\ alive' = alive \cup {c} /\ status' = status \cup {c}
    /\ stdout' = stdout \cup {c}
    /\ registered' = c
    /\ UNCHANGED <<count, timers, flags, ops, hist>>

\* No binary, failed integrity check, or an exception: the answer is null.
SpawnFail ==
    /\ spawning /\ failed < MaxSpawnFails
    /\ spawning' = FALSE
    /\ failed' = failed + 1
    /\ UNCHANGED <<kids, registered, count, timers, flags, ops, requests,
                   stopped, cooled>>

-----------------------------------------------------------------------------
(* The end of a child.                                                     *)

ChildExit(c) ==
    /\ c \in alive
    /\ alive' = alive \ {c}
    /\ UNCHANGED <<spawned, status, stdout, registered, spawning, count,
                   timers, flags, ops, hist>>

\* stderr says UNSUPPORTED_OS.
MarkUnsupported ==
    /\ alive # {} /\ ~unsupported
    /\ unsupported' = TRUE
    /\ UNCHANGED <<kids, registered, spawning, count, timers, expected,
                   tripped, down, ops, hist>>

\* handleSidecarExit of an exit nobody asked for; `quiet`: the last restart
\* is more than five minutes ago.
Restart(quiet) ==
    LET n == IF quiet THEN 0 ELSE count IN
    \/ /\ unsupported
       /\ UNCHANGED <<count, backoff, tripped, cooloff>>
    \/ /\ ~unsupported /\ n < MaxRetries
       /\ count' = n + 1
       /\ backoff' = backoff + 1
       /\ UNCHANGED <<tripped, cooloff>>
    \/ /\ ~unsupported /\ n >= MaxRetries
       /\ tripped' = TRUE
       /\ cooloff' = cooloff + 1
       /\ UNCHANGED <<count, backoff>>

\* Mutant of ExitCallback: the dead child stays registered.
ExitCallbackKeeps(c) ==
    /\ c \in status \ alive
    /\ status' = status \ {c}
    /\ \/ (down \/ expected) /\ expected' = FALSE
          /\ UNCHANGED <<count, backoff, tripped, cooloff>>
       \/ ~(down \/ expected) /\ UNCHANGED expected
          /\ \E quiet \in BOOLEAN : Restart(quiet)
    /\ UNCHANGED <<spawned, alive, stdout, registered, spawning, forget,
                   unsupported, down, ops, hist>>

\* Mutant of ExitCallback: an expected exit does not use up the expectation.
ExitCallbackForgives(c) ==
    /\ c \in status \ alive
    /\ status' = status \ {c}
    /\ registered' = NoChild
    /\ \/ (down \/ expected)
          /\ UNCHANGED <<count, backoff, tripped, cooloff>>
       \/ ~(down \/ expected)
          /\ \E quiet \in BOOLEAN : Restart(quiet)
    /\ UNCHANGED <<spawned, alive, stdout, spawning, forget, expected,
                   unsupported, down, ops, hist>>

\* child.status resolved: whatever is registered under the name is removed.
ExitCallback(c) ==
    /\ c \in status \ alive
    /\ status' = status \ {c}
    /\ registered' = NoChild
    /\ \/ (down \/ expected) /\ expected' = FALSE
          /\ UNCHANGED <<count, backoff, tripped, cooloff>>
       \/ ~(down \/ expected) /\ UNCHANGED expected
          /\ \E quiet \in BOOLEAN : Restart(quiet)
    /\ UNCHANGED <<spawned, alive, stdout, spawning, forget, unsupported,
                   down, ops, hist>>

\* The response reader sees the end of stdout: the finally block removes
\* whatever is registered under the name.
ReaderEnd(c) ==
    /\ c \in stdout \ alive
    /\ stdout' = stdout \ {c}
    /\ registered' = NoChild
    /\ UNCHANGED <<spawned, alive, status, spawning, count, timers,
                   flags, ops, hist>>

-----------------------------------------------------------------------------
(* Timers.                                                                 *)

\* Mutant of BackoffFire: the last attempt is not made.
BackoffFireLast ==
    /\ backoff > 0
    /\ backoff' = backoff - 1
    /\ IF down \/ count = MaxRetries THEN UNCHANGED spawning ELSE Get
    /\ UNCHANGED <<kids, registered, count, cooloff, forget, flags, ops, hist>>

BackoffFire ==
    /\ backoff > 0
    /\ backoff' = backoff - 1
    /\ IF down THEN UNCHANGED spawning ELSE Get
    /\ UNCHANGED <<kids, registered, count, cooloff, forget, flags, ops,
                   hist>>

CooloffFire ==
    /\ cooloff > 0
    /\ cooloff' = cooloff - 1
    /\ tripped' = FALSE
    /\ count' = 0
    /\ cooled' = TRUE
    /\ UNCHANGED <<kids, registered, spawning, backoff, forget, expected,
                   unsupported, down, ops, failed, requests, stopped>>

ForgetFire ==
    /\ forget > 0
    /\ forget' = forget - 1
    /\ expected' = FALSE
    /\ UNCHANGED <<kids, registered, spawning, count, backoff, cooloff,
                   unsupported, tripped, down, ops, hist>>

-----------------------------------------------------------------------------
(* stopSidecar, restartSidecar and rotateSidecar, shutdown.                *)

\* stopSidecar: SIGTERM, then SIGKILL after two seconds.  A child that has
\* exited makes kill throw, and the finally block runs at once.  Nothing at
\* all happens when no child is registered.
StopBegin(o) ==
    \/ /\ registered # NoChild /\ registered \in alive
       /\ expected' = TRUE
       /\ target' = [target EXCEPT ![o] = registered]
       /\ op' = [op EXCEPT ![o] = "waiting"]
       /\ UNCHANGED <<registered, forget>>
    \/ /\ registered # NoChild /\ registered \notin alive
       /\ expected' = TRUE
       /\ op' = [op EXCEPT ![o] = "stopped"]
       /\ registered' = NoChild /\ forget' = forget + 1
       /\ UNCHANGED target
    \/ /\ registered = NoChild
       /\ op' = [op EXCEPT ![o] = "stopped"]
       /\ UNCHANGED <<expected, target, registered, forget>>

\* The stop, restart and rotation requests; one of each kind at a time.
Request(o) ==
    /\ o \in {"stop", "restart"} /\ op[o] = "idle" /\ requests < MaxOps
    /\ StopBegin(o)
    /\ requests' = requests + 1
    /\ UNCHANGED <<kids, spawning, count, backoff, cooloff, unsupported,
                   tripped, down, failed, stopped, cooled>>

\* Mutant of StopEnd: it only cleans up after a child still registered.
StopEndOwn(o) ==
    /\ op[o] = "waiting" /\ target[o] \notin alive \cup status
    /\ registered = target[o]
    /\ op' = [op EXCEPT ![o] = "stopped"]
    /\ registered' = NoChild
    /\ forget' = forget + 1
    /\ UNCHANGED <<kids, spawning, count, backoff, cooloff, flags, target, hist>>

\* process.status resolved, after the exit callback: the finally block.
StopEnd(o) ==
    /\ op[o] = "waiting" /\ target[o] \notin alive \cup status
    /\ op' = [op EXCEPT ![o] = "stopped"]
    /\ registered' = NoChild
    /\ forget' = forget + 1
    /\ UNCHANGED <<kids, spawning, count, backoff, cooloff, flags, target,
                   hist>>

\* What follows the stop: nothing, or getPersistentSidecar.
StopThen(o) ==
    /\ o # "shutdown" /\ op[o] = "stopped"
    /\ op' = [op EXCEPT ![o] = "idle"]
    /\ stopped' = (o = "stop")
    /\ IF o = "restart" THEN Get ELSE UNCHANGED spawning
    /\ UNCHANGED <<kids, registered, count, timers, flags, target, failed,
                   requests, cooled>>

\* Timers are cleared before the fleet is stopped.
ShutdownBegin ==
    /\ ~down
    /\ down' = TRUE
    /\ backoff' = 0 /\ cooloff' = 0
    /\ UNCHANGED <<kids, registered, spawning, count, forget, expected,
                   unsupported, tripped, ops, hist>>

\* SIGINT or SIGTERM: no timer is cleared, the backoff timer looks at the flag.
CleanupBegin ==
    /\ ~down
    /\ down' = TRUE
    /\ UNCHANGED <<kids, registered, spawning, count, timers, expected,
                   unsupported, tripped, ops, hist>>

ShutdownStop ==
    /\ down /\ op["shutdown"] = "idle"
    /\ StopBegin("shutdown")
    /\ UNCHANGED <<kids, spawning, count, backoff, cooloff, unsupported,
                   tripped, down, hist>>

-----------------------------------------------------------------------------
Next ==
    \/ Call \/ SpawnOk \/ SpawnFail \/ MarkUnsupported
    \/ BackoffFire \/ CooloffFire \/ ForgetFire
    \/ ShutdownBegin \/ CleanupBegin \/ ShutdownStop
    \/ \E c \in Children : \/ ChildExit(c) \/ ExitCallback(c)
                           \/ ReaderEnd(c)
    \/ \E o \in Ops : Request(o) \/ StopEnd(o) \/ StopThen(o)

\* Timers fire, promises settle, a child sent SIGTERM and SIGKILL exits.
Fairness ==
    /\ WF_vars(SpawnOk) /\ WF_vars(BackoffFire) /\ WF_vars(CooloffFire)
    /\ WF_vars(ShutdownStop)
    /\ \A c \in Children : /\ WF_vars(ExitCallback(c)) /\ WF_vars(ReaderEnd(c))
                           /\ WF_vars((\E o \in Ops : op[o] = "waiting" /\ target[o] = c)
                                      /\ ChildExit(c))
    /\ \A o \in Ops : WF_vars(StopEnd(o)) /\ WF_vars(StopThen(o))

Spec == Init /\ [][Next]_vars /\ Fairness

-----------------------------------------------------------------------------
(* Properties.                                                             *)

\* Types, and the counters' ranges.
TypeOK ==
    /\ spawned \in 0 .. MaxChildren /\ registered \in 0 .. spawned
    /\ alive \subseteq status /\ alive \subseteq stdout
    /\ status \cup stdout \subseteq 1 .. spawned
    /\ spawning \in BOOLEAN /\ expected \in BOOLEAN /\ tripped \in BOOLEAN
    /\ unsupported \in BOOLEAN /\ down \in BOOLEAN /\ stopped \in BOOLEAN
    /\ cooled \in BOOLEAN
    /\ count \in 0 .. MaxRetries
    /\ backoff \in Nat /\ cooloff \in Nat /\ forget \in Nat
    /\ op \in [Ops -> {"idle", "waiting", "stopped"}]
    /\ target \in [Ops -> 0 .. spawned]
    /\ failed \in 0 .. MaxSpawnFails /\ requests \in 0 .. MaxOps

\* getPersistentSidecar never hands out a corpse for good: a registered child
\* that has exited still has its exit callback to come.
NoGhost == registered # NoChild /\ registered \notin alive => registered \in status

Busy == spawning \/ backoff > 0 \/ tripped \/ \E o \in Ops : op[o] # "idle"

\* A sidecar that is wanted is never left dead with nothing under way to
\* bring it back, unless a spawn failed or the breaker was reset.
Supervised ==
    spawned > 0 /\ alive = {} /\ status = {} /\ ~stopped /\ ~unsupported /\ ~down
        => Busy \/ failed > 0 \/ cooled

\* The crash-loop breaker never stays for good: a reset is on its way.
BreakerResets == tripped => cooloff > 0 \/ down

\* A wanted sidecar that died comes back, unless the breaker stops it, a
\* spawn failed, or the model's bound on children is reached.
Recovers ==
    spawned > 0 /\ alive = {} ~>
        \/ alive # {} \/ stopped \/ unsupported \/ down \/ tripped \/ cooled
        \/ failed > 0 \/ spawned = MaxChildren

\* A shutdown that has begun gets past the child it waits for.
ShutdownEnds == down ~> op["shutdown"] = "stopped"
=============================================================================
