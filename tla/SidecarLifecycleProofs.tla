------------------------ MODULE SidecarLifecycleProofs ------------------------
(***************************************************************************)
(* Proofs about SidecarLifecycle for every limit of restart attempts and   *)
(* for any number of children, failed spawns and requests.                 *)
(*                                                                         *)
(* Supervised needs most of the argument.  An exit is forgiven only while  *)
(* it is expected, any exit uses the expectation up, and the child a stop  *)
(* was aimed at has not been noticed dead as long as it stands (Owed).     *)
(* When nothing else is under way, a second child is left then (Spare), so *)
(* the last exit of a wanted sidecar is never the forgiven one (Kept).     *)
(***************************************************************************)
EXTENDS SidecarLifecycle, MCAppLifecycle, TLAPS

-----------------------------------------------------------------------------
(* The inductive invariant *)

\* The registered child's exit has not been noticed.
Registered == registered # NoChild => registered \in status

Wanted ==
    spawned > 0 /\ ~stopped /\ ~unsupported /\ ~down /\ failed = 0 /\ ~cooled

\* An expected exit is still owed: that of a child no longer registered, or
\* of one a request waits for.
Owed ==
    expected => \E t \in status :
        t # registered \/ \E o \in Ops : op[o] = "waiting" /\ target[o] = t

\* With an expectation and nothing under way there are two exits to come.
Spare == Wanted /\ ~Busy /\ expected => \E c, d \in status : c # d

\* With nothing under way there is an exit to come.
Kept == Wanted /\ ~Busy => status # {}

IInv == TypeOK /\ Registered /\ BreakerResets /\ Owed /\ Spare /\ Kept

-----------------------------------------------------------------------------
(* Type correctness *)

\* The type invariant, by kinds of variables: each is within reach of one of
\* the provers.
KidsOK ==
    /\ spawned \in 0 .. MaxChildren /\ registered \in 0 .. spawned
    /\ alive \subseteq status /\ alive \subseteq stdout
    /\ status \cup stdout \subseteq 1 .. spawned
FlagsOK ==
    /\ spawning \in BOOLEAN /\ expected \in BOOLEAN /\ tripped \in BOOLEAN
    /\ unsupported \in BOOLEAN /\ down \in BOOLEAN /\ stopped \in BOOLEAN
    /\ cooled \in BOOLEAN
CountsOK ==
    /\ count \in 0 .. MaxRetries
    /\ backoff \in Nat /\ cooloff \in Nat /\ forget \in Nat
    /\ failed \in 0 .. MaxSpawnFails /\ requests \in 0 .. MaxOps
ProgressOK ==
    /\ op \in [Ops -> {"idle", "waiting", "stopped"}]
    /\ target \in [Ops -> 0 .. spawned]

\* The four parts make up the type invariant.
LEMMA TypeParts == TypeOK <=> KidsOK /\ FlagsOK /\ CountsOK /\ ProgressOK
BY DEF TypeOK, KidsOK, FlagsOK, CountsOK, ProgressOK

\* The same in the next state.
LEMMA TypePartsNext == TypeOK' <=> KidsOK' /\ FlagsOK' /\ CountsOK' /\ ProgressOK'
BY DEF TypeOK, KidsOK, FlagsOK, CountsOK, ProgressOK

\* The counters and flags after an exit nobody asked for.
LEMMA RestartType ==
    ASSUME TypeOK, NEW quiet \in BOOLEAN, Restart(quiet)
    PROVE  /\ count' \in 0 .. MaxRetries /\ tripped' \in BOOLEAN
           /\ backoff' \in Nat /\ cooloff' \in Nat
<1> DEFINE n == IF quiet THEN 0 ELSE count
<1>1. FlagsOK /\ CountsOK
  BY TypeParts
<1>2. n \in 0 .. MaxRetries
  BY <1>1, SidecarAssumption DEF CountsOK
<1>3. tripped' \in BOOLEAN
  BY <1>1 DEF Restart, FlagsOK
<1>4. CASE UNCHANGED <<count, backoff, tripped, cooloff>>
  BY <1>1, <1>3, <1>4 DEF CountsOK
<1>5. CASE /\ n < MaxRetries /\ count' = n + 1 /\ backoff' = backoff + 1
           /\ UNCHANGED <<tripped, cooloff>>
  BY <1>1, <1>2, <1>3, <1>5, SidecarAssumption DEF CountsOK
<1>6. CASE /\ tripped' = TRUE /\ cooloff' = cooloff + 1
           /\ UNCHANGED <<count, backoff>>
  BY <1>1, <1>3, <1>6 DEF CountsOK
<1> QED BY <1>4, <1>5, <1>6 DEF Restart

\* What the beginning of a stop writes.
LEMMA StopType ==
    ASSUME TypeOK, NEW o \in Ops, StopBegin(o)
    PROVE  /\ expected' \in BOOLEAN /\ forget' \in Nat
           /\ registered' \in 0 .. spawned
           /\ op' \in [Ops -> {"idle", "waiting", "stopped"}]
           /\ target' \in [Ops -> 0 .. spawned]
<1>1. KidsOK /\ FlagsOK /\ CountsOK /\ ProgressOK
  BY TypeParts
<1>2. expected' \in BOOLEAN
  BY <1>1 DEF StopBegin, FlagsOK
<1>3. forget' \in Nat /\ registered' \in 0 .. spawned
  BY <1>1 DEF StopBegin, KidsOK, CountsOK, NoChild
<1>4. /\ op' \in [Ops -> {"idle", "waiting", "stopped"}]
      /\ target' \in [Ops -> 0 .. spawned]
  BY <1>1 DEF StopBegin, KidsOK, ProgressOK
<1> QED BY <1>2, <1>3, <1>4

\* Every step keeps the types.
LEMMA TypeNext == TypeOK /\ [Next]_vars => TypeOK'
<1> SUFFICES ASSUME KidsOK, FlagsOK, CountsOK, ProgressOK, TypeOK, [Next]_vars
             PROVE  KidsOK' /\ FlagsOK' /\ CountsOK' /\ ProgressOK'
  BY TypeParts, TypePartsNext
<1> USE SidecarAssumption DEF kids, timers, flags, ops, hist
<1>1. CASE Call
  <2>1. KidsOK'
    BY <1>1 DEF Call, Get, MustSpawn, KidsOK, NoChild
  <2>2. FlagsOK'
    BY <1>1 DEF Call, Get, MustSpawn, FlagsOK
  <2>3. CountsOK'
    BY <1>1 DEF Call, Get, MustSpawn, CountsOK
  <2>4. ProgressOK'
    BY <1>1 DEF Call, Get, MustSpawn, ProgressOK, KidsOK
  <2> QED BY <2>1, <2>2, <2>3, <2>4
<1>2. CASE SpawnOk
  <2>1. KidsOK'
    BY <1>2 DEF SpawnOk, KidsOK, NoChild
  <2>2. FlagsOK'
    BY <1>2 DEF SpawnOk, FlagsOK
  <2>3. CountsOK'
    BY <1>2 DEF SpawnOk, CountsOK
  <2>4. ProgressOK'
    BY <1>2 DEF SpawnOk, ProgressOK, KidsOK
  <2> QED BY <2>1, <2>2, <2>3, <2>4
<1>3. CASE SpawnFail
  <2>1. KidsOK'
    BY <1>3 DEF SpawnFail, KidsOK, NoChild
  <2>2. FlagsOK'
    BY <1>3 DEF SpawnFail, FlagsOK
  <2>3. CountsOK'
    BY <1>3 DEF SpawnFail, CountsOK
  <2>4. ProgressOK'
    BY <1>3 DEF SpawnFail, ProgressOK, KidsOK
  <2> QED BY <2>1, <2>2, <2>3, <2>4
<1>4. CASE MarkUnsupported
  <2>1. KidsOK'
    BY <1>4 DEF MarkUnsupported, KidsOK, NoChild
  <2>2. FlagsOK'
    BY <1>4 DEF MarkUnsupported, FlagsOK
  <2>3. CountsOK'
    BY <1>4 DEF MarkUnsupported, CountsOK
  <2>4. ProgressOK'
    BY <1>4 DEF MarkUnsupported, ProgressOK, KidsOK
  <2> QED BY <2>1, <2>2, <2>3, <2>4
<1>5. CASE BackoffFire
  <2>1. KidsOK'
    BY <1>5 DEF BackoffFire, Get, MustSpawn, KidsOK, NoChild
  <2>2. FlagsOK'
    BY <1>5 DEF BackoffFire, Get, MustSpawn, FlagsOK
  <2>3. CountsOK'
    BY <1>5 DEF BackoffFire, Get, MustSpawn, CountsOK
  <2>4. ProgressOK'
    BY <1>5 DEF BackoffFire, Get, MustSpawn, ProgressOK, KidsOK
  <2> QED BY <2>1, <2>2, <2>3, <2>4
<1>6. CASE CooloffFire
  <2>1. KidsOK'
    BY <1>6 DEF CooloffFire, KidsOK, NoChild
  <2>2. FlagsOK'
    BY <1>6 DEF CooloffFire, FlagsOK
  <2>3. CountsOK'
    BY <1>6 DEF CooloffFire, CountsOK
  <2>4. ProgressOK'
    BY <1>6 DEF CooloffFire, ProgressOK, KidsOK
  <2> QED BY <2>1, <2>2, <2>3, <2>4
<1>7. CASE ForgetFire
  <2>1. KidsOK'
    BY <1>7 DEF ForgetFire, KidsOK, NoChild
  <2>2. FlagsOK'
    BY <1>7 DEF ForgetFire, FlagsOK
  <2>3. CountsOK'
    BY <1>7 DEF ForgetFire, CountsOK
  <2>4. ProgressOK'
    BY <1>7 DEF ForgetFire, ProgressOK, KidsOK
  <2> QED BY <2>1, <2>2, <2>3, <2>4
<1>8. CASE ShutdownBegin \/ CleanupBegin
  <2>1. KidsOK'
    BY <1>8 DEF ShutdownBegin, CleanupBegin, KidsOK, NoChild
  <2>2. FlagsOK'
    BY <1>8 DEF ShutdownBegin, CleanupBegin, FlagsOK
  <2>3. CountsOK'
    BY <1>8 DEF ShutdownBegin, CleanupBegin, CountsOK
  <2>4. ProgressOK'
    BY <1>8 DEF ShutdownBegin, CleanupBegin, ProgressOK, KidsOK
  <2> QED BY <2>1, <2>2, <2>3, <2>4
<1>9. CASE ShutdownStop
  <2>1. StopBegin("shutdown") /\ "shutdown" \in Ops
    BY <1>9 DEF ShutdownStop, Ops
  <2>2. /\ expected' \in BOOLEAN /\ forget' \in Nat
        /\ registered' \in 0 .. spawned
        /\ op' \in [Ops -> {"idle", "waiting", "stopped"}]
        /\ target' \in [Ops -> 0 .. spawned]
    BY <2>1, StopType
  <2>3. UNCHANGED <<kids, spawning, count, backoff, cooloff, unsupported,
                    tripped, down, hist>>
    BY <1>9 DEF ShutdownStop
  <2>4. KidsOK' /\ CountsOK' /\ ProgressOK'
    BY <2>2, <2>3 DEF KidsOK, CountsOK, ProgressOK
  <2>5. FlagsOK'
    BY <2>2, <2>3 DEF FlagsOK
  <2> QED BY <2>4, <2>5
<1>10. ASSUME NEW c \in Children, ChildExit(c)
       PROVE  KidsOK' /\ FlagsOK' /\ CountsOK' /\ ProgressOK'
  <2>1. KidsOK'
    BY <1>10 DEF ChildExit, KidsOK, NoChild
  <2>2. FlagsOK'
    BY <1>10 DEF ChildExit, FlagsOK
  <2>3. CountsOK'
    BY <1>10 DEF ChildExit, CountsOK
  <2>4. ProgressOK'
    BY <1>10 DEF ChildExit, ProgressOK, KidsOK
  <2> QED BY <2>1, <2>2, <2>3, <2>4
<1>11. ASSUME NEW c \in Children, ExitCallback(c)
       PROVE  KidsOK' /\ FlagsOK' /\ CountsOK' /\ ProgressOK'
  <2>1. /\ count' \in 0 .. MaxRetries /\ tripped' \in BOOLEAN
        /\ backoff' \in Nat /\ cooloff' \in Nat /\ expected' \in BOOLEAN
    <3>1. CASE \E quiet \in BOOLEAN : Restart(quiet) /\ UNCHANGED expected
      <4>1. expected' \in BOOLEAN
        BY <3>1 DEF FlagsOK
      <4> QED BY <3>1, <4>1, RestartType
    <3>2. CASE /\ expected' = FALSE
               /\ UNCHANGED <<count, backoff, tripped, cooloff>>
      <4>1. expected' \in BOOLEAN /\ tripped' \in BOOLEAN
        BY <3>2 DEF FlagsOK
      <4> QED BY <3>2, <4>1 DEF CountsOK
    <3> QED BY <1>11, <3>1, <3>2 DEF ExitCallback
  <2>2. /\ status' = status \ {c} /\ c \notin alive /\ registered' = NoChild
        /\ UNCHANGED <<spawned, alive, stdout, spawning, forget, unsupported,
                       down, ops, hist>>
    BY <1>11 DEF ExitCallback
  <2>3. KidsOK' /\ CountsOK' /\ ProgressOK'
    BY <2>1, <2>2 DEF KidsOK, CountsOK, ProgressOK, NoChild
  <2>4. FlagsOK'
    BY <2>1, <2>2 DEF FlagsOK
  <2> QED BY <2>3, <2>4
<1>12. ASSUME NEW c \in Children, ReaderEnd(c)
       PROVE  KidsOK' /\ FlagsOK' /\ CountsOK' /\ ProgressOK'
  <2>1. KidsOK'
    BY <1>12 DEF ReaderEnd, KidsOK, NoChild
  <2>2. FlagsOK'
    BY <1>12 DEF ReaderEnd, FlagsOK
  <2>3. CountsOK'
    BY <1>12 DEF ReaderEnd, CountsOK
  <2>4. ProgressOK'
    BY <1>12 DEF ReaderEnd, ProgressOK, KidsOK
  <2> QED BY <2>1, <2>2, <2>3, <2>4
<1>13. ASSUME NEW o \in Ops, Request(o)
       PROVE  KidsOK' /\ FlagsOK' /\ CountsOK' /\ ProgressOK'
  <2>1. StopBegin(o)
    BY <1>13 DEF Request
  <2>2. /\ expected' \in BOOLEAN /\ forget' \in Nat
        /\ registered' \in 0 .. spawned
        /\ op' \in [Ops -> {"idle", "waiting", "stopped"}]
        /\ target' \in [Ops -> 0 .. spawned]
    BY <2>1, StopType
  <2>3. /\ requests < MaxOps /\ requests' = requests + 1
        /\ UNCHANGED <<kids, spawning, count, backoff, cooloff, unsupported,
                       tripped, down, failed, stopped, cooled>>
    BY <1>13 DEF Request
  <2>4. KidsOK' /\ CountsOK' /\ ProgressOK'
    BY <2>2, <2>3 DEF KidsOK, CountsOK, ProgressOK
  <2>5. FlagsOK'
    BY <2>2, <2>3 DEF FlagsOK
  <2> QED BY <2>4, <2>5
<1>14. ASSUME NEW o \in Ops, StopEnd(o)
       PROVE  KidsOK' /\ FlagsOK' /\ CountsOK' /\ ProgressOK'
  <2>1. KidsOK'
    BY <1>14 DEF StopEnd, KidsOK, NoChild
  <2>2. FlagsOK'
    BY <1>14 DEF StopEnd, FlagsOK
  <2>3. CountsOK'
    BY <1>14 DEF StopEnd, CountsOK
  <2>4. ProgressOK'
    BY <1>14 DEF StopEnd, ProgressOK, KidsOK
  <2> QED BY <2>1, <2>2, <2>3, <2>4
<1>15. ASSUME NEW o \in Ops, StopThen(o)
       PROVE  KidsOK' /\ FlagsOK' /\ CountsOK' /\ ProgressOK'
  <2>1. KidsOK'
    BY <1>15 DEF StopThen, Get, MustSpawn, KidsOK, NoChild
  <2>2. FlagsOK'
    BY <1>15 DEF StopThen, Get, MustSpawn, FlagsOK
  <2>3. CountsOK'
    BY <1>15 DEF StopThen, Get, MustSpawn, CountsOK
  <2>4. ProgressOK'
    BY <1>15 DEF StopThen, Get, MustSpawn, ProgressOK, KidsOK
  <2> QED BY <2>1, <2>2, <2>3, <2>4
<1>16. CASE UNCHANGED vars
  <2>1. KidsOK'
    BY <1>16 DEF vars, KidsOK, NoChild
  <2>2. FlagsOK'
    BY <1>16 DEF vars, FlagsOK
  <2>3. CountsOK'
    BY <1>16 DEF vars, CountsOK
  <2>4. ProgressOK'
    BY <1>16 DEF vars, ProgressOK, KidsOK
  <2> QED BY <2>1, <2>2, <2>3, <2>4
<1> QED BY <1>1, <1>2, <1>3, <1>4, <1>5, <1>6, <1>7, <1>8, <1>9, <1>10, <1>11,
           <1>12, <1>13, <1>14, <1>15, <1>16 DEF Next

-----------------------------------------------------------------------------
(* The invariant is inductive *)

\* Nothing is under way before the first call, and the sidecar never ran.
LEMMA InitInv == Init => IInv
<1> SUFFICES ASSUME Init PROVE IInv
  OBVIOUS
<1>1. KidsOK /\ CountsOK /\ ProgressOK
  BY SidecarAssumption DEF Init, KidsOK, CountsOK, ProgressOK, NoChild
<1>2. FlagsOK
  BY DEF Init, FlagsOK
<1>3. Registered /\ BreakerResets /\ Owed
  BY DEF Init, Registered, BreakerResets, Owed
<1>4. Spare /\ Kept
  BY DEF Init, Spare, Kept, Wanted
<1> QED BY <1>1, <1>2, <1>3, <1>4, TypeParts DEF IInv

\* A sidecar that is looked for is being spawned or is registered, unless the
\* breaker or the operating system forbids it.
LEMMA GetFinds ==
    ASSUME Get, ~unsupported
    PROVE  spawning' \/ tripped \/ registered # NoChild
BY DEF Get, MustSpawn

\* Two exits to come, when one is owed and the registered child's is another.
LEMMA TwoExits ==
    ASSUME Registered, Owed, expected, registered # NoChild,
           \A o \in Ops : op[o] # "waiting"
    PROVE  \E c, d \in status : c # d
BY DEF Registered, Owed

\* A registered child's exit is not noticed before its callback, which
\* removes the registration, whichever child it belongs to.
LEMMA RegisteredNext == TypeOK /\ Registered /\ [Next]_vars => Registered'
<1> SUFFICES ASSUME TypeOK, Registered, [Next]_vars PROVE Registered'
  OBVIOUS
<1> USE DEF Registered, kids, timers, flags, ops, hist
<1>1. CASE SpawnOk
  BY <1>1 DEF SpawnOk
<1>2. CASE ShutdownStop
  BY <1>2 DEF ShutdownStop, StopBegin
<1>3. ASSUME NEW c \in Children, ChildExit(c) \/ ExitCallback(c) \/ ReaderEnd(c)
      PROVE  Registered'
  BY <1>3 DEF ChildExit, ExitCallback, ReaderEnd
<1>4. ASSUME NEW o \in Ops, Request(o) \/ StopEnd(o) \/ StopThen(o)
      PROVE  Registered'
  BY <1>4 DEF Request, StopBegin, StopEnd, StopThen
<1>5. CASE \/ Call \/ SpawnFail \/ MarkUnsupported \/ BackoffFire \/ CooloffFire
           \/ ForgetFire \/ ShutdownBegin \/ CleanupBegin \/ UNCHANGED vars
  BY <1>5 DEF Call, SpawnFail, MarkUnsupported, BackoffFire, CooloffFire,
              ForgetFire, ShutdownBegin, CleanupBegin, vars
<1> QED BY <1>1, <1>2, <1>3, <1>4, <1>5 DEF Next

\* A trip starts a reset timer; only a shutdown takes one away.
LEMMA BreakerNext == TypeOK /\ BreakerResets /\ [Next]_vars => BreakerResets'
<1> SUFFICES ASSUME TypeOK, BreakerResets, [Next]_vars PROVE BreakerResets'
  OBVIOUS
<1> USE DEF BreakerResets, kids, timers, flags, ops, hist
<1>0. cooloff \in Nat
  BY TypeParts DEF CountsOK
<1>1. CASE CooloffFire
  BY <1>1 DEF CooloffFire
<1>2. CASE ShutdownBegin \/ CleanupBegin
  BY <1>2 DEF ShutdownBegin, CleanupBegin
<1>3. ASSUME NEW c \in Children, ExitCallback(c) PROVE BreakerResets'
  <2>1. CASE cooloff' = cooloff + 1
    <3>1. cooloff' > 0
      BY <1>0, <2>1
    <3> QED BY <3>1
  <2>2. CASE UNCHANGED <<tripped, cooloff, down>>
    BY <2>2
  <2> QED BY <1>3, <2>1, <2>2 DEF ExitCallback, Restart
<1>4. ASSUME NEW c \in Children, ChildExit(c) \/ ReaderEnd(c) PROVE BreakerResets'
  BY <1>4 DEF ChildExit, ReaderEnd
<1>5. ASSUME NEW o \in Ops, Request(o) \/ StopEnd(o) \/ StopThen(o)
      PROVE  BreakerResets'
  BY <1>5 DEF Request, StopEnd, StopThen
<1>6. CASE \/ Call \/ SpawnOk \/ SpawnFail \/ MarkUnsupported \/ BackoffFire
           \/ ForgetFire \/ ShutdownStop \/ UNCHANGED vars
  BY <1>6 DEF Call, SpawnOk, SpawnFail, MarkUnsupported, BackoffFire, ForgetFire,
              ShutdownStop, vars
<1> QED BY <1>1, <1>2, <1>3, <1>4, <1>5, <1>6 DEF Next

\* Any exit uses up the expectation, so as long as it stands nobody has
\* noticed the exit of the child the stop was aimed at.
LEMMA OwedNext == TypeOK /\ Registered /\ Owed /\ [Next]_vars => Owed'
<1> SUFFICES ASSUME TypeOK, Registered, Owed, [Next]_vars, expected'
             PROVE  \E t \in status' :
                      \/ t # registered'
                      \/ \E o \in Ops : op'[o] = "waiting" /\ target'[o] = t
  BY DEF Owed
<1> USE DEF kids, timers, flags, ops, hist
<1>0. /\ status \subseteq 1 .. spawned /\ spawned \in Nat
      /\ op \in [Ops -> {"idle", "waiting", "stopped"}]
      /\ target \in [Ops -> 0 .. spawned]
  BY TypeParts, SidecarAssumption DEF KidsOK, ProgressOK
<1>z. NoChild \notin status
  BY <1>0 DEF NoChild
<1>d. ASSUME expected, UNCHANGED <<status, op, target>>, registered' = NoChild
      PROVE  \E t \in status' : t # registered'
  BY <1>z, <1>d DEF Owed
<1>1. CASE SpawnOk
  <2>1. PICK t \in status : TRUE
    BY <1>1 DEF SpawnOk, Owed
  <2>2. t # spawned + 1
    BY <1>0, <2>1
  <2> QED BY <1>1, <2>1, <2>2 DEF SpawnOk
<1>2. ASSUME NEW o \in Ops, StopBegin(o), status' = status
      PROVE  \E t \in status' :
               \/ t # registered'
               \/ \E p \in Ops : op'[p] = "waiting" /\ target'[p] = t
  <2>1. CASE registered # NoChild /\ registered \in alive
    <3>1. op'[o] = "waiting" /\ target'[o] = registered /\ registered \in status
      BY <1>0, <1>2, <2>1 DEF StopBegin, Registered
    <3> QED BY <1>2, <3>1
  <2>2. CASE registered # NoChild /\ registered \notin alive
    <3>1. registered \in status /\ registered' = NoChild
      BY <1>2, <2>2 DEF StopBegin, Registered
    <3> QED BY <1>2, <2>2, <3>1
  <2>3. CASE registered = NoChild
    <3>1. expected /\ registered' = registered
      BY <1>2, <2>3 DEF StopBegin
    <3>2. PICK t \in status : TRUE
      BY <3>1 DEF Owed
    <3> QED BY <1>2, <1>z, <2>3, <3>1, <3>2
  <2> QED BY <2>1, <2>2, <2>3
<1>3. CASE ShutdownStop
  BY <1>2, <1>3 DEF ShutdownStop, Ops
<1>4. ASSUME NEW c \in Children, ExitCallback(c) PROVE FALSE
  BY <1>4 DEF ExitCallback
<1>5. ASSUME NEW c \in Children, ReaderEnd(c)
      PROVE  \E t \in status' : t # registered'
  BY <1>d, <1>5 DEF ReaderEnd
<1>6. ASSUME NEW c \in Children, ChildExit(c)
      PROVE  Owed'
  BY <1>6 DEF ChildExit, Owed
<1>7. ASSUME NEW o \in Ops, Request(o)
      PROVE  \E t \in status' :
               \/ t # registered'
               \/ \E p \in Ops : op'[p] = "waiting" /\ target'[p] = t
  BY <1>2, <1>7 DEF Request
<1>8. ASSUME NEW o \in Ops, StopEnd(o)
      PROVE  \E t \in status' : t # registered'
  BY <1>8, <1>z DEF StopEnd, Owed
<1>9. ASSUME NEW o \in Ops, StopThen(o) PROVE Owed'
  <2>1. \A p \in Ops : op[p] = "waiting" => op'[p] = "waiting"
    BY <1>0, <1>9 DEF StopThen
  <2> QED BY <1>9, <2>1 DEF StopThen, Owed
<1>10. CASE ForgetFire
  BY <1>10 DEF ForgetFire
<1>11. CASE \/ Call \/ SpawnFail \/ MarkUnsupported \/ BackoffFire \/ CooloffFire
            \/ ShutdownBegin \/ CleanupBegin \/ UNCHANGED vars
  <2>1. UNCHANGED <<expected, status, registered, op, target>>
    BY <1>11 DEF Call, SpawnFail, MarkUnsupported, BackoffFire, CooloffFire,
                 ShutdownBegin, CleanupBegin, vars
  <2> QED BY <2>1 DEF Owed
<1> QED BY <1>1, <1>3, <1>4, <1>5, <1>6, <1>7, <1>8, <1>9, <1>10, <1>11
        DEF Next, Owed

\* With nothing under way a wanted sidecar has an exit to come, and two of
\* them while one is expected: a restart timer that fires, or the end of a
\* restart, finds a registered child, and the exit that is forgiven is not
\* the last one.
LEMMA SupervisionNext == IInv /\ [Next]_vars => Spare' /\ Kept'
<1> SUFFICES ASSUME IInv, [Next]_vars, Wanted', ~Busy'
             PROVE  (expected' => \E c, d \in status' : c # d) /\ status' # {}
  BY DEF Spare, Kept
<1> USE DEF kids, timers, flags, ops, hist
<1>0. /\ status \subseteq 1 .. spawned /\ spawned \in Nat
      /\ op \in [Ops -> {"idle", "waiting", "stopped"}]
      /\ backoff \in Nat /\ failed \in Nat
  BY TypeParts, SidecarAssumption DEF IInv, KidsOK, ProgressOK, CountsOK
<1>i. \A o \in Ops : op'[o] = "idle"
  BY DEF Busy
<1>g. ASSUME Get, UNCHANGED <<status, expected, tripped, unsupported>>,
             \A o \in Ops : op[o] # "waiting"
      PROVE  (expected' => \E c, d \in status' : c # d) /\ status' # {}
  <2>1. registered # NoChild
    BY <1>g, GetFinds DEF Wanted, Busy
  <2>2. status' # {}
    BY <1>g, <2>1 DEF IInv, Registered
  <2>3. expected => \E c, d \in status : c # d
    BY <1>g, <2>1, TwoExits DEF IInv
  <2> QED BY <1>g, <2>2, <2>3
<1>s. ASSUME UNCHANGED <<status, expected, spawned, stopped, unsupported, down,
                         failed, cooled, spawning, backoff, tripped, op>>
      PROVE  (expected' => \E c, d \in status' : c # d) /\ status' # {}
  <2>1. Wanted /\ ~Busy
    BY <1>s DEF Wanted, Busy
  <2> QED BY <1>s, <2>1 DEF IInv, Spare, Kept
<1>1. CASE Call
  BY <1>1 DEF Call, Get, Busy
<1>2. CASE SpawnOk
  <2>1. spawned + 1 \in status' /\ spawned + 1 \notin status
    BY <1>0, <1>2 DEF SpawnOk
  <2>2. ASSUME expected' PROVE \E c, d \in status' : c # d
    <3>1. PICK t \in status : TRUE
      BY <1>2, <2>2 DEF SpawnOk, IInv, Owed
    <3>2. t \in status' /\ t # spawned + 1
      BY <1>2, <2>1, <3>1 DEF SpawnOk
    <3> QED BY <2>1, <3>2
  <2> QED BY <2>1, <2>2
<1>3. CASE SpawnFail
  BY <1>0, <1>3 DEF SpawnFail, Wanted
<1>4. CASE MarkUnsupported
  BY <1>4 DEF MarkUnsupported, Wanted
<1>5. CASE BackoffFire
  <2>1. Get /\ UNCHANGED <<status, expected, tripped, unsupported, op>>
    BY <1>5 DEF BackoffFire, Wanted
  <2> QED BY <1>g, <1>i, <2>1
<1>6. CASE CooloffFire
  BY <1>6 DEF CooloffFire, Wanted
<1>7. CASE ForgetFire
  <2>1. Wanted /\ ~Busy
    BY <1>7 DEF ForgetFire, Wanted, Busy
  <2> QED BY <1>7, <2>1 DEF ForgetFire, IInv, Kept
<1>8. CASE ShutdownBegin \/ CleanupBegin \/ ShutdownStop
  BY <1>8 DEF ShutdownBegin, CleanupBegin, ShutdownStop, Wanted
<1>9. ASSUME NEW c \in Children, ChildExit(c) \/ ReaderEnd(c)
      PROVE  (expected' => \E d, e \in status' : d # e) /\ status' # {}
  BY <1>9, <1>s DEF ChildExit, ReaderEnd
<1>10. ASSUME NEW c \in Children, ExitCallback(c)
       PROVE  ~expected' /\ status' # {}
  <2>1. ~down /\ status' = status \ {c}
        /\ UNCHANGED <<spawned, stopped, unsupported, down, failed, cooled,
                       spawning, op>>
    BY <1>10 DEF ExitCallback, Wanted
  <2>2. CASE expected /\ expected' = FALSE /\ UNCHANGED <<backoff, tripped>>
    <3>1. Wanted /\ ~Busy
      BY <2>1, <2>2 DEF Wanted, Busy
    <3>2. PICK d, e \in status : d # e
      BY <2>2, <3>1 DEF IInv, Spare
    <3> QED BY <2>1, <2>2, <3>2
  <2>3. ASSUME NEW quiet \in BOOLEAN, Restart(quiet) PROVE FALSE
    <3>1. ~unsupported /\ backoff' = 0 /\ ~tripped'
      <4>1. backoff' \in Nat
        BY <2>3, RestartType DEF IInv
      <4> QED BY <2>1, <4>1 DEF Wanted, Busy
    <3>2. backoff' = backoff + 1
      BY <2>3, <3>1 DEF Restart
    <3> QED BY <1>0, <3>1, <3>2
  <2> QED BY <1>10, <2>1, <2>2, <2>3 DEF ExitCallback
<1>11. ASSUME NEW o \in Ops, Request(o) \/ StopEnd(o) PROVE FALSE
  <2>1. op'[o] # "idle"
    BY <1>0, <1>11 DEF Request, StopBegin, StopEnd
  <2> QED BY <1>i, <2>1
<1>12. ASSUME NEW o \in Ops, StopThen(o)
       PROVE  (expected' => \E c, d \in status' : c # d) /\ status' # {}
  <2>1. o = "restart"
    BY <1>12 DEF StopThen, Ops, Wanted
  <2>2. Get /\ UNCHANGED <<status, expected, tripped, unsupported>>
    BY <1>12, <2>1 DEF StopThen
  <2>3. \A p \in Ops : op[p] # "waiting"
    BY <1>0, <1>i, <1>12 DEF StopThen
  <2> QED BY <1>g, <2>2, <2>3
<1>13. CASE UNCHANGED vars
  BY <1>13, <1>s DEF vars
<1> QED BY <1>1, <1>2, <1>3, <1>4, <1>5, <1>6, <1>7, <1>8, <1>9, <1>10, <1>11,
           <1>12, <1>13 DEF Next

\* The inductive invariant holds in every reachable state.
THEOREM Invariant == Spec => []IInv
<1>1. IInv /\ [Next]_vars => IInv'
  BY TypeNext, RegisteredNext, BreakerNext, OwedNext, SupervisionNext DEF IInv
<1> QED BY InitInv, <1>1, PTL DEF Spec

-----------------------------------------------------------------------------
(* What follows *)

\* Every reachable state of the manager has the types of the module.
THEOREM TypeCorrect == Spec => []TypeOK
<1>1. IInv => TypeOK
  BY DEF IInv
<1> QED BY <1>1, Invariant, PTL

\* getPersistentSidecar never hands out a corpse for good, however stops,
\* crashes and the two callbacks of old and new children interleave.
THEOREM NoGhosts == Spec => []NoGhost
<1>1. IInv => NoGhost
  BY DEF IInv, Registered, NoGhost
<1> QED BY <1>1, Invariant, PTL

\* A tripped crash-loop breaker always has a reset timer pending.
THEOREM BreakerAlwaysResets == Spec => []BreakerResets
<1>1. IInv => BreakerResets
  BY DEF IInv
<1> QED BY <1>1, Invariant, PTL

\* A wanted sidecar is never left dead with nothing under way to bring it
\* back, for any number of children and of stop and restart requests.
THEOREM AlwaysSupervised == Spec => []Supervised
<1>1. IInv => Supervised
  <2> SUFFICES ASSUME IInv, spawned > 0, status = {}, ~stopped, ~unsupported,
                      ~down, ~cooled, ~(failed > 0)
               PROVE  Busy
    BY DEF Supervised
  <2>1. failed = 0
    BY TypeParts, SidecarAssumption DEF IInv, CountsOK
  <2> QED BY <2>1 DEF IInv, Kept, Wanted
<1> QED BY <1>1, Invariant, PTL

-----------------------------------------------------------------------------
(* The life of the orchestrator itself (AppLifecycle): its services and    *)
(* its own crash loop, for any number of services, boots and attempts.     *)

\* initAll counts through the services, and onInit of a service runs once.
RunsInv ==
    /\ turn \in Nat \ {0} /\ runs \in [1 .. N -> Nat]
    /\ App!InitExclusive

\* What the counter of boots knows of the chain of quick boots: while a boot is
\* between the read and the write its own count is the one that matters.
CountInv ==
    /\ seen \in Nat /\ stored \in Nat /\ chain \in Nat /\ unstored \in Nat
    /\ boot = "store" => chain = seen + unstored /\ (recent => seen = stored + 1)
    /\ boot # "store" /\ recent => chain = stored + unstored
    /\ boot \in {"off", "config", "count", "store"} => ~safe
    /\ boot \in {"infra", "init", "await", "web", "watchdog", "ready"} =>
         \/ seen = 0 /\ ~safe
         \/ recent /\ stored = seen /\ safe = (seen >= 3)

LEMMA CountSuffices == CountInv => App!SafeModeSound
<1>1. SUFFICES ASSUME CountInv, boot \in {"infra", "init", "await", "web", "watchdog", "ready"}
               PROVE  (safe => chain >= 3) /\ (~safe => chain - unstored < 3 \/ seen = 0)
  BY DEF App!SafeModeSound, App!SafeAfter
<1>2. /\ seen \in Nat /\ stored \in Nat /\ chain \in Nat /\ unstored \in Nat /\ boot # "store"
      /\ \/ seen = 0 /\ ~safe
         \/ recent /\ stored = seen /\ safe = (seen >= 3)
      /\ recent => chain = stored + unstored
  BY <1>1 DEF CountInv
<1>3. CASE safe
  <2>1. seen >= 3 /\ chain = seen + unstored
    BY <1>2, <1>3
  <2>2. QED
    BY <1>2, <1>3, <2>1
<1>4. CASE ~safe /\ seen # 0
  <2>1. ~(seen >= 3) /\ chain = seen + unstored
    BY <1>2, <1>4
  <2>2. QED
    BY <1>2, <1>4, <2>1
<1>5. QED
  BY <1>3, <1>4

\* The process ends: what it held is gone, and an unwritten count is lost.
LEMMA ExitStep == RunsInv /\ CountInv /\ App!Exit => RunsInv' /\ CountInv'
<1>1. SUFFICES ASSUME RunsInv, CountInv, App!Exit PROVE RunsInv' /\ CountInv'
  OBVIOUS
<1>2. /\ boot' = "off" /\ turn' = 1 /\ initialized' = {} /\ runs' = [s \in 1 .. N |-> 0]
      /\ seen' = 0 /\ safe' = FALSE /\ UNCHANGED <<stored, recent, chain>>
      /\ unstored' = IF boot = "store" THEN unstored + 1 ELSE unstored
  BY <1>1 DEF App!Exit, App!Fresh, App!Services
<1>3. RunsInv'
  BY <1>2 DEF RunsInv, App!InitExclusive, App!Services
<1>4. CountInv'
  BY <1>1, <1>2 DEF CountInv
<1>5. QED
  BY <1>3, <1>4

LEMMA AppInit == App!Init => RunsInv /\ CountInv
  BY DEF App!Init, App!Fresh, App!Services, RunsInv, CountInv, App!InitExclusive

\* BaseService.init: whoever calls it, a second run of onInit does not begin.
LEMMA StartInitStep ==
    ASSUME RunsInv, NEW s \in 1 .. N, App!StartInit(s), UNCHANGED <<initialized, turn>>
    PROVE  RunsInv'
<1>1. CASE UNCHANGED runs
  BY <1>1 DEF RunsInv, App!InitExclusive, App!Services
<1>2. CASE s \notin initialized /\ ~(runs[s] > 0) /\ runs' = [runs EXCEPT ![s] = @ + 1]
  <2>1. runs[s] = 0 /\ runs[s] \in Nat
    BY <1>2 DEF RunsInv
  <2>2. /\ runs' \in [1 .. N -> Nat] /\ runs'[s] = 1
        /\ \A r \in 1 .. N : r # s => runs'[r] = runs[r]
    BY <1>2, <2>1 DEF RunsInv
  <2>3. QED
    BY <1>2, <2>2 DEF RunsInv, App!InitExclusive, App!Services
<1>3. QED
  BY <1>1, <1>2 DEF App!StartInit

LEMMA RunsInvStep ==
    ASSUME N \in Nat, RunsInv, App!Next, ~App!Exit
    PROVE  RunsInv'
<1>1. CASE UNCHANGED <<turn, initialized, runs>>
  BY <1>1 DEF RunsInv, App!InitExclusive, App!Services
<1>2. CASE App!InitNext
  <2>1. turn \in 1 .. N /\ App!StartInit(turn) /\ UNCHANGED <<initialized, turn>>
    BY <1>2 DEF App!InitNext, RunsInv
  <2>2. PICK s : s = turn
    OBVIOUS
  <2>3. QED
    BY <2>1, <2>2, StartInitStep
<1>3. CASE App!InitAwaited
  <2>1. turn' = turn + 1 /\ UNCHANGED <<initialized, runs>>
    BY <1>3 DEF App!InitAwaited, App!svcVars
  <2>2. QED
    BY <2>1 DEF RunsInv, App!InitExclusive, App!Services
<1>4. ASSUME NEW s \in 1 .. N, App!InitEnds(s)
      PROVE  RunsInv'
  <2>1. /\ runs[s] > 0 /\ runs' = [runs EXCEPT ![s] = @ - 1] /\ UNCHANGED turn
        /\ initialized' \subseteq initialized \cup {s}
    BY <1>4 DEF App!InitEnds, App!bootVars
  <2>2. runs[s] = 1
    BY <2>1 DEF RunsInv, App!InitExclusive, App!Services
  <2>3. QED
    BY <2>1, <2>2 DEF RunsInv, App!InitExclusive, App!Services
<1>5. ASSUME NEW i \in App!Rounds, NEW s \in 1 .. N, App!RoundNext(i, s)
      PROVE  RunsInv'
  <2>1. (App!StartInit(s) \/ UNCHANGED runs) /\ UNCHANGED <<initialized, turn>>
    BY <1>5 DEF App!RoundNext, App!bootVars
  <2>2. QED
    BY <1>1, <2>1, StartInitStep
<1>6. App!InitCore \/ App!Signal \/ App!TimePasses => UNCHANGED <<turn, initialized, runs>>
  BY DEF App!InitCore, App!Signal, App!TimePasses, App!bootVars, App!svcVars
<1>7. App!Configure \/ App!StartWeb \/ App!Infrastructure => UNCHANGED <<turn, initialized, runs>>
  BY DEF App!Configure, App!StartWeb, App!Infrastructure, App!svcVars
<1>8. App!CountBoot \/ App!StoreBoot \/ App!RegisterSignals \/ App!StartWatchdog
      => UNCHANGED <<turn, initialized, runs>>
  BY DEF App!CountBoot, App!StoreBoot, App!RegisterSignals, App!StartWatchdog, App!svcVars
<1>9. App!StopStep => UNCHANGED <<turn, initialized, runs>>
  BY DEF App!StopStep, App!ShutdownService, App!CloseKv, App!ShutdownEnds, App!bootVars, App!svcVars
<1>10. ~App!Crash /\ ~App!LockdownExit
       /\ (App!RuntimeError \/ App!LockdownRecord => UNCHANGED <<turn, initialized, runs>>)
  BY DEF App!Crash, App!LockdownExit, App!RuntimeError, App!LockdownRecord, App!bootVars, App!svcVars
<1>11. ASSUME NEW s, App!ReportFailure(s)
       PROVE  UNCHANGED <<turn, initialized, runs>>
  BY <1>11 DEF App!ReportFailure, App!bootVars
<1>12. ASSUME NEW i, App!RoundBegins(i) \/ App!RoundEnds(i)
       PROVE  UNCHANGED <<turn, initialized, runs>>
  BY <1>12 DEF App!RoundBegins, App!RoundEnds, App!bootVars, App!svcVars
<1>13. QED
  BY <1>1, <1>2, <1>3, <1>4, <1>5, <1>6, <1>7, <1>8, <1>9, <1>10, <1>11, <1>12
     DEF App!Next, App!BootStep, App!Services

\* checkCrashLoop reads the counter, then writes it or fails to; nothing else
\* touches it, and its age changes only while no process runs.
LEMMA CountInvStep ==
    ASSUME CountInv, App!Next, ~App!Exit
    PROVE  CountInv'
<1>1. DEFINE Up == {"infra", "init", "await", "web", "watchdog", "ready"}
             Early == {"off", "config", "count"}
<1>2. CASE /\ UNCHANGED <<seen, safe, stored, recent, chain, unstored>>
           /\ boot' = boot \/ (boot \in Early /\ boot' \in Early) \/ (boot \in Up /\ boot' \in Up)
  BY <1>2 DEF CountInv
<1>3. CASE App!TimePasses
  BY <1>3 DEF CountInv, App!TimePasses, App!bootVars
<1>4. CASE App!CountBoot
  <2>1. /\ boot = "count" /\ boot' = "store" /\ UNCHANGED <<safe, stored, recent>>
        /\ seen' = IF recent THEN stored + 1 ELSE 1
        /\ chain' = IF recent THEN chain + 1 ELSE 1
        /\ unstored' = IF recent THEN unstored ELSE 0
    BY <1>4 DEF App!CountBoot, App!Go
  <2>2. CASE recent
    BY <2>1, <2>2 DEF CountInv
  <2>3. CASE ~recent
    BY <2>1, <2>3 DEF CountInv
  <2>4. QED
    BY <2>2, <2>3
<1>5. CASE App!StoreBoot
  <2>1. /\ boot = "store" /\ boot' = "infra" /\ UNCHANGED chain
        /\ \/ /\ stored' = seen /\ recent' = TRUE /\ safe' = (seen >= 3) /\ UNCHANGED <<seen, unstored>>
           \/ unstored' = unstored + 1 /\ seen' = 0 /\ UNCHANGED <<stored, recent, safe>>
    BY <1>5 DEF App!StoreBoot, App!Go, App!SafeAfter
  <2>2. CASE stored' = seen /\ recent' = TRUE /\ safe' = (seen >= 3) /\ UNCHANGED <<seen, unstored>>
    BY <2>1, <2>2 DEF CountInv
  <2>3. CASE unstored' = unstored + 1 /\ seen' = 0 /\ UNCHANGED <<stored, recent, safe>>
    BY <2>1, <2>3 DEF CountInv
  <2>4. QED
    BY <2>1, <2>2, <2>3
<1>6. CASE App!InitCore \/ App!Configure \/ App!Infrastructure \/ App!InitNext \/ App!InitAwaited
           \/ App!RegisterSignals \/ App!StartWeb \/ App!StartWatchdog
  <2>1. UNCHANGED <<seen, safe, stored, recent, chain, unstored>>
    BY <1>6 DEF App!InitCore, App!Configure, App!Infrastructure, App!InitNext, App!InitAwaited,
                App!RegisterSignals, App!StartWeb, App!StartWatchdog, App!persistent
  <2>2. (boot \in Early /\ boot' \in Early) \/ (boot \in Up /\ boot' \in Up)
    BY <1>6 DEF App!InitCore, App!Configure, App!Infrastructure, App!InitNext, App!InitAwaited,
                App!RegisterSignals, App!StartWeb, App!StartWatchdog, App!Go
  <2>3. QED
    BY <1>2, <2>1, <2>2
<1>7. App!StopStep \/ App!Signal \/ App!RuntimeError \/ App!LockdownRecord
      => UNCHANGED <<App!bootVars, App!persistent>>
  BY DEF App!StopStep, App!ShutdownService, App!CloseKv, App!ShutdownEnds, App!Signal,
         App!RuntimeError, App!LockdownRecord
<1>8. ~App!Crash /\ ~App!LockdownExit
  BY DEF App!Crash, App!LockdownExit
<1>9. ASSUME NEW s, App!InitEnds(s) \/ App!ReportFailure(s)
      PROVE  UNCHANGED <<App!bootVars, App!persistent>>
  BY <1>9 DEF App!InitEnds, App!ReportFailure
<1>10. ASSUME NEW i, NEW s, App!RoundBegins(i) \/ App!RoundEnds(i) \/ App!RoundNext(i, s)
       PROVE  UNCHANGED <<App!bootVars, App!persistent>>
  BY <1>10 DEF App!RoundBegins, App!RoundEnds, App!RoundNext
<1>11. UNCHANGED <<App!bootVars, App!persistent>> => CountInv'
  BY <1>2 DEF App!bootVars, App!persistent
<1>12. QED
  BY <1>3, <1>4, <1>5, <1>6, <1>7, <1>8, <1>9, <1>10, <1>11 DEF App!Next, App!BootStep

LEMMA AppStep ==
    ASSUME N \in Nat
    PROVE  RunsInv /\ CountInv /\ [App!Next]_(App!vars) => RunsInv' /\ CountInv'
<1>1. RunsInv /\ CountInv /\ UNCHANGED App!vars => RunsInv' /\ CountInv'
  BY DEF RunsInv, CountInv, App!InitExclusive, App!Services, App!vars, App!bootVars, App!svcVars,
         App!persistent
<1>2. QED
  BY <1>1, ExitStep, RunsInvStep, CountInvStep

\* onInit of a service never runs twice at a time, nor again after a success,
\* for any number of services and of failures, in initAll and in the rounds of
\* the watchdog that overlap it and each other.
THEOREM ServicesInitOnce == App!Spec => []InitExclusive
<1>1. RunsInv => InitExclusive
  BY DEF RunsInv, InitExclusive
<1>2. RunsInv /\ CountInv /\ [App!Next]_(App!vars) => RunsInv' /\ CountInv'
  BY AppAssumption, AppStep
<1>3. QED
  BY <1>1, <1>2, AppInit, PTL DEF App!Spec

\* Safe mode begins with the third boot in quick succession and never sooner,
\* whatever boots crash between the read and the write of the counter or cannot
\* write it: those alone are not counted.
THEOREM SafeModeCounts == App!Spec => []SafeModeSound
<1>1. CountInv => SafeModeSound
  BY CountSuffices DEF SafeModeSound
<1>2. RunsInv /\ CountInv /\ [App!Next]_(App!vars) => RunsInv' /\ CountInv'
  BY AppAssumption, AppStep
<1>3. QED
  BY <1>1, <1>2, AppInit, PTL DEF App!Spec
=============================================================================
