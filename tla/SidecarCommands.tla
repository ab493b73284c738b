--------------------------- MODULE SidecarCommands ---------------------------
(***************************************************************************)
(* The command path to one sidecar: sendCommand behind its circuit         *)
(* breaker, the waiters of IpcCoordinator, the timer of each command, the  *)
(* promise chain that queues writers of the child's stdin, the             *)
(* shared-memory command slot with its fallback to stdin, the agent that   *)
(* takes commands from both, and the reader of its response lines.         *)
(* Each member of Commands is one call of sendCommand; its name is the     *)
(* random id under which the waiter is kept.  Children are numbered; the   *)
(* next one is spawned when none is registered (SidecarLifecycle has the   *)
(* details).  What a command does, and its JSON or MessagePack form, is    *)
(* left out: an agent answers with success, with failure, or not at all.   *)
(***************************************************************************)
EXTENDS Naturals, Sequences, FiniteSets

CONSTANTS
    Commands,      \* calls of sendCommand
    None,          \* an empty slot
    Threshold,     \* failureThreshold, 3 in the code
    PipeSize,      \* commands the pipe of stdin holds before a write waits
    MaxChildren    \* bound: children spawned

ASSUME CommandsAssumption ==
    /\ None \notin Commands
    /\ Threshold \in Nat \ {0} /\ PipeSize \in Nat \ {0}
    /\ MaxChildren \in Nat \ {0}

Children == 1 .. MaxChildren

\* The three ways agents take commands: sentinel with eBPF loaded polls its
\* slot; netcap, and sentinel in its dummy mode, have a slot and never look
\* at it; all the others have stdin only.
Agents == {"polling", "deaf", "lines"}

VARIABLES
    agent,       \* what kind of agent the sidecar is: it never changes
    child,       \* the number of the last child
    alive,       \* it has not exited
    registered,  \* persistentProcesses has it
    setup,       \* children whose setupSharedMemory has not finished
    mapped,      \* the child whose command slot is mapped, 0 for none
    slot,        \* the command in the slot of each child
    stdin,       \* the pipe of the live child: commands written and not read
    out,         \* its stdout: responses written and not read
    pc,          \* where each call of sendCommand is
    gen,         \* the child each running call has got hold of
    waiters,     \* responseWaiters
    fired,       \* calls that have not returned although their timer fired
    lock,        \* the chain of stdinLocks: the head may write
    result,      \* what each call returned
    breaker,     \* CircuitBreaker.state
    failures,    \* CircuitBreaker.failureCount
    cool,        \* resetTimeoutMs has passed since the last failure
    execs        \* how often an agent has carried out each command

proc == <<child, alive, registered, setup, mapped>>
pipes == <<slot, stdin, out>>
calls == <<pc, gen, waiters, fired, lock, result>>
circuit == <<breaker, failures, cool>>
vars == <<agent, proc, pipes, calls, circuit, execs>>

Init ==
    /\ agent \in Agents
    /\ child = 0 /\ alive = FALSE /\ registered = FALSE
    /\ setup = {} /\ mapped = 0
    /\ slot = [g \in Children |-> None] /\ stdin = <<>> /\ out = <<>>
    /\ pc = [c \in Commands |-> "idle"] /\ gen = [c \in Commands |-> 0]
    /\ waiters = {} /\ fired = {} /\ lock = <<>>
    /\ result = [c \in Commands |-> "none"]
    /\ breaker = "CLOSED" /\ failures = 0 /\ cool = FALSE
    /\ execs = [c \in Commands |-> 0]

-----------------------------------------------------------------------------
(* CircuitBreaker.                                                         *)

onSuccess == failures' = 0 /\ breaker' = "CLOSED" /\ UNCHANGED cool

onFailure ==
    /\ failures' = failures + 1
    /\ cool' = FALSE
    /\ breaker' = IF failures + 1 >= Threshold THEN "OPEN" ELSE breaker

Settle(r) == IF r = "ok" THEN onSuccess ELSE onFailure

\* More than resetTimeoutMs pass without a failure.
CoolDown ==
    /\ breaker = "OPEN" /\ ~cool
    /\ cool' = TRUE
    /\ UNCHANGED <<agent, proc, pipes, calls, breaker, failures, execs>>

-----------------------------------------------------------------------------
(* sendCommand and rawSendCommand.                                         *)

\* execute: refused while the breaker is open, else the call asks for the
\* child.
Call(c) ==
    /\ pc[c] = "idle"
    /\ \/ /\ breaker = "OPEN" /\ ~cool
          /\ pc' = [pc EXCEPT ![c] = "done"]
          /\ result' = [result EXCEPT ![c] = "fail"]
          /\ UNCHANGED breaker
       \/ /\ breaker # "OPEN" \/ cool
          /\ pc' = [pc EXCEPT ![c] = "get"]
          /\ breaker' = IF breaker = "OPEN" THEN "HALF_OPEN" ELSE breaker
          /\ UNCHANGED result
    /\ UNCHANGED <<agent, proc, pipes, gen, waiters, fired, lock, failures, cool, execs>>

\* getPersistentSidecar gave nothing, or validateRequest rejects the command.
NotFound(c) ==
    /\ pc[c] = "get"
    /\ pc' = [pc EXCEPT ![c] = "done"]
    /\ result' = [result EXCEPT ![c] = "fail"]
    /\ onFailure
    /\ UNCHANGED <<agent, proc, pipes, gen, waiters, fired, lock, execs>>

\* The call has the child: it adds its waiter, starts its timer, and joins
\* the chain of stdin locks, in this order and without an await.
Enqueue(c) ==
    /\ pc[c] = "get" /\ registered
    /\ pc' = [pc EXCEPT ![c] = "lock"]
    /\ gen' = [gen EXCEPT ![c] = child]
    /\ waiters' = waiters \cup {c}
    /\ lock' = Append(lock, c)
    /\ UNCHANGED <<agent, proc, pipes, fired, result, circuit, execs>>

\* Its place in the chain, and the finally block that passes the lock on.
MyTurn(c) == lock # <<>> /\ Head(lock) = c

Finish(c, r) ==
    /\ pc' = [pc EXCEPT ![c] = "done"]
    /\ result' = [result EXCEPT ![c] = r]
    /\ waiters' = waiters \ {c}
    /\ lock' = Tail(lock)
    /\ gen' = [gen EXCEPT ![c] = 0]
    /\ fired' = fired \ {c}
    /\ Settle(r)

\* After the write the call waits for its response or its timer; a timer that
\* fired while the call was queueing ends it at once.
Await(c) ==
    IF c \in fired THEN Finish(c, "fail")
    ELSE /\ pc' = [pc EXCEPT ![c] = "sent"]
         /\ UNCHANGED <<gen, waiters, fired, lock, result, circuit>>

\* Only sentinel and netcap have a slot; the slot is that of whatever child is
\* mapped now, not of the child the call got.
SlotFree == agent # "lines" /\ mapped # 0 /\ slot[mapped] = None

WriteSlot(c) ==
    /\ pc[c] = "lock" /\ MyTurn(c) /\ SlotFree
    /\ slot' = [slot EXCEPT ![mapped] = c]
    /\ Await(c)
    /\ UNCHANGED <<agent, proc, stdin, out, execs>>

\* Mutant of WriteStdin: it also writes what went into the slot.
WriteStdinToo(c) ==
    /\ pc[c] \in {"lock", "write", "sent"} /\ MyTurn(c)
    /\ alive /\ gen[c] = child /\ Len(stdin) < PipeSize
    /\ stdin' = Append(stdin, c)
    /\ Await(c)
    /\ UNCHANGED <<agent, proc, slot, out, execs>>

\* A slot that is missing or still holds a command falls back to stdin.
Falls(c) == pc[c] = "write" \/ (pc[c] = "lock" /\ MyTurn(c) /\ ~SlotFree)

WriteStdin(c) ==
    /\ Falls(c)
    /\ alive /\ gen[c] = child /\ Len(stdin) < PipeSize
    /\ stdin' = Append(stdin, c)
    /\ Await(c)
    /\ UNCHANGED <<agent, proc, slot, out, execs>>

\* The agent has not read what was written before: writer.write waits for room,
\* and nothing bounds this wait.
WriteWaits(c) ==
    /\ pc[c] = "lock" /\ Falls(c)
    /\ alive /\ gen[c] = child /\ Len(stdin) >= PipeSize
    /\ pc' = [pc EXCEPT ![c] = "write"]
    /\ UNCHANGED <<agent, proc, pipes, gen, waiters, fired, lock, result, circuit, execs>>

\* The child the call got is gone: the write throws.
WriteFails(c) ==
    /\ Falls(c)
    /\ ~(alive /\ gen[c] = child)
    /\ Finish(c, "fail")
    /\ UNCHANGED <<agent, proc, pipes, execs>>

\* Mutant of TimerFires: the timer only ends calls that wrote to the child there is now.
TimerFiresOnce(c) ==
    /\ c \notin fired /\ pc[c] = "sent" /\ gen[c] = child
    /\ Finish(c, "fail")
    /\ UNCHANGED <<agent, proc, pipes, execs>>

\* The timer of a command removes its waiter; a call that has written its
\* command returns, one that is still queueing or writing does not.
TimerFires(c) ==
    /\ c \notin fired
    /\ \/ pc[c] = "sent" /\ Finish(c, "fail")
       \/ /\ pc[c] \in {"lock", "write"}
          /\ fired' = fired \cup {c}
          /\ waiters' = waiters \ {c}
          /\ UNCHANGED <<pc, gen, lock, result, circuit>>
    /\ UNCHANGED <<agent, proc, pipes, execs>>

-----------------------------------------------------------------------------
(* The reader of the child's stdout.                                       *)

\* Mutant of Receive: the response goes to the call that holds the lock.
ReceiveOldest ==
    /\ out # <<>>
    /\ out' = Tail(out)
    /\ IF lock # <<>> /\ Head(lock) \in waiters /\ pc[Head(lock)] = "sent"
       THEN Finish(Head(lock), Head(out).result)
       ELSE UNCHANGED <<calls, circuit>>
    /\ UNCHANGED <<agent, proc, slot, stdin, execs>>

\* handleIpcLine gives a response to the waiter of its id, if there is one.
Receive ==
    /\ out # <<>>
    /\ out' = Tail(out)
    /\ LET m == Head(out)
       IN IF m.id \in waiters THEN Finish(m.id, m.result)
          ELSE UNCHANGED <<calls, circuit>>
    /\ UNCHANGED <<agent, proc, slot, stdin, execs>>

-----------------------------------------------------------------------------
(* The agent.                                                              *)

\* It carries a command out and answers, or does neither aloud.
Execute(c, r) ==
    /\ execs' = [execs EXCEPT ![c] = @ + 1]
    /\ out' = IF r = "silent" THEN out
              ELSE Append(out, [id |-> c, result |-> r])

\* What the agents answer: sentinel's catch-all arm and netcap's StopCapture,
\* landlock and second StartCapture say nothing; dummy mode answers without an
\* id, which is as good as nothing; the others answer every command.
PollingReplies == {"ok", "fail", "silent"}
DeafReplies == {"ok", "fail", "silent"}
LinesReplies == {"ok", "fail"}
Replies == CASE agent = "polling" -> PollingReplies
             [] agent = "deaf" -> DeafReplies
             [] agent = "lines" -> LinesReplies

\* poll_command takes the command and empties the slot.
PollSlot(r) ==
    /\ alive /\ agent = "polling"
    /\ slot[child] # None
    /\ slot' = [slot EXCEPT ![child] = None]
    /\ Execute(slot[child], r)
    /\ UNCHANGED <<agent, proc, stdin, calls, circuit>>

\* One read of stdin returns the first n commands.  The agents with a slot
\* decode the first MessagePack value of their buffer and then clear it; the
\* other ones go through their lines.
ReadStdin(n, r) ==
    /\ alive /\ n \in 1 .. Len(stdin)
    /\ agent = "lines" => n = 1
    /\ stdin' = SubSeq(stdin, n + 1, Len(stdin))
    /\ Execute(Head(stdin), r)
    /\ UNCHANGED <<agent, proc, slot, calls, circuit>>

-----------------------------------------------------------------------------
(* The child, as far as commands depend on it.                             *)

\* A caller or the restart timer spawns a child: registered before its
\* segments are mapped.
Spawn ==
    /\ ~registered /\ ~alive /\ child < MaxChildren /\ out = <<>>
    /\ child' = child + 1 /\ alive' = TRUE /\ registered' = TRUE
    /\ setup' = IF agent = "lines" THEN setup ELSE setup \cup {child + 1}
    /\ UNCHANGED <<agent, mapped, pipes, calls, circuit, execs>>

\* setupSharedMemory finds the segments of its child, or gives up on them.
MapSegments(g) ==
    /\ g \in setup
    /\ setup' = setup \ {g}
    /\ mapped' \in {mapped, g}
    /\ UNCHANGED <<agent, child, alive, registered, pipes, calls, circuit, execs>>

\* The child exits; what it has not read is lost.
Exit ==
    /\ alive
    /\ alive' = FALSE /\ stdin' = <<>>
    /\ UNCHANGED <<agent, child, registered, setup, mapped, slot, out, calls, circuit, execs>>

\* The reader meets the end of stdout and clears the registration and the
\* mappings.
ReaderEnds ==
    /\ registered /\ ~alive /\ out = <<>>
    /\ registered' = FALSE /\ mapped' = 0
    /\ UNCHANGED <<agent, child, alive, setup, pipes, calls, circuit, execs>>

-----------------------------------------------------------------------------
Next ==
    \/ \E c \in Commands :
          \/ Call(c) \/ NotFound(c) \/ Enqueue(c) \/ TimerFires(c)
          \/ WriteSlot(c) \/ WriteStdin(c) \/ WriteWaits(c) \/ WriteFails(c)
    \/ Receive \/ CoolDown \/ Spawn \/ Exit \/ ReaderEnds
    \/ \E r \in Replies : PollSlot(r) \/ \E n \in 1 .. Cardinality(Commands) : ReadStdin(n, r)
    \/ \E g \in Children : MapSegments(g)

\* Timers fire, promise continuations run; no agent owes an answer, or reads
\* what was written to it.
Fairness ==
    \A c \in Commands :
        /\ WF_vars(TimerFires(c))
        /\ WF_vars(NotFound(c) \/ Enqueue(c))
        /\ WF_vars(WriteSlot(c) \/ WriteStdin(c) \/ WriteWaits(c) \/ WriteFails(c))

Spec == Init /\ [][Next]_vars
FairSpec == Spec /\ Fairness

-----------------------------------------------------------------------------
Responses == [id : Commands, result : {"ok", "fail"}]

\* Every variable has a value the code can give it.
TypeOK ==
    /\ agent \in Agents
    /\ child \in 0 .. MaxChildren /\ alive \in BOOLEAN /\ registered \in BOOLEAN
    /\ setup \subseteq Children /\ mapped \in 0 .. MaxChildren
    /\ slot \in [Children -> Commands \cup {None}]
    /\ stdin \in Seq(Commands) /\ out \in Seq(Responses)
    /\ pc \in [Commands -> {"idle", "get", "lock", "write", "sent", "done"}]
    /\ gen \in [Commands -> 0 .. MaxChildren]
    /\ waiters \subseteq Commands /\ fired \subseteq Commands
    /\ lock \in Seq(Commands)
    /\ result \in [Commands -> {"none", "ok", "fail"}]
    /\ breaker \in {"CLOSED", "OPEN", "HALF_OPEN"}
    /\ failures \in Nat /\ cool \in BOOLEAN
    /\ execs \in [Commands -> Nat]

\* sendCommand reports success only for a command an agent has carried out:
\* a late response to a command that timed out is never taken for the
\* response to the command that followed it.
TrueSuccess == \A c \in Commands : result[c] = "ok" => execs[c] > 0

\* The fallback from the slot to stdin never makes an agent carry out a
\* command twice, through whatever children and timeouts the call goes.
CarriedOutOnce == \A c \in Commands : execs[c] <= 1

\* responseWaiters holds exactly the calls that can still be answered: none
\* leaks when a write throws or a timer fires, and none is evicted early.
WaitersExact == waiters = {c \in Commands : pc[c] \in {"lock", "write", "sent"}} \ fired

\* Every call of sendCommand returns, although nothing rejects its waiter
\* when the child dies: its own timer and those of the calls queued before it
\* bound the wait.  The one thing that keeps a call, and the calls queued behind
\* it, is a write that waits for ever for room in the stdin of a live agent.
WriteStuck == alive /\ \E c \in Commands : pc[c] = "write"
Answered ==
    (<>[]WriteStuck) \/ \A c \in Commands : pc[c] # "idle" ~> pc[c] = "done"
=============================================================================
