------------------------ MODULE SidecarCommandsProofs ------------------------
(***************************************************************************)
(* Proofs about SidecarCommands for any set of commands, any threshold of  *)
(* the breaker and any number of children.                                 *)
(*                                                                         *)
(* TrueSuccess and CarriedOutOnce are not inductive: they depend on where  *)
(* a command can be.  A command is in one place only (OnePlace): a slot,   *)
(* the pipe, or carried out; it is nowhere before its call has written it  *)
(* (Written), and every response on its way is of a command that was       *)
(* carried out (Answers).                                                  *)
(***************************************************************************)
EXTENDS SidecarCommands, TLAPS

InSlot(c) == \E g \in Children : slot[g] = c
InPipe(c) == \E i \in 1 .. Len(stdin) : stdin[i] = c

\* There is a child to be alive.
ChildExists == alive => child # 0

\* Only calls that still queue or write have a timer that fired without ending
\* them.
FiredQueue == \A c \in fired : pc[c] \in {"lock", "write"}

\* A command that is anywhere outside its call was written by it.
Written ==
    \A c \in Commands :
        InSlot(c) \/ InPipe(c) \/ execs[c] # 0 => pc[c] \in {"sent", "done"}

\* A command is in at most one slot, once in the pipe, or carried out once.
OnePlace ==
    /\ \A g, h \in Children : slot[g] # None /\ slot[g] = slot[h] => g = h
    /\ \A i, j \in 1 .. Len(stdin) : stdin[i] = stdin[j] => i = j
    /\ \A c \in Commands : InSlot(c) => ~InPipe(c)
    /\ \A c \in Commands : InSlot(c) \/ InPipe(c) => execs[c] = 0

\* The chain of stdin locks holds the calls between Enqueue and Finish, each
\* once, and a call that writes or has written its command is at its head.
Queue ==
    /\ \A i \in 1 .. Len(lock) : pc[lock[i]] \in {"lock", "write", "sent"}
    /\ \A i, j \in 1 .. Len(lock) : lock[i] = lock[j] => i = j
    /\ \A c \in Commands : pc[c] \in {"lock", "write", "sent"} => \E i \in 1 .. Len(lock) : lock[i] = c
    /\ \A c \in Commands : pc[c] \in {"write", "sent"} => MyTurn(c)

\* What the agent answers it has carried out.
Answers == \A i \in 1 .. Len(out) : execs[out[i].id] # 0

\* The state of the calls, and the places of the commands.
CallInv == FiredQueue /\ WaitersExact /\ Queue
PlaceInv == Written /\ OnePlace /\ Answers /\ CarriedOutOnce

Inv == TypeOK /\ ChildExists /\ CallInv /\ PlaceInv /\ TrueSuccess

-----------------------------------------------------------------------------
(* Sequences, element by element.                                          *)

\* Append leaves the elements where they are and puts one behind them.
LEMMA AppendElements ==
    ASSUME NEW S, NEW s \in Seq(S), NEW e \in S
    PROVE  /\ Append(s, e) \in Seq(S) /\ Len(Append(s, e)) = Len(s) + 1
           /\ \A i \in 1 .. Len(s) : Append(s, e)[i] = s[i]
           /\ Append(s, e)[Len(s) + 1] = e
  OBVIOUS

\* Head and Tail take a sequence apart.
LEMMA TailElements ==
    ASSUME NEW S, NEW s \in Seq(S), s # <<>>
    PROVE  /\ Head(s) \in S /\ Head(s) = s[1] /\ Len(s) >= 1
           /\ Tail(s) \in Seq(S) /\ Len(Tail(s)) = Len(s) - 1
           /\ \A i \in 1 .. Len(s) - 1 : Tail(s)[i] = s[i + 1]
  OBVIOUS

\* What is left of the pipe after a read of n commands.
LEMMA RestElements ==
    ASSUME NEW S, NEW s \in Seq(S), NEW n \in 1 .. Len(s)
    PROVE  /\ s # <<>>
           /\ SubSeq(s, n + 1, Len(s)) \in Seq(S)
           /\ Len(SubSeq(s, n + 1, Len(s))) = Len(s) - n
           /\ \A i \in 1 .. Len(s) - n : SubSeq(s, n + 1, Len(s))[i] = s[n + i]
<1>1. \A i \in n + 1 .. Len(s) : s[i] \in S
  OBVIOUS
<1>2. QED
  BY <1>1

-----------------------------------------------------------------------------
(* The calls.                                                              *)

CallTypes ==
    /\ pc \in [Commands -> {"idle", "get", "lock", "write", "sent", "done"}]
    /\ gen \in [Commands -> 0 .. MaxChildren]
    /\ waiters \subseteq Commands /\ fired \subseteq Commands
    /\ lock \in Seq(Commands)
    /\ result \in [Commands -> {"none", "ok", "fail"}]

BreakerTypes ==
    /\ breaker \in {"CLOSED", "OPEN", "HALF_OPEN"}
    /\ failures \in Nat /\ cool \in BOOLEAN

ChildTypes ==
    /\ agent \in Agents
    /\ child \in 0 .. MaxChildren /\ alive \in BOOLEAN /\ registered \in BOOLEAN
    /\ setup \subseteq Children /\ mapped \in 0 .. MaxChildren

PipeTypes ==
    /\ slot \in [Children -> Commands \cup {None}]
    /\ stdin \in Seq(Commands) /\ out \in Seq(Responses)
    /\ execs \in [Commands -> Nat]

LEMMA TypeParts == TypeOK <=> CallTypes /\ BreakerTypes /\ ChildTypes /\ PipeTypes
  BY DEF TypeOK, CallTypes, BreakerTypes, ChildTypes, PipeTypes

LEMMA TypePartsNext ==
    TypeOK' <=> CallTypes' /\ BreakerTypes' /\ ChildTypes' /\ PipeTypes'
  BY DEF TypeOK, CallTypes, BreakerTypes, ChildTypes, PipeTypes

\* A result counts for the breaker.
LEMMA SettleType ==
    ASSUME BreakerTypes, NEW r, Settle(r)
    PROVE  BreakerTypes'
<1>1. breaker' \in {"CLOSED", "OPEN", "HALF_OPEN"} /\ failures' \in Nat
  BY DEF Settle, onSuccess, onFailure, BreakerTypes
<1>2. cool' \in BOOLEAN
  BY DEF Settle, onSuccess, onFailure, BreakerTypes
<1>3. QED
  BY <1>1, <1>2 DEF BreakerTypes

\* The call that holds the lock ends: the next one of the chain may write.
LEMMA FinishCall ==
    ASSUME CallTypes, CallInv, BreakerTypes, NEW c \in Commands, MyTurn(c),
           pc[c] \in {"lock", "write", "sent"},
           NEW r \in {"ok", "fail"}, Finish(c, r)
    PROVE  CallTypes' /\ CallInv' /\ BreakerTypes'
<1>1. /\ lock \in Seq(Commands) /\ lock # <<>> /\ lock[1] = c
      /\ lock' \in Seq(Commands) /\ Len(lock') = Len(lock) - 1 /\ Len(lock) >= 1
      /\ \A i \in 1 .. Len(lock') : lock'[i] = lock[i + 1]
  BY TailElements DEF CallTypes, MyTurn, Finish
<1>2. Len(lock) \in Nat
  BY <1>1
<1>3. CallTypes'
  BY <1>1, CommandsAssumption DEF Finish, CallTypes
<1>4. BreakerTypes'
  BY SettleType DEF Finish
<1>5. FiredQueue' /\ WaitersExact'
  BY DEF Finish, CallTypes, CallInv, FiredQueue, WaitersExact
<1>6. \A x \in Commands : x # c => pc'[x] = pc[x]
  BY DEF Finish, CallTypes
<1>7. pc'[c] = "done"
  BY DEF Finish, CallTypes
<1>8. \A i \in 1 .. Len(lock') : lock'[i] # c /\ lock'[i] \in Commands
  <2>1. \A i, j \in 1 .. Len(lock) : lock[i] = lock[j] => i = j
    BY DEF CallInv, Queue
  <2>2. ASSUME NEW i \in 1 .. Len(lock') PROVE lock'[i] # c /\ lock'[i] \in Commands
    <3>1. i + 1 \in 1 .. Len(lock) /\ 1 \in 1 .. Len(lock) /\ i + 1 # 1
      BY <1>1, <1>2
    <3>2. QED
      BY <1>1, <2>1, <3>1
  <2>3. QED
    BY <2>2
<1>9. \A i \in 1 .. Len(lock') : pc'[lock'[i]] \in {"lock", "write", "sent"}
  BY <1>1, <1>2, <1>6, <1>8 DEF CallInv, Queue
<1>10. \A i, j \in 1 .. Len(lock') : lock'[i] = lock'[j] => i = j
  BY <1>1, <1>2 DEF CallInv, Queue
<1>11. ASSUME NEW x \in Commands, pc'[x] \in {"lock", "write", "sent"}
       PROVE  \E i \in 1 .. Len(lock') : lock'[i] = x
  <2>1. x # c /\ pc[x] \in {"lock", "write", "sent"}
    BY <1>6, <1>7, <1>11
  <2>2. PICK i \in 1 .. Len(lock) : lock[i] = x
    BY <2>1 DEF CallInv, Queue
  <2>3. i # 1 /\ i - 1 \in 1 .. Len(lock') /\ lock'[i - 1] = x
    BY <1>1, <1>2, <2>1, <2>2
  <2>4. QED
    BY <2>3
<1>12. ASSUME NEW x \in Commands, pc'[x] \in {"write", "sent"}
       PROVE  FALSE
  <2>1. x # c /\ pc[x] \in {"write", "sent"}
    BY <1>6, <1>7, <1>12
  <2>2. MyTurn(x)
    BY <2>1 DEF CallInv, Queue
  <2>3. QED
    BY <2>1, <2>2 DEF MyTurn
<1>13. Queue'
  BY <1>9, <1>10, <1>11, <1>12 DEF Queue
<1>14. QED
  BY <1>3, <1>4, <1>5, <1>13 DEF CallInv

\* A call that held the lock has written its command, or ends because its timer
\* fired while it was queueing.
LEMMA AwaitCall ==
    ASSUME CallTypes, CallInv, BreakerTypes, NEW c \in Commands, MyTurn(c),
           pc[c] \in {"lock", "write"}, Await(c)
    PROVE  /\ CallTypes' /\ CallInv' /\ BreakerTypes'
           /\ pc'[c] \in {"sent", "done"}
           /\ \A x \in Commands : x # c => pc'[x] = pc[x]
           /\ \A x \in Commands : result'[x] = "ok" => result[x] = "ok"
<1>1. CASE c \in fired
  <2>1. Finish(c, "fail")
    BY <1>1 DEF Await
  <2>2. CallTypes' /\ CallInv' /\ BreakerTypes'
    BY <2>1, FinishCall
  <2>3. QED
    BY <2>1, <2>2 DEF Finish, CallTypes
<1>2. CASE c \notin fired
  <2>1. /\ pc' = [pc EXCEPT ![c] = "sent"]
        /\ UNCHANGED <<gen, waiters, fired, lock, result, circuit>>
    BY <1>2 DEF Await
  <2>2. /\ pc'[c] = "sent"
        /\ \A x \in Commands : x # c => pc'[x] = pc[x]
    BY <2>1 DEF CallTypes
  <2>3. CallTypes'
    BY <2>1 DEF CallTypes
  <2>4. BreakerTypes'
    BY <2>1 DEF BreakerTypes, circuit
  <2>5. FiredQueue'
    BY <1>2, <2>1, <2>2 DEF FiredQueue, CallInv, CallTypes
  <2>6. WaitersExact'
    BY <2>1, <2>2 DEF WaitersExact, CallInv
  <2>7. \A i \in 1 .. Len(lock) : lock[i] \in Commands
    BY DEF CallTypes
  <2>8. Queue'
    BY <2>1, <2>2, <2>7 DEF Queue, CallInv, MyTurn
  <2>9. QED
    BY <2>1, <2>2, <2>3, <2>4, <2>5, <2>6, <2>8 DEF CallInv
<1>3. QED
  BY <1>1, <1>2

\* A call joins the end of the chain, with a waiter and a timer of its own.
LEMMA EnqueueCall ==
    ASSUME CallTypes, CallInv, ChildTypes, NEW c \in Commands, Enqueue(c)
    PROVE  CallTypes' /\ CallInv'
<1>1. /\ lock \in Seq(Commands) /\ Len(lock) \in Nat
      /\ lock' \in Seq(Commands) /\ Len(lock') = Len(lock) + 1
      /\ \A i \in 1 .. Len(lock) : lock'[i] = lock[i] /\ lock[i] \in Commands
      /\ lock'[Len(lock) + 1] = c
  BY AppendElements DEF CallTypes, Enqueue
<1>2. /\ pc[c] = "get" /\ pc'[c] = "lock"
      /\ \A x \in Commands : x # c => pc'[x] = pc[x]
  BY DEF Enqueue, CallTypes
<1>3. CallTypes'
  BY <1>1 DEF Enqueue, CallTypes, ChildTypes
<1>4. c \notin fired /\ \A i \in 1 .. Len(lock) : lock[i] # c
  BY <1>2 DEF CallInv, FiredQueue, Queue
<1>5. FiredQueue' /\ WaitersExact'
  BY <1>2, <1>4 DEF Enqueue, CallInv, FiredQueue, WaitersExact, CallTypes
<1>6. \A i \in 1 .. Len(lock') : pc'[lock'[i]] \in {"lock", "write", "sent"}
  BY <1>1, <1>2, <1>4 DEF CallInv, Queue
<1>7. \A i, j \in 1 .. Len(lock') : lock'[i] = lock'[j] => i = j
  BY <1>1, <1>4 DEF CallInv, Queue
<1>8. ASSUME NEW x \in Commands, pc'[x] \in {"lock", "write", "sent"}
      PROVE  \E i \in 1 .. Len(lock') : lock'[i] = x
  <2>1. CASE x = c
    BY <1>1, <2>1
  <2>2. CASE x # c
    <3>1. PICK i \in 1 .. Len(lock) : lock[i] = x
      BY <1>2, <1>8, <2>2 DEF CallInv, Queue
    <3>2. i \in 1 .. Len(lock') /\ lock'[i] = x
      BY <1>1, <3>1
    <3>3. QED
      BY <3>2
  <2>3. QED
    BY <2>1, <2>2
<1>9. ASSUME NEW x \in Commands, pc'[x] \in {"write", "sent"}
      PROVE  MyTurn(x)'
  <2>1. MyTurn(x)
    BY <1>2, <1>9 DEF CallInv, Queue
  <2>2. QED
    BY <1>1, <2>1, AppendElements, TailElements DEF MyTurn
<1>10. QED
  BY <1>3, <1>5, <1>6, <1>7, <1>8, <1>9 DEF CallInv, Queue

\* A timer that fires on a queueing call only takes its waiter away.
LEMMA QueueingTimer ==
    ASSUME CallTypes, CallInv, NEW c \in Commands, pc[c] \in {"lock", "write"},
           fired' = fired \cup {c}, waiters' = waiters \ {c},
           UNCHANGED <<pc, gen, lock, result>>
    PROVE  CallTypes' /\ CallInv'
<1>1. CallTypes'
  BY DEF CallTypes
<1>2. FiredQueue' /\ WaitersExact'
  BY DEF CallInv, FiredQueue, WaitersExact, CallTypes
<1>3. Queue'
  BY DEF CallInv, Queue, MyTurn
<1>4. QED
  BY <1>1, <1>2, <1>3 DEF CallInv

\* The call at the head of the chain finds no room in the pipe.
LEMMA WaitingWrite ==
    ASSUME CallTypes, CallInv, NEW c \in Commands, WriteWaits(c)
    PROVE  CallTypes' /\ CallInv'
<1>1. /\ pc[c] = "lock" /\ MyTurn(c) /\ pc' = [pc EXCEPT ![c] = "write"]
      /\ UNCHANGED <<gen, waiters, fired, lock, result>>
  BY DEF WriteWaits, Falls
<1>2. /\ pc'[c] = "write"
      /\ \A x \in Commands : x # c => pc'[x] = pc[x]
  BY <1>1 DEF CallTypes
<1>3. CallTypes'
  BY <1>1 DEF CallTypes
<1>4. FiredQueue' /\ WaitersExact'
  BY <1>1, <1>2 DEF CallInv, FiredQueue, WaitersExact, CallTypes
<1>5. \A i \in 1 .. Len(lock) : lock[i] \in Commands
  BY DEF CallTypes
<1>6. Queue'
  BY <1>1, <1>2, <1>5 DEF Queue, CallInv, MyTurn
<1>7. QED
  BY <1>3, <1>4, <1>6 DEF CallInv

\* A call that is not in the chain moves without touching it.
LEMMA OutsideCall ==
    ASSUME CallTypes, CallInv, NEW c \in Commands, pc[c] \in {"idle", "get"},
           NEW p \in {"get", "done"}, pc' = [pc EXCEPT ![c] = p],
           UNCHANGED <<waiters, fired, lock>>
    PROVE  CallInv'
<1>1. /\ pc'[c] = p
      /\ \A x \in Commands : x # c => pc'[x] = pc[x]
  BY DEF CallTypes
<1>2. c \notin fired
  BY DEF CallInv, FiredQueue
<1>3. FiredQueue' /\ WaitersExact'
  BY <1>1, <1>2 DEF CallInv, FiredQueue, WaitersExact, CallTypes
<1>4. \A i \in 1 .. Len(lock) : lock[i] \in Commands /\ lock[i] # c
  BY DEF CallInv, Queue, CallTypes
<1>5. Queue'
  BY <1>1, <1>4 DEF CallInv, Queue, MyTurn
<1>6. QED
  BY <1>3, <1>5 DEF CallInv

-----------------------------------------------------------------------------
(* The places of the commands.                                             *)

\* A step of the calls that writes nothing and makes no written command
\* unwritten.
LEMMA PlacesKept ==
    ASSUME PlaceInv, UNCHANGED <<pipes, execs>>,
           \A x \in Commands : pc[x] \in {"sent", "done"} => pc'[x] \in {"sent", "done"}
    PROVE  PlaceInv'
  BY DEF PlaceInv, Written, OnePlace, Answers, CarriedOutOnce, InSlot, InPipe, pipes

\* A command that is nowhere yet goes into a free slot.
LEMMA SlotWritten ==
    ASSUME PipeTypes, PlaceInv, NEW c \in Commands, pc[c] = "lock",
           NEW m \in Children, slot[m] = None, slot' = [slot EXCEPT ![m] = c],
           UNCHANGED <<stdin, out, execs>>,
           pc'[c] \in {"sent", "done"},
           \A x \in Commands : x # c => pc'[x] = pc[x]
    PROVE  PlaceInv'
<1>1. ~InSlot(c) /\ ~InPipe(c) /\ execs[c] = 0
  BY DEF PlaceInv, Written
<1>2. /\ slot'[m] = c
      /\ \A g \in Children : g # m => slot'[g] = slot[g]
  BY DEF PipeTypes
<1>3. \A x \in Commands : x # c => (InSlot(x)' => InSlot(x))
  BY <1>2 DEF InSlot
<1>4. \A x \in Commands : InPipe(x)' <=> InPipe(x)
  BY DEF InPipe
<1>5. Written'
  BY <1>1, <1>3, <1>4 DEF PlaceInv, Written
<1>6. \A g, h \in Children : slot'[g] # None /\ slot'[g] = slot'[h] => g = h
  BY <1>1, <1>2 DEF InSlot, PlaceInv, OnePlace
<1>7. OnePlace'
  BY <1>1, <1>3, <1>4, <1>6 DEF PlaceInv, OnePlace
<1>8. Answers' /\ CarriedOutOnce'
  BY DEF PlaceInv, Answers, CarriedOutOnce
<1>9. QED
  BY <1>5, <1>7, <1>8 DEF PlaceInv

\* A command that is nowhere yet goes to the end of the pipe.
LEMMA PipeWritten ==
    ASSUME PipeTypes, PlaceInv, NEW c \in Commands, pc[c] \in {"lock", "write"},
           stdin' = Append(stdin, c),
           UNCHANGED <<slot, out, execs>>,
           pc'[c] \in {"sent", "done"},
           \A x \in Commands : x # c => pc'[x] = pc[x]
    PROVE  PlaceInv'
<1>1. ~InSlot(c) /\ ~InPipe(c) /\ execs[c] = 0
  BY DEF PlaceInv, Written
<1>2. /\ Len(stdin) \in Nat /\ Len(stdin') = Len(stdin) + 1
      /\ \A i \in 1 .. Len(stdin) : stdin'[i] = stdin[i] /\ stdin[i] \in Commands
      /\ stdin'[Len(stdin) + 1] = c
  BY AppendElements DEF PipeTypes
<1>3. \A x \in Commands : x # c => (InPipe(x)' => InPipe(x))
  BY <1>2 DEF InPipe
<1>4. \A x \in Commands : InSlot(x)' <=> InSlot(x)
  BY DEF InSlot
<1>5. Written'
  BY <1>1, <1>3, <1>4 DEF PlaceInv, Written
<1>6. \A i \in 1 .. Len(stdin) : stdin[i] # c
  BY <1>1 DEF InPipe
<1>7. \A i, j \in 1 .. Len(stdin') : stdin'[i] = stdin'[j] => i = j
  BY <1>2, <1>6 DEF PlaceInv, OnePlace
<1>8. OnePlace'
  BY <1>1, <1>3, <1>4, <1>7 DEF PlaceInv, OnePlace
<1>9. Answers' /\ CarriedOutOnce'
  BY DEF PlaceInv, Answers, CarriedOutOnce
<1>10. QED
  BY <1>5, <1>8, <1>9 DEF PlaceInv

\* The agent carries out a command that was in one place and is in none now.
LEMMA CarriedOut ==
    ASSUME PipeTypes, PlaceInv, TrueSuccess, NEW c \in Commands, execs[c] = 0,
           NEW r \in {"ok", "fail", "silent"}, Execute(c, r),
           InSlot(c) \/ InPipe(c),
           ~InSlot(c)', ~InPipe(c)',
           \A x \in Commands : InSlot(x)' => InSlot(x),
           \A x \in Commands : InPipe(x)' => InPipe(x),
           \A g, h \in Children : slot'[g] # None /\ slot'[g] = slot'[h] => g = h,
           \A i, j \in 1 .. Len(stdin') : stdin'[i] = stdin'[j] => i = j,
           UNCHANGED <<pc, result>>
    PROVE  /\ PlaceInv' /\ TrueSuccess'
           /\ out' \in Seq(Responses) /\ execs' \in [Commands -> Nat]
<1>1. /\ execs'[c] = 1 /\ execs' \in [Commands -> Nat]
      /\ \A x \in Commands : x # c => execs'[x] = execs[x]
  BY DEF Execute, PipeTypes
<1>2. pc[c] \in {"sent", "done"}
  BY DEF PlaceInv, Written
<1>3. Written'
  BY <1>1, <1>2 DEF PlaceInv, Written
<1>4. OnePlace'
  BY <1>1 DEF PlaceInv, OnePlace
<1>5. CarriedOutOnce'
  BY <1>1 DEF PlaceInv, CarriedOutOnce
<1>6. TrueSuccess'
  <2>1. ASSUME NEW x \in Commands, result'[x] = "ok" PROVE execs'[x] > 0
    <3>1. result[x] = "ok"
      BY <2>1
    <3>2. execs[x] > 0
      BY <3>1 DEF TrueSuccess
    <3>3. QED
      BY <1>1, <3>2
  <2>2. QED
    BY <2>1 DEF TrueSuccess
<1>7. out \in Seq(Responses)
  BY DEF PipeTypes
<1>8. out' \in Seq(Responses) /\ Answers'
  <2>1. \A i \in 1 .. Len(out) : out[i].id \in Commands /\ execs'[out[i].id] # 0
    <3>1. \A i \in 1 .. Len(out) : out[i] \in Responses
      BY <1>7
    <3>2. \A m \in Responses : m.id \in Commands
      BY DEF Responses
    <3>3. QED
      BY <1>1, <3>1, <3>2 DEF PlaceInv, Answers
  <2>2. CASE r = "silent"
    BY <1>7, <2>1, <2>2 DEF Execute, Answers
  <2>3. CASE r # "silent"
    <3>1. [id |-> c, result |-> r] \in Responses
      BY <2>3 DEF Responses
    <3>2. out' = Append(out, [id |-> c, result |-> r])
      BY <2>3 DEF Execute
    <3>3. /\ out' \in Seq(Responses) /\ Len(out) \in Nat /\ Len(out') = Len(out) + 1
          /\ \A i \in 1 .. Len(out) : out'[i] = out[i]
          /\ out'[Len(out) + 1] = [id |-> c, result |-> r]
      BY <1>7, <3>1, <3>2, AppendElements
    <3>4. Answers'
      BY <1>1, <2>1, <3>3 DEF Answers
    <3>5. QED
      BY <3>3, <3>4
  <2>4. QED
    BY <2>2, <2>3
<1>9. QED
  BY <1>1, <1>3, <1>4, <1>5, <1>6, <1>8 DEF PlaceInv

\* poll_command takes the command of the slot.
LEMMA PolledCommand ==
    ASSUME PipeTypes, ChildTypes, ChildExists, PlaceInv, TrueSuccess,
           NEW r \in {"ok", "fail", "silent"}, PollSlot(r)
    PROVE  PipeTypes' /\ PlaceInv' /\ TrueSuccess'
<1>1. child \in Children
  BY CommandsAssumption DEF ChildTypes, ChildExists, PollSlot, Children
<1>2. PICK c \in Commands : c = slot[child]
  BY <1>1 DEF PipeTypes, PollSlot
<1>3. /\ slot' \in [Children -> Commands \cup {None}]
      /\ slot'[child] = None
      /\ \A g \in Children : g # child => slot'[g] = slot[g]
  BY <1>1 DEF PipeTypes, PollSlot
<1>4. InSlot(c)
  BY <1>1, <1>2 DEF InSlot
<1>5. \A x \in Commands : InSlot(x)' => InSlot(x)
  BY <1>3, CommandsAssumption DEF InSlot
<1>6. ~InSlot(c)'
  <2>1. ASSUME NEW g \in Children, slot'[g] = c
        PROVE  FALSE
    <3>1. g # child /\ slot[g] = slot[child]
      BY <1>2, <1>3, <2>1, CommandsAssumption
    <3>2. QED
      BY <1>1, <1>2, <3>1, CommandsAssumption DEF PlaceInv, OnePlace
  <2>2. QED
    BY <2>1 DEF InSlot
<1>7. \A x \in Commands : InPipe(x)' <=> InPipe(x)
  BY DEF InPipe, PollSlot
<1>8. execs[c] = 0 /\ ~InPipe(c)
  BY <1>2, <1>4 DEF PlaceInv, OnePlace
<1>9. \A g, h \in Children : slot'[g] # None /\ slot'[g] = slot'[h] => g = h
  BY <1>3 DEF PlaceInv, OnePlace
<1>10. \A i, j \in 1 .. Len(stdin') : stdin'[i] = stdin'[j] => i = j
  BY DEF PlaceInv, OnePlace, PollSlot
<1>11. Execute(c, r) /\ UNCHANGED <<pc, result, stdin>>
  BY <1>2 DEF PollSlot, calls
<1>12. /\ PlaceInv' /\ TrueSuccess'
       /\ out' \in Seq(Responses) /\ execs' \in [Commands -> Nat]
  BY <1>2, <1>4, <1>5, <1>6, <1>7, <1>8, <1>9, <1>10, <1>11, CarriedOut
<1>13. QED
  BY <1>3, <1>11, <1>12 DEF PipeTypes

\* A read of stdin carries out the first command it gets; the others of the
\* same read are lost, which leaves them nowhere.
LEMMA ReadCommand ==
    ASSUME PipeTypes, PlaceInv, TrueSuccess, NEW n,
           NEW r \in {"ok", "fail", "silent"}, ReadStdin(n, r)
    PROVE  PipeTypes' /\ PlaceInv' /\ TrueSuccess'
<1>1. /\ stdin \in Seq(Commands) /\ stdin # <<>>
      /\ Len(stdin) \in Nat /\ n \in 1 .. Len(stdin)
      /\ stdin' \in Seq(Commands) /\ Len(stdin') = Len(stdin) - n
      /\ \A i \in 1 .. Len(stdin) - n : stdin'[i] = stdin[n + i]
  BY RestElements DEF PipeTypes, ReadStdin
<1>2. PICK c \in Commands : c = Head(stdin) /\ c = stdin[1] /\ 1 \in 1 .. Len(stdin)
  BY <1>1, TailElements
<1>3. InPipe(c)
  BY <1>2 DEF InPipe
<1>4. \A x \in Commands : InPipe(x)' => InPipe(x)
  <2>1. SUFFICES ASSUME NEW x \in Commands, InPipe(x)' PROVE InPipe(x)
    OBVIOUS
  <2>2. PICK i \in 1 .. Len(stdin') : stdin'[i] = x
    BY <2>1 DEF InPipe
  <2>3. n + i \in 1 .. Len(stdin) /\ stdin[n + i] = x
    BY <1>1, <2>2
  <2>4. QED
    BY <2>3 DEF InPipe
<1>5. ~InPipe(c)'
  <2>1. SUFFICES ASSUME NEW i \in 1 .. Len(stdin'), stdin'[i] = c PROVE FALSE
    BY DEF InPipe
  <2>2. n + i \in 1 .. Len(stdin) /\ stdin[n + i] = stdin[1] /\ n + i # 1
    BY <1>1, <1>2, <2>1
  <2>3. QED
    BY <1>2, <2>2 DEF PlaceInv, OnePlace
<1>6. \A x \in Commands : InSlot(x)' <=> InSlot(x)
  BY DEF InSlot, ReadStdin
<1>7. execs[c] = 0 /\ ~InSlot(c)
  BY <1>2, <1>3 DEF PlaceInv, OnePlace
<1>8. \A g, h \in Children : slot'[g] # None /\ slot'[g] = slot'[h] => g = h
  BY DEF PlaceInv, OnePlace, ReadStdin
<1>9. \A i, j \in 1 .. Len(stdin') : stdin'[i] = stdin'[j] => i = j
  <2>1. SUFFICES ASSUME NEW i \in 1 .. Len(stdin'), NEW j \in 1 .. Len(stdin'),
                        stdin'[i] = stdin'[j]
                 PROVE  i = j
    OBVIOUS
  <2>2. /\ n + i \in 1 .. Len(stdin) /\ n + j \in 1 .. Len(stdin)
        /\ stdin[n + i] = stdin[n + j]
    BY <1>1, <2>1
  <2>3. n + i = n + j
    BY <2>2 DEF PlaceInv, OnePlace
  <2>4. QED
    BY <1>1, <2>3
<1>10. Execute(c, r) /\ UNCHANGED <<pc, result, slot>>
  BY <1>2 DEF ReadStdin, calls
<1>11. /\ PlaceInv' /\ TrueSuccess'
       /\ out' \in Seq(Responses) /\ execs' \in [Commands -> Nat]
  BY <1>2, <1>3, <1>4, <1>5, <1>6, <1>7, <1>8, <1>9, <1>10, CarriedOut
<1>12. QED
  BY <1>1, <1>10, <1>11 DEF PipeTypes

\* The child's end of the pipe goes away with it: its commands are nowhere.
LEMMA PipeLost ==
    ASSUME PlaceInv, stdin' = <<>>, UNCHANGED <<slot, out, execs, pc>>
    PROVE  PlaceInv'
<1>1. Len(stdin') = 0
  OBVIOUS
<1>2. \A x \in Commands : ~InPipe(x)'
  BY <1>1 DEF InPipe
<1>3. \A x \in Commands : InSlot(x)' <=> InSlot(x)
  BY DEF InSlot
<1>4. Written'
  BY <1>2, <1>3 DEF PlaceInv, Written
<1>5. OnePlace'
  BY <1>1, <1>2, <1>3 DEF PlaceInv, OnePlace
<1>6. Answers' /\ CarriedOutOnce'
  BY DEF PlaceInv, Answers, CarriedOutOnce
<1>7. QED
  BY <1>4, <1>5, <1>6 DEF PlaceInv

\* A response ends the call of its id, if that call still has its waiter: the
\* command was carried out, so the call has written it and holds the lock.
LEMMA ReceivedResponse ==
    ASSUME Inv, Receive
    PROVE  Inv'
<1>1. /\ CallTypes /\ BreakerTypes /\ ChildTypes /\ PipeTypes
      /\ ChildExists /\ CallInv /\ PlaceInv /\ TrueSuccess
  BY TypeParts DEF Inv
<1>2. PICK m : m = Head(out)
  OBVIOUS
<1>3. /\ out \in Seq(Responses) /\ out # <<>> /\ out' = Tail(out)
      /\ UNCHANGED <<agent, proc, slot, stdin, execs>>
  BY <1>1 DEF Receive, PipeTypes
<1>4. /\ m \in Responses /\ m = out[1] /\ Len(out) \in Nat /\ Len(out) >= 1
      /\ out' \in Seq(Responses) /\ Len(out') = Len(out) - 1
      /\ \A i \in 1 .. Len(out) - 1 : out'[i] = out[i + 1]
  BY <1>2, <1>3, TailElements
<1>5. m.id \in Commands /\ m.result \in {"ok", "fail"}
  BY <1>4 DEF Responses
<1>6. execs[m.id] # 0
  BY <1>1, <1>4 DEF PlaceInv, Answers
<1>7. PipeTypes' /\ ChildTypes' /\ ChildExists'
  <2>1. PipeTypes'
    BY <1>1, <1>3, <1>4 DEF PipeTypes
  <2>2. ChildTypes' /\ ChildExists'
    BY <1>1, <1>3 DEF ChildTypes, ChildExists, proc
  <2>3. QED
    BY <2>1, <2>2
<1>8. Answers'
  BY <1>1, <1>3, <1>4 DEF PlaceInv, Answers
<1>9. \A x \in Commands : (InSlot(x)' <=> InSlot(x)) /\ (InPipe(x)' <=> InPipe(x))
  BY <1>3 DEF InSlot, InPipe
<1>10. OnePlace' /\ CarriedOutOnce'
  BY <1>1, <1>3, <1>9 DEF PlaceInv, OnePlace, CarriedOutOnce
<1>11. CASE m.id \in waiters
  <2>1. Finish(m.id, m.result)
    BY <1>2, <1>11 DEF Receive
  <2>2. pc[m.id] = "sent"
    BY <1>1, <1>5, <1>6, <1>11 DEF CallInv, WaitersExact, PlaceInv, Written
  <2>3. MyTurn(m.id)
    BY <1>1, <1>5, <2>2 DEF CallInv, Queue
  <2>4. CallTypes' /\ CallInv' /\ BreakerTypes'
    BY <1>1, <1>5, <2>1, <2>2, <2>3, FinishCall
  <2>5. /\ pc'[m.id] = "done"
        /\ \A x \in Commands : x # m.id => pc'[x] = pc[x] /\ result'[x] = result[x]
    BY <1>1, <1>5, <2>1 DEF Finish, CallTypes
  <2>6. Written'
    BY <1>1, <1>3, <1>9, <2>5 DEF PlaceInv, Written
  <2>7. TrueSuccess'
    <3>1. ASSUME NEW x \in Commands, result'[x] = "ok" PROVE execs'[x] > 0
      <4>1. CASE x = m.id
        BY <1>1, <1>3, <1>5, <1>6, <4>1 DEF PipeTypes
      <4>2. CASE x # m.id
        <5>1. result[x] = "ok"
          BY <2>5, <3>1, <4>2
        <5>2. QED
          BY <1>1, <1>3, <5>1 DEF TrueSuccess
      <4>3. QED
        BY <4>1, <4>2
    <3>2. QED
      BY <3>1 DEF TrueSuccess
  <2>8. QED
    BY <1>7, <1>8, <1>10, <2>4, <2>6, <2>7, TypePartsNext DEF Inv, PlaceInv
<1>12. CASE m.id \notin waiters
  <2>1. UNCHANGED <<calls, circuit>>
    BY <1>2, <1>12 DEF Receive
  <2>2. CallTypes' /\ BreakerTypes'
    BY <1>1, <2>1 DEF CallTypes, BreakerTypes, calls, circuit
  <2>3. CallInv'
    BY <1>1, <2>1 DEF CallInv, FiredQueue, WaitersExact, Queue, MyTurn, calls
  <2>4. Written'
    BY <1>1, <1>3, <1>9, <2>1 DEF PlaceInv, Written, calls
  <2>5. TrueSuccess'
    BY <1>1, <1>3, <2>1 DEF TrueSuccess, calls
  <2>6. QED
    BY <1>7, <1>8, <1>10, <2>2, <2>3, <2>4, <2>5, TypePartsNext DEF Inv, PlaceInv
<1>13. QED
  BY <1>11, <1>12

-----------------------------------------------------------------------------
(* The inductive invariant.                                                *)

LEMMA InitInv == Init => Inv
<1>1. SUFFICES ASSUME Init PROVE Inv
  OBVIOUS
<1>2. CallTypes /\ BreakerTypes /\ PipeTypes
  <2>1. CallTypes
    BY <1>1, CommandsAssumption DEF Init, CallTypes
  <2>2. BreakerTypes
    BY <1>1 DEF Init, BreakerTypes
  <2>3. PipeTypes
    BY <1>1 DEF Init, PipeTypes
  <2>4. QED
    BY <2>1, <2>2, <2>3
<1>3. ChildTypes
  <2>1. alive \in BOOLEAN /\ registered \in BOOLEAN
    BY <1>1 DEF Init
  <2>2. child \in 0 .. MaxChildren /\ mapped \in 0 .. MaxChildren
    BY <1>1, CommandsAssumption DEF Init
  <2>3. agent \in Agents /\ setup \subseteq Children
    BY <1>1 DEF Init
  <2>4. QED
    BY <2>1, <2>2, <2>3 DEF ChildTypes
<1>4. ChildExists
  BY <1>1 DEF Init, ChildExists
<1>5. Len(stdin) = 0 /\ Len(out) = 0 /\ Len(lock) = 0
  BY <1>1 DEF Init
<1>6. CallInv
  BY <1>1, <1>5 DEF Init, CallInv, FiredQueue, WaitersExact, Queue
<1>7. \A x \in Commands : ~InSlot(x) /\ ~InPipe(x)
  BY <1>1, <1>5, CommandsAssumption DEF Init, InSlot, InPipe
<1>8. PlaceInv
  BY <1>1, <1>5, <1>7 DEF Init, PlaceInv, Written, OnePlace, Answers, CarriedOutOnce
<1>9. TrueSuccess
  BY <1>1 DEF Init, TrueSuccess
<1>10. QED
  BY <1>2, <1>3, <1>4, <1>6, <1>8, <1>9, TypeParts DEF Inv

\* A step of a call that leaves the child, the pipes and the agent alone.
LEMMA CallStep ==
    ASSUME Inv, UNCHANGED <<agent, proc, pipes, execs>>,
           CallTypes', CallInv', BreakerTypes',
           \A x \in Commands : pc[x] \in {"sent", "done"} => pc'[x] \in {"sent", "done"},
           \A x \in Commands : result'[x] = "ok" => result[x] = "ok"
    PROVE  Inv'
<1>1. ChildTypes' /\ PipeTypes' /\ ChildExists'
  BY TypeParts DEF Inv, ChildTypes, PipeTypes, ChildExists, proc, pipes
<1>2. PlaceInv'
  BY PlacesKept DEF Inv
<1>3. TrueSuccess'
  BY DEF Inv, TrueSuccess
<1>4. QED
  BY <1>1, <1>2, <1>3, TypePartsNext DEF Inv

\* A step of the child or the agent that leaves the calls alone.
LEMMA ChildStep ==
    ASSUME Inv, UNCHANGED <<calls, circuit>>,
           ChildTypes', ChildExists', PipeTypes', PlaceInv', TrueSuccess'
    PROVE  Inv'
<1>1. CallTypes' /\ BreakerTypes'
  BY TypeParts DEF Inv, CallTypes, BreakerTypes, calls, circuit
<1>2. CallInv'
  BY DEF Inv, CallInv, FiredQueue, WaitersExact, Queue, MyTurn, calls
<1>3. QED
  BY <1>1, <1>2, TypePartsNext DEF Inv

\* Every step of every action keeps the invariant.
LEMMA InvStep == Inv /\ [Next]_vars => Inv'
<1>1. SUFFICES ASSUME Inv, [Next]_vars PROVE Inv'
  OBVIOUS
<1>2. /\ CallTypes /\ BreakerTypes /\ ChildTypes /\ PipeTypes
      /\ ChildExists /\ CallInv /\ PlaceInv /\ TrueSuccess
  BY <1>1, TypeParts DEF Inv
<1>3. ASSUME NEW c \in Commands, Call(c) PROVE Inv'
  <2>1. UNCHANGED <<agent, proc, pipes, execs, gen, waiters, fired, lock, failures, cool>>
    BY <1>3 DEF Call
  <2>2. CASE /\ pc' = [pc EXCEPT ![c] = "done"]
             /\ result' = [result EXCEPT ![c] = "fail"] /\ UNCHANGED breaker
    <3>1. CallTypes' /\ BreakerTypes'
      BY <1>2, <2>1, <2>2 DEF CallTypes, BreakerTypes
    <3>2. CallInv'
      BY <1>2, <1>3, <2>1, <2>2, OutsideCall DEF Call
    <3>3. QED
      BY <1>1, <1>2, <2>1, <2>2, <3>1, <3>2, CallStep DEF CallTypes
  <2>3. CASE /\ pc' = [pc EXCEPT ![c] = "get"] /\ UNCHANGED result
             /\ breaker' = IF breaker = "OPEN" THEN "HALF_OPEN" ELSE breaker
    <3>1. CallTypes' /\ BreakerTypes'
      BY <1>2, <2>1, <2>3 DEF CallTypes, BreakerTypes
    <3>2. CallInv'
      BY <1>2, <1>3, <2>1, <2>3, OutsideCall DEF Call
    <3>3. QED
      BY <1>1, <1>2, <1>3, <2>1, <2>3, <3>1, <3>2, CallStep DEF CallTypes, Call
  <2>4. QED
    BY <1>3, <2>2, <2>3 DEF Call
<1>4. ASSUME NEW c \in Commands, NotFound(c) PROVE Inv'
  <2>1. /\ UNCHANGED <<agent, proc, pipes, execs, gen, waiters, fired, lock>>
        /\ pc' = [pc EXCEPT ![c] = "done"] /\ result' = [result EXCEPT ![c] = "fail"]
    BY <1>4 DEF NotFound
  <2>2. Settle("fail")
    BY <1>4 DEF NotFound, Settle
  <2>3. CallTypes'
    BY <1>2, <2>1 DEF CallTypes
  <2>4. BreakerTypes'
    BY <1>2, <2>2, SettleType
  <2>5. CallInv'
    BY <1>2, <1>4, <2>1, OutsideCall DEF NotFound
  <2>6. QED
    BY <1>1, <1>2, <2>1, <2>3, <2>4, <2>5, CallStep DEF CallTypes
<1>5. ASSUME NEW c \in Commands, Enqueue(c) PROVE Inv'
  <2>1. CallTypes' /\ CallInv'
    BY <1>2, <1>5, EnqueueCall
  <2>2. BreakerTypes'
    BY <1>2, <1>5 DEF Enqueue, circuit, BreakerTypes
  <2>3. QED
    BY <1>1, <1>2, <1>5, <2>1, <2>2, CallStep DEF Enqueue, CallTypes
<1>6. ASSUME NEW c \in Commands, TimerFires(c) PROVE Inv'
  <2>1. CASE pc[c] = "sent" /\ Finish(c, "fail")
    <3>1. MyTurn(c)
      BY <1>2, <2>1 DEF CallInv, Queue
    <3>2. CallTypes' /\ CallInv' /\ BreakerTypes'
      BY <1>2, <2>1, <3>1, FinishCall
    <3>3. QED
      BY <1>1, <1>2, <1>6, <2>1, <3>2, CallStep DEF TimerFires, Finish, CallTypes
  <2>2. CASE /\ pc[c] \in {"lock", "write"}
             /\ fired' = fired \cup {c}
             /\ waiters' = waiters \ {c}
             /\ UNCHANGED <<pc, gen, lock, result, circuit>>
    <3>1. CallTypes' /\ CallInv'
      BY <1>2, <2>2, QueueingTimer
    <3>2. BreakerTypes'
      BY <1>2, <2>2 DEF BreakerTypes, circuit
    <3>3. QED
      BY <1>1, <1>6, <2>2, <3>1, <3>2, CallStep DEF TimerFires
  <2>3. QED
    BY <1>6, <2>1, <2>2 DEF TimerFires
<1>7. ASSUME NEW c \in Commands, WriteSlot(c) PROVE Inv'
  <2>1. /\ mapped \in Children /\ slot[mapped] = None
        /\ slot' = [slot EXCEPT ![mapped] = c]
        /\ UNCHANGED <<agent, proc, stdin, out, execs>>
    BY <1>2, <1>7, CommandsAssumption DEF WriteSlot, SlotFree, ChildTypes, Children
  <2>2. /\ CallTypes' /\ CallInv' /\ BreakerTypes'
        /\ pc[c] = "lock" /\ pc'[c] \in {"sent", "done"}
        /\ \A x \in Commands : x # c => pc'[x] = pc[x]
        /\ \A x \in Commands : result'[x] = "ok" => result[x] = "ok"
    BY <1>2, <1>7, AwaitCall DEF WriteSlot
  <2>3. PlaceInv'
    BY <1>2, <2>1, <2>2, SlotWritten
  <2>4. PipeTypes'
    BY <1>2, <2>1 DEF PipeTypes
  <2>5. ChildTypes' /\ ChildExists' /\ TrueSuccess'
    BY <1>2, <2>1, <2>2 DEF ChildTypes, ChildExists, TrueSuccess, proc
  <2>6. QED
    BY <2>2, <2>3, <2>4, <2>5, TypePartsNext DEF Inv
<1>8. ASSUME NEW c \in Commands, WriteStdin(c) PROVE Inv'
  <2>1. stdin' = Append(stdin, c) /\ UNCHANGED <<agent, proc, slot, out, execs>>
    BY <1>8 DEF WriteStdin
  <2>2. pc[c] \in {"lock", "write"} /\ MyTurn(c) /\ Await(c)
    BY <1>2, <1>8 DEF WriteStdin, Falls, CallInv, Queue
  <2>3. /\ CallTypes' /\ CallInv' /\ BreakerTypes'
        /\ pc'[c] \in {"sent", "done"}
        /\ \A x \in Commands : x # c => pc'[x] = pc[x]
        /\ \A x \in Commands : result'[x] = "ok" => result[x] = "ok"
    BY <1>2, <2>2, AwaitCall
  <2>4. PlaceInv'
    BY <1>2, <2>1, <2>2, <2>3, PipeWritten
  <2>5. PipeTypes'
    BY <1>2, <2>1 DEF PipeTypes
  <2>6. ChildTypes' /\ ChildExists' /\ TrueSuccess'
    BY <1>2, <2>1, <2>3 DEF ChildTypes, ChildExists, TrueSuccess, proc
  <2>7. QED
    BY <2>3, <2>4, <2>5, <2>6, TypePartsNext DEF Inv
<1>9. ASSUME NEW c \in Commands, WriteFails(c) PROVE Inv'
  <2>1. pc[c] \in {"lock", "write"} /\ MyTurn(c)
    BY <1>2, <1>9 DEF WriteFails, Falls, CallInv, Queue
  <2>2. CallTypes' /\ CallInv' /\ BreakerTypes'
    BY <1>2, <1>9, <2>1, FinishCall DEF WriteFails
  <2>3. QED
    BY <1>1, <1>2, <1>9, <2>2, CallStep DEF WriteFails, Finish, CallTypes
<1>w. ASSUME NEW c \in Commands, WriteWaits(c) PROVE Inv'
  <2>1. CallTypes' /\ CallInv'
    BY <1>2, <1>w, WaitingWrite
  <2>2. BreakerTypes'
    BY <1>2, <1>w DEF WriteWaits, circuit, BreakerTypes
  <2>3. QED
    BY <1>1, <1>2, <1>w, <2>1, <2>2, CallStep DEF WriteWaits, CallTypes
<1>10. CASE Receive
  BY <1>1, <1>10, ReceivedResponse
<1>11. CASE CoolDown
  <2>1. UNCHANGED <<agent, proc, pipes, calls, breaker, failures, execs>> /\ cool' = TRUE
    BY <1>11 DEF CoolDown
  <2>2. BreakerTypes'
    BY <1>2, <2>1 DEF BreakerTypes
  <2>3. CallTypes' /\ CallInv'
    BY <1>2, <2>1 DEF CallTypes, CallInv, FiredQueue, WaitersExact, Queue, MyTurn, calls
  <2>4. QED
    BY <1>1, <2>1, <2>2, <2>3, CallStep DEF calls
<1>12. CASE Spawn
  <2>1. /\ UNCHANGED <<agent, mapped, pipes, calls, circuit, execs>>
        /\ child < MaxChildren /\ child' = child + 1
        /\ alive' = TRUE /\ registered' = TRUE
    BY <1>12 DEF Spawn
  <2>2. child' \in 0 .. MaxChildren /\ child' \in Children /\ child' # 0
    BY <1>2, <2>1, CommandsAssumption DEF ChildTypes, Children
  <2>3. setup' \subseteq Children
    BY <1>2, <1>12, <2>1, <2>2 DEF Spawn, ChildTypes
  <2>4. alive' \in BOOLEAN /\ registered' \in BOOLEAN
    BY <2>1
  <2>5. ChildTypes' /\ ChildExists'
    BY <1>2, <2>1, <2>2, <2>3, <2>4 DEF ChildTypes, ChildExists
  <2>6. PipeTypes' /\ PlaceInv' /\ TrueSuccess'
    BY <1>2, <2>1, PlacesKept DEF PipeTypes, TrueSuccess, pipes, calls
  <2>7. QED
    BY <1>1, <2>1, <2>5, <2>6, ChildStep
<1>13. CASE Exit
  <2>1. /\ UNCHANGED <<agent, child, registered, setup, mapped, slot, out, calls, circuit, execs>>
        /\ alive' = FALSE /\ stdin' = <<>>
    BY <1>13 DEF Exit
  <2>2. ChildTypes' /\ ChildExists'
    BY <1>2, <2>1 DEF ChildTypes, ChildExists
  <2>3. PipeTypes' /\ TrueSuccess'
    BY <1>2, <2>1 DEF PipeTypes, TrueSuccess, calls
  <2>4. PlaceInv'
    BY <1>2, <2>1, PipeLost DEF calls
  <2>5. QED
    BY <1>1, <2>1, <2>2, <2>3, <2>4, ChildStep
<1>14. CASE ReaderEnds
  <2>1. /\ UNCHANGED <<agent, child, alive, setup, pipes, calls, circuit, execs>>
        /\ registered' = FALSE /\ mapped' = 0
    BY <1>14 DEF ReaderEnds
  <2>2. mapped' \in 0 .. MaxChildren
    BY <2>1, CommandsAssumption
  <2>3. registered' \in BOOLEAN
    BY <2>1
  <2>4. ChildTypes' /\ ChildExists'
    BY <1>2, <2>1, <2>2, <2>3 DEF ChildTypes, ChildExists
  <2>5. PipeTypes' /\ PlaceInv' /\ TrueSuccess'
    BY <1>2, <2>1, PlacesKept DEF PipeTypes, TrueSuccess, pipes, calls
  <2>6. QED
    BY <1>1, <2>1, <2>4, <2>5, ChildStep
<1>15. \A r \in Replies : r \in {"ok", "fail", "silent"}
  BY <1>2 DEF ChildTypes, Agents, Replies, PollingReplies, DeafReplies, LinesReplies
<1>16. ASSUME NEW r \in Replies, PollSlot(r) PROVE Inv'
  <2>1. PipeTypes' /\ PlaceInv' /\ TrueSuccess'
    BY <1>2, <1>15, <1>16, PolledCommand
  <2>2. ChildTypes' /\ ChildExists'
    BY <1>2, <1>16 DEF ChildTypes, ChildExists, PollSlot, proc
  <2>3. QED
    BY <1>1, <1>16, <2>1, <2>2, ChildStep DEF PollSlot
<1>17. ASSUME NEW r \in Replies, NEW n \in 1 .. Cardinality(Commands), ReadStdin(n, r)
       PROVE  Inv'
  <2>1. PipeTypes' /\ PlaceInv' /\ TrueSuccess'
    BY <1>2, <1>15, <1>17, ReadCommand
  <2>2. ChildTypes' /\ ChildExists'
    BY <1>2, <1>17 DEF ChildTypes, ChildExists, ReadStdin, proc
  <2>3. QED
    BY <1>1, <1>17, <2>1, <2>2, ChildStep DEF ReadStdin
<1>18. ASSUME NEW g \in Children, MapSegments(g) PROVE Inv'
  <2>1. /\ UNCHANGED <<agent, child, alive, registered, pipes, calls, circuit, execs>>
        /\ setup' = setup \ {g} /\ mapped' \in {mapped, g}
    BY <1>18 DEF MapSegments
  <2>2. mapped' \in 0 .. MaxChildren
    BY <1>2, <2>1, CommandsAssumption DEF ChildTypes, Children
  <2>3. ChildTypes' /\ ChildExists'
    BY <1>2, <2>1, <2>2 DEF ChildTypes, ChildExists
  <2>4. PipeTypes' /\ PlaceInv' /\ TrueSuccess'
    BY <1>2, <2>1, PlacesKept DEF PipeTypes, TrueSuccess, pipes, calls
  <2>5. QED
    BY <1>1, <2>1, <2>3, <2>4, ChildStep
<1>19. CASE UNCHANGED vars
  <2>1. UNCHANGED <<agent, proc, pipes, calls, circuit, execs>>
    BY <1>19 DEF vars
  <2>2. ChildTypes' /\ ChildExists'
    BY <1>2, <2>1 DEF ChildTypes, ChildExists, proc
  <2>3. PipeTypes' /\ PlaceInv' /\ TrueSuccess'
    BY <1>2, <2>1, PlacesKept DEF PipeTypes, TrueSuccess, pipes, calls
  <2>4. QED
    BY <1>1, <2>1, <2>2, <2>3, ChildStep
<1>20. QED
  BY <1>1, <1>3, <1>4, <1>5, <1>6, <1>7, <1>8, <1>9, <1>10, <1>11, <1>12, <1>13,
     <1>14, <1>16, <1>17, <1>18, <1>19, <1>w DEF Next

LEMMA InvHolds == Spec => []Inv
  BY InitInv, InvStep, PTL DEF Spec

\* Every variable of the command path keeps to the values the code can give it,
\* whatever the calls, the child, its agent and the timers do.
THEOREM CommandsTypeCorrect == Spec => []TypeOK
<1>1. Inv => TypeOK
  BY DEF Inv
<1>2. QED
  BY <1>1, InvHolds, PTL

\* responseWaiters holds exactly the calls that can still be answered: no write
\* that throws, timer, or response leaves an entry behind or takes one early.
THEOREM CommandsWaitersExact == Spec => []WaitersExact
<1>1. Inv => WaitersExact
  BY DEF Inv, CallInv
<1>2. QED
  BY <1>1, InvHolds, PTL

\* No command is carried out twice, although it may go through the slot or
\* through stdin, and to whatever child is mapped when its turn comes.
THEOREM CommandsCarriedOutOnce == Spec => []CarriedOutOnce
<1>1. Inv => CarriedOutOnce
  BY DEF Inv, PlaceInv
<1>2. QED
  BY <1>1, InvHolds, PTL

\* sendCommand reports success only for a command that an agent carried out: no
\* late response is taken for that of another command.
THEOREM CommandsTrueSuccess == Spec => []TrueSuccess
<1>1. Inv => TrueSuccess
  BY DEF Inv
<1>2. QED
  BY <1>1, InvHolds, PTL

\* The chain of stdin locks admits one call at a time: of the calls that have
\* written their command and wait for the response there is never a second one.
OneInFlight == \A c, d \in Commands : pc[c] = "sent" /\ pc[d] = "sent" => c = d

\* The promise chain of stdinLocks keeps the commands of a child one at a time
\* from the write to the response or the timer.
THEOREM CommandsOneInFlight == Spec => []OneInFlight
<1>1. Inv => OneInFlight
  BY DEF Inv, CallInv, Queue, MyTurn, OneInFlight
<1>2. QED
  BY <1>1, InvHolds, PTL
=============================================================================
