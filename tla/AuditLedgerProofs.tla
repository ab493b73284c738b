-------------------------- MODULE AuditLedgerProofs --------------------------
(***************************************************************************)
(* The safety of the audit ledger for every number of events, every size   *)
(* of queue, batch and chunk and any number of faults and crashes: the     *)
(* stored chain never has a hole, and an accepted event is in one place.   *)
(*                                                                         *)
(* An event goes through a pipeline, the batch being flushed and then the  *)
(* buffer.  The invariant says that the predecessor of an event is stored  *)
(* or ahead of it in the pipeline, so that whatever prefix of the batch is *)
(* committed before a crash has its predecessors on disk, and that the     *)
(* head of the chain is stored or in the pipeline while the service runs.  *)
(* That the head is restored from the stored event with the largest key    *)
(* needs the ids of events to be distinct.                                 *)
(*                                                                         *)
(* On top of it: the stored ledger verifies where its keys are in the      *)
(* order of its events, and the ledger implements the promise of Journal.  *)
(*                                                                         *)
(* At the end: the forwarding of logs.                                     *)
(***************************************************************************)
EXTENDS AuditLedger, MCLogForwarder, SequenceTheorems, SumLemmas, TLAPS

-----------------------------------------------------------------------------
(* Types, by the part of the service they are about.                       *)

ClockTypes ==
    /\ now \in 1 .. MaxTime /\ nextId \in Nat \ {0} /\ accepted \in 0 .. MaxEvents
    /\ phase \in Phases
    /\ live \subseteq 1 .. accepted /\ due \subseteq live /\ dropped \subseteq Types
    /\ used \in [Faults \cup {"all"} -> Nat]

ProcTypes ==
    /\ queue \in Seq(Raw) /\ cur \in Seq(Raw)
    /\ job \in Stored \cup {None}
    /\ pc \in {"idle", "hash", "leaf", "flush", "next"}
    /\ (pc = "hash") = (job # None)
    /\ pc = "hash" => cur # <<>> /\ job.src = cur[1].src
    /\ pc = "idle" => cur = <<>>

BufTypes ==
    /\ buffer \in Seq(Stored) /\ toFlush \in Seq(Stored)
    /\ saved \in 0 .. Len(toFlush)

DiskTypes ==
    /\ kv \in SUBSET Stored /\ count \in Nat
    /\ lastHash \in Nat /\ lastVerified \in Nat

SideTypes ==
    /\ vscan \in {"none", "valid", "broken"}
    /\ purge \in [checkpoint : Stored, cutoff : Int, step : {"save", "delete"}] \cup {None}
    /\ sync \in Stored \cup {None}

\* A stored set is finite, and processQueue runs only while the service does.
Sound == IsFiniteSet(kv) /\ (pc # "idle" => Running)

TypeInv == ClockTypes /\ ProcTypes /\ BufTypes /\ DiskTypes /\ SideTypes /\ Sound

LEMMA TypeParts ==
    TypeOK <=> ClockTypes /\ ProcTypes /\ BufTypes /\ DiskTypes /\ SideTypes
  BY DEF TypeOK, ClockTypes, ProcTypes, BufTypes, DiskTypes, SideTypes

\* Raw events in the order processQueue takes them.
Raws == cur \o queue

LEMMA NoneNotStored == None \notin Stored
  BY DEF None, Stored

\* The types an event may have.
EventTypes == Types \cup {"MERKLE_COMMIT", "CHECKPOINT", "REMOTE"}

LEMMA EventType ==
    ASSUME ClockTypes
    PROVE  \A src \in 0 .. MaxEvents, type \in EventTypes, ts \in 1 .. MaxTime, rank \in Ranks,
              prev \in Nat \cup {TRUNCATED} :
              LET e == Event(src, type, ts, rank, prev)
              IN  /\ e \in Stored /\ e # None
                  /\ e.id = nextId /\ e.src = src /\ e.prev = prev
<1>1. SUFFICES ASSUME NEW src \in 0 .. MaxEvents, NEW type \in EventTypes,
                      NEW ts \in 1 .. MaxTime, NEW rank \in Ranks, NEW prev \in Nat \cup {TRUNCATED}
               PROVE  LET e == Event(src, type, ts, rank, prev)
                      IN  /\ e \in Stored /\ e # None
                          /\ e.id = nextId /\ e.src = src /\ e.prev = prev
  OBVIOUS
<1>2. nextId \in Nat
  BY DEF ClockTypes
<1>3. Event(src, type, ts, rank, prev) \in Stored
  BY <1>2 DEF Event, Stored, EventTypes
<1>4. QED
  BY <1>3, NoneNotStored DEF Event

LEMMA CheckpointType ==
    ASSUME ClockTypes, NEW rank \in Ranks
    PROVE  /\ Checkpoint(rank) \in Stored /\ Checkpoint(rank) # None
           /\ Checkpoint(rank).id = nextId /\ Checkpoint(rank).src = 0
           /\ Checkpoint(rank).prev = TRUNCATED
<1>1. now \in 1 .. MaxTime /\ 0 \in 0 .. MaxEvents
  BY LedgerAssumption DEF ClockTypes
<1>2. /\ "CHECKPOINT" \in EventTypes /\ TRUNCATED \in Nat \cup {TRUNCATED}
  BY DEF EventTypes
<1>3. PICK t, p : t = now /\ p = TRUNCATED
  OBVIOUS
<1>4. Checkpoint(rank) = Event(0, "CHECKPOINT", t, rank, p)
  BY <1>3 DEF Checkpoint
<1>5. t \in 1 .. MaxTime /\ p \in Nat \cup {TRUNCATED}
  BY <1>1, <1>2, <1>3
<1>6. QED
  BY <1>1, <1>2, <1>3, <1>4, <1>5, EventType

\* The top of processQueue's inner loop.
LEMMA StartJobEffect ==
    ASSUME ClockTypes, NEW rest \in Seq(Raw), rest # <<>>, NEW prev \in Nat, StartJob(rest, prev)
    PROVE  /\ cur' = rest /\ pc' = "hash" /\ nextId' = nextId + 1
           /\ job' \in Stored /\ job' # None /\ job'.src = cur'[1].src
           /\ job'.id = nextId /\ job'.prev = prev /\ job'.type # "CHECKPOINT"
<1>1. /\ cur' = rest /\ pc' = "hash" /\ nextId' = nextId + 1
  BY DEF StartJob
<1>2. PICK x : x = rest[1]
  OBVIOUS
<1>3. x \in Raw
  <2>1. 1 \in 1 .. Len(rest)
    BY EmptySeq, LenProperties
  <2>2. QED
    BY <1>2, <2>1, ElementOfSeq
<1>4. /\ x.src \in 0 .. MaxEvents /\ x.type \in EventTypes /\ x.type # "CHECKPOINT"
      /\ x.ts \in 0 .. MaxTime /\ now \in 1 .. MaxTime
  <2>1. x.src \in 1 .. MaxEvents /\ x.type \in Types \cup {"MERKLE_COMMIT"} /\ x.ts \in 0 .. MaxTime
    BY <1>3 DEF Raw
  <2>2. QED
    BY <2>1, LedgerAssumption DEF ClockTypes, EventTypes
<1>5. PICK r \in Ranks : job' = Event(x.src, x.type, IF x.ts = 0 THEN now ELSE x.ts, r, prev)
  BY <1>2 DEF StartJob
<1>6. PICK t : t = IF x.ts = 0 THEN now ELSE x.ts
  OBVIOUS
<1>7. t \in 1 .. MaxTime
  BY <1>4, <1>6
<1>8. /\ job' \in Stored /\ job' # None /\ job'.src = x.src /\ job'.id = nextId
      /\ job'.prev = prev
  BY <1>4, <1>5, <1>6, <1>7, EventType
<1>9. job'.type = x.type
  BY <1>5 DEF Event
<1>10. QED
  BY <1>1, <1>2, <1>4, <1>8, <1>9

\* What a turn of the loop may be: another job, or the end of processQueue.
Turn ==
    \/ /\ pc' = "idle" /\ job' = None /\ cur' = <<>> /\ nextId' = nextId
    \/ /\ pc' = "hash" /\ cur' # <<>> /\ nextId' = nextId + 1
       /\ job' \in Stored /\ job' # None /\ job'.src = cur'[1].src
       /\ job'.id = nextId /\ job'.prev = lastHash /\ job'.type # "CHECKPOINT"

LEMMA AdvanceEffect ==
    ASSUME ClockTypes, ProcTypes, DiskTypes, Advance
    PROVE  Turn /\ ProcTypes' /\ Raws' = Raws
<1>1. queue \in Seq(Raw) /\ cur \in Seq(Raw) /\ lastHash \in Nat
  BY DEF ProcTypes, DiskTypes
<1>2. CASE cur # <<>> /\ StartJob(cur, lastHash) /\ UNCHANGED queue
  BY <1>1, <1>2, StartJobEffect DEF Turn, ProcTypes, Raws
<1>3. CASE cur = <<>> /\ queue # <<>> /\ StartJob(queue, lastHash) /\ queue' = <<>>
  <2>1. cur' = queue /\ Turn
    BY <1>1, <1>3, StartJobEffect DEF Turn
  <2>2. ProcTypes'
    BY <1>1, <1>3, StartJobEffect DEF ProcTypes
  <2>3. queue \o <<>> = queue /\ <<>> \o queue = queue
    BY <1>1, ConcatEmptySeq
  <2>4. QED
    BY <1>3, <2>1, <2>2, <2>3 DEF Raws
<1>4. CASE /\ cur = <<>> /\ queue = <<>> /\ pc' = "idle" /\ job' = None
           /\ UNCHANGED <<cur, queue, nextId>>
  BY <1>1, <1>4 DEF Turn, ProcTypes, Raws
<1>5. QED
  BY <1>2, <1>3, <1>4 DEF Advance

\* logEvent: one more raw event at the end, and a job if none was under way.
LEMMA EnqueueEffect ==
    ASSUME ClockTypes, ProcTypes, DiskTypes,
           NEW type \in Types \cup {"MERKLE_COMMIT"}, NEW ts \in 0 .. MaxTime, Enqueue(type, ts)
    PROVE  /\ ProcTypes' /\ accepted' = accepted + 1 /\ accepted' \in 0 .. MaxEvents
           /\ live' = live \cup {accepted + 1}
           /\ Turn \/ (pc # "idle" /\ UNCHANGED <<cur, job, pc, nextId>>)
           /\ \E raw \in Raw : raw.src = accepted + 1 /\ Raws' = Append(Raws, raw)
<1>1. /\ queue \in Seq(Raw) /\ cur \in Seq(Raw) /\ lastHash \in Nat
      /\ accepted \in Nat /\ MaxEvents \in Nat
  BY LedgerAssumption DEF ClockTypes, ProcTypes, DiskTypes
<1>2. PICK raw : raw = [src |-> accepted + 1, type |-> type, ts |-> ts]
  OBVIOUS
<1>3. /\ accepted < MaxEvents /\ accepted' = accepted + 1 /\ live' = live \cup {accepted + 1}
      /\ IF pc = "idle"
           THEN StartJob(Append(queue, raw), lastHash) /\ queue' = <<>>
           ELSE queue' = Append(queue, raw) /\ UNCHANGED <<cur, job, pc, nextId>>
  BY <1>2 DEF Enqueue
<1>4. accepted' \in 0 .. MaxEvents /\ accepted + 1 \in 1 .. MaxEvents
  BY <1>1, <1>3
<1>5. raw \in Raw /\ raw.src = accepted + 1
  BY <1>2, <1>4 DEF Raw
<1>6. PICK q : q = Append(queue, raw)
  OBVIOUS
<1>7. q \in Seq(Raw) /\ q # <<>>
  BY <1>1, <1>5, <1>6
<1>8. CASE pc = "idle"
  <2>1. StartJob(q, lastHash) /\ queue' = <<>> /\ cur = <<>>
    BY <1>3, <1>6, <1>8 DEF ProcTypes
  <2>2. Turn /\ ProcTypes' /\ cur' = q
    BY <1>1, <1>7, <2>1, StartJobEffect DEF Turn, ProcTypes
  <2>3. q \o <<>> = q /\ <<>> \o queue = queue
    BY <1>1, <1>7, ConcatEmptySeq
  <2>4. Raws' = Append(Raws, raw)
    BY <1>6, <2>1, <2>2, <2>3 DEF Raws
  <2>5. QED
    BY <1>3, <1>4, <1>5, <2>2, <2>4
<1>9. CASE pc # "idle"
  <2>1. queue' = q /\ UNCHANGED <<cur, job, pc, nextId>>
    BY <1>3, <1>6, <1>9
  <2>2. ProcTypes'
    BY <1>7, <2>1 DEF ProcTypes
  <2>3. cur \o q = Append(cur \o queue, raw)
    BY <1>1, <1>5, <1>6
  <2>4. QED
    BY <1>3, <1>4, <1>5, <1>9, <2>1, <2>2, <2>3 DEF Raws
<1>10. QED
  BY <1>8, <1>9

-----------------------------------------------------------------------------
(* The invariant.                                                          *)

\* Every event there is, stored or on its way.
AllEvents ==
    Events \cup ({job, sync} \ {None}) \cup (IF purge = None THEN {} ELSE {purge.checkpoint})

\* The id of an event is its own.
Minted ==
    /\ \A e \in AllEvents : e.id < nextId
    /\ \A e, f \in AllEvents : e.id = f.id => e = f

Known == Ids \cup {GENESIS, TRUNCATED}

\* An id that is stored or in the pipeline.
InBatch(h, n) == \E j \in 1 .. n : toFlush[j].id = h
InBuffer(h, n) == \E j \in 1 .. n : buffer[j].id = h
Reach(h) == h \in Known \/ InBatch(h, Len(toFlush)) \/ InBuffer(h, Len(buffer))

\* The predecessor of an event is stored or ahead of it in the pipeline.
BatchLinked(i) == toFlush[i].prev \in Known \/ InBatch(toFlush[i].prev, i - 1)
BufferLinked(i) ==
    \/ buffer[i].prev \in Known
    \/ InBatch(buffer[i].prev, Len(toFlush))
    \/ InBuffer(buffer[i].prev, i - 1)
PipeLinked ==
    /\ \A i \in 1 .. saved : toFlush[i] \in kv
    /\ \A i \in 1 .. Len(toFlush) : BatchLinked(i)
    /\ \A i \in 1 .. Len(buffer) : BufferLinked(i)

\* What will be chained or saved next has its predecessor there, too.
HeadLinked ==
    /\ Running => Reach(lastHash)
    /\ pc = "hash" => Reach(job.prev)
    /\ sync # None => sync.prev \in Known
    /\ purge # None => purge.checkpoint.prev = TRUNCATED

\* An accepted event is one raw event or one ledger event.
Once ==
    /\ \A i, j \in 1 .. Len(Raws) : Raws[i].src = Raws[j].src => i = j
    /\ \A i \in 1 .. Len(Raws) : Raws[i].src \in live /\ \A e \in Events : e.src # Raws[i].src
    /\ \A e \in Events : e.src <= accepted
    /\ \A e, f \in Events : e.src = f.src /\ e.src \in live => e = f
    /\ \A s \in live : (\E i \in 1 .. Len(Raws) : Raws[i].src = s) \/ (\E e \in Events : e.src = s)
    /\ sync # None => sync.src = 0 \/ sync \in kv
    /\ purge # None => purge.checkpoint.src = 0

LedgerInv == TypeInv /\ Minted /\ ChainLinked /\ PipeLinked /\ HeadLinked /\ Once

-----------------------------------------------------------------------------
(* Types are kept.                                                         *)

LEMMA FaultType ==
    ASSUME ClockTypes, NEW k \in Faults, Fault(k)
    PROVE  used' \in [Faults \cup {"all"} -> Nat]
  BY DEF ClockTypes, Fault

LEMMA BeginFlushTypes ==
    ASSUME BufTypes, BeginFlush
    PROVE  BufTypes' /\ toFlush' = buffer /\ buffer' = <<>> /\ saved' = 0
<1>1. toFlush' = buffer /\ buffer' = <<>> /\ saved' = 0 /\ buffer \in Seq(Stored)
  BY DEF BeginFlush, BufTypes
<1>2. Len(buffer) \in Nat
  BY <1>1
<1>3. QED
  BY <1>1, <1>2 DEF BufTypes

\* The end of the chunk that is committed.
LastOf == IF saved + Chunk < Len(toFlush) THEN saved + Chunk ELSE Len(toFlush)

LEMMA ChunkEffect ==
    ASSUME TypeInv, FlushChunk
    PROVE  /\ LastOf \in Nat /\ saved < LastOf /\ LastOf <= Len(toFlush) /\ saved' = LastOf
           /\ kv' = kv \cup {toFlush[i] : i \in saved + 1 .. LastOf}
           /\ count' = count + (LastOf - saved)
           /\ \A i \in 1 .. Len(toFlush) : toFlush[i] \in Stored
           /\ UNCHANGED <<toFlush, buffer>>
<1>1. saved \in 0 .. Len(toFlush) /\ toFlush \in Seq(Stored) /\ Chunk \in Nat \ {0}
  BY LedgerAssumption DEF TypeInv, BufTypes
<1>2. Len(toFlush) \in Nat /\ saved \in Nat /\ saved < Len(toFlush)
  BY <1>1 DEF FlushChunk
<1>3. LastOf \in Nat /\ saved < LastOf /\ LastOf <= Len(toFlush)
  BY <1>1, <1>2 DEF LastOf
<1>4. QED
  BY <1>1, <1>3, ElementOfSeq DEF FlushChunk, LastOf

LEMMA ChunkTypes ==
    ASSUME TypeInv, FlushChunk
    PROVE  TypeInv'
<1>1. PICK n : n = LastOf
  OBVIOUS
<1>2. /\ n \in Nat /\ saved < n /\ n <= Len(toFlush) /\ saved' = n
      /\ kv' = kv \cup {toFlush[i] : i \in saved + 1 .. n} /\ count' = count + (n - saved)
      /\ \A i \in 1 .. Len(toFlush) : toFlush[i] \in Stored
      /\ UNCHANGED <<toFlush, buffer>>
  BY <1>1, ChunkEffect
<1>3. saved \in Nat /\ Len(toFlush) \in Nat /\ count \in Nat
  BY DEF TypeInv, BufTypes, DiskTypes
<1>4. PICK T : T = {toFlush[i] : i \in saved + 1 .. n}
  OBVIOUS
<1>5. T \subseteq Stored
  BY <1>2, <1>3, <1>4
<1>6. IsFiniteSet(T)
  <2>1. IsFiniteSet(saved + 1 .. n)
    BY <1>2, <1>3, FS_Interval
  <2>2. PICK f : f = [i \in saved + 1 .. n |-> toFlush[i]]
    OBVIOUS
  <2>3. f \in Surjection(saved + 1 .. n, T)
    BY <1>4, <2>2 DEF Surjection
  <2>4. QED
    BY <2>1, <2>3, FS_Surjection
<1>7. IsFiniteSet(kv')
  BY <1>2, <1>4, <1>6, FS_Union DEF TypeInv, Sound
<1>8. DiskTypes'
  BY <1>2, <1>3, <1>4, <1>5 DEF TypeInv, DiskTypes, FlushChunk, head
<1>9. BufTypes'
  BY <1>2, <1>3 DEF TypeInv, BufTypes
<1>10. ClockTypes' /\ ProcTypes' /\ SideTypes'
  BY DEF TypeInv, ClockTypes, ProcTypes, SideTypes, FlushChunk, proc, side, hist
<1>11. Sound'
  BY <1>7 DEF TypeInv, Sound, Running, FlushChunk, proc
<1>12. QED
  BY <1>8, <1>9, <1>10, <1>11 DEF TypeInv

\* Retention deletes nothing: the negative delta of the counter is refused.
LEMMA DeletesNothing ==
    ASSUME TypeInv, NEW c
    PROVE  DeleteBefore(c).kv = kv /\ DeleteBefore(c).count = count
<1>1. PICK X : X = {e \in kv : e.ts < c}
  OBVIOUS
<1>2. IsFiniteSet(X)
  BY <1>1, FS_Subset DEF TypeInv, Sound
<1>3. Cardinality(X) \in Nat
  BY <1>2, FS_CardinalityType
<1>4. CASE -Cardinality(X) >= 0
  <2>1. Cardinality(X) = 0
    BY <1>3, <1>4
  <2>2. X = {}
    BY <1>2, <2>1, FS_EmptySet
  <2>3. kv \ X = kv /\ count - Cardinality(X) = count
    BY <2>1, <2>2 DEF TypeInv, DiskTypes
  <2>4. QED
    BY <1>1, <1>4, <2>3 DEF DeleteBefore, KvU64Accepts
<1>5. CASE ~(-Cardinality(X) >= 0)
  BY <1>1, <1>5 DEF DeleteBefore, KvU64Accepts
<1>6. QED
  BY <1>4, <1>5

\* The order of the keys is total on events with distinct ids, so that a stored
\* ledger has a latest event.
LEMMA KeyOrder ==
    ASSUME NEW e \in Stored, NEW f \in Stored
    PROVE  /\ e.id # f.id => KeyBefore(e, f) \/ KeyBefore(f, e)
           /\ \A g \in Stored : KeyBefore(e, f) /\ KeyBefore(f, g) => KeyBefore(e, g)
<1>1. \A x \in Stored : x.ts \in Int /\ x.rank \in Int /\ x.id \in Int
  <2>1. SUFFICES ASSUME NEW x \in Stored PROVE x.ts \in Int /\ x.rank \in Int /\ x.id \in Int
    OBVIOUS
  <2>2. x.ts \in 1 .. MaxTime /\ x.rank \in Ranks /\ x.id \in Nat
    BY DEF Stored
  <2>3. x.rank \in Nat
    BY <2>2, LedgerAssumption
  <2>4. QED
    BY <2>2, <2>3
<1>2. QED
  BY <1>1 DEF KeyBefore

LEMMA KeyStrict ==
    ASSUME NEW e \in Stored, NEW f \in Stored
    PROVE  ~(KeyBefore(e, f) /\ KeyBefore(f, e))
<1>1. \A x \in Stored : x.ts \in Int /\ x.rank \in Int /\ x.id \in Int
  <2>1. SUFFICES ASSUME NEW x \in Stored PROVE x.ts \in Int /\ x.rank \in Int /\ x.id \in Int
    OBVIOUS
  <2>2. x.ts \in 1 .. MaxTime /\ x.rank \in Ranks /\ x.id \in Nat
    BY DEF Stored
  <2>3. x.rank \in Nat
    BY <2>2, LedgerAssumption
  <2>4. QED
    BY <2>2, <2>3
<1>2. QED
  BY <1>1 DEF KeyBefore

LEMMA LatestTop ==
    ASSUME TypeInv, Minted, kv # {}
    PROVE  Latest \in kv /\ \A f \in kv : f = Latest \/ KeyBefore(f, Latest)
<1>1. DEFINE Top(x, e) == e \in x /\ \A f \in x : f = e \/ KeyBefore(f, e)
<1>2. PICK K : K = kv
  OBVIOUS
<1>3. IsFiniteSet(K) /\ K \subseteq Stored
  BY <1>2 DEF TypeInv, Sound, DiskTypes
<1>4. \A e, f \in K : e.id = f.id => e = f
  BY <1>2 DEF Minted, AllEvents, Events
<1>5. PICK T : T = {x \in SUBSET K : x # {} /\ ~\E e \in x : Top(x, e)}
  OBVIOUS
<1>6. T = {}
  <2>1. SUFFICES ASSUME T # {} PROVE FALSE
    OBVIOUS
  <2>2. T \subseteq SUBSET K
    BY <1>5
  <2>3. PICK x \in T : \A y \in T : y \subseteq x => y = x
    BY <1>3, <2>1, <2>2, MinimalSubset
  <2>4. x \in SUBSET K /\ x # {} /\ ~\E e \in x : Top(x, e)
    BY <1>5, <2>3
  <2>5. PICK a \in x : TRUE
    BY <2>4
  <2>6. x \ {a} # {}
    <3>1. SUFFICES ASSUME x \ {a} = {} PROVE FALSE
      OBVIOUS
    <3>2. Top(x, a)
      BY <2>5, <3>1
    <3>3. QED
      BY <2>4, <2>5, <3>2
  <2>7. x \ {a} \notin T /\ x \ {a} \in SUBSET K
    BY <2>3, <2>4, <2>5
  <2>8. PICK b \in x \ {a} : Top(x \ {a}, b)
    BY <1>5, <2>6, <2>7
  <2>9. a \in K /\ b \in K /\ a.id # b.id
    BY <1>4, <2>4, <2>5, <2>8
  <2>10. CASE KeyBefore(a, b)
    <3>1. Top(x, b)
      BY <2>8, <2>10
    <3>2. QED
      BY <2>4, <2>8, <3>1
  <2>11. CASE KeyBefore(b, a)
    <3>1. ASSUME NEW f \in x PROVE f = a \/ KeyBefore(f, a)
      BY <1>3, <2>4, <2>8, <2>9, <2>11, KeyOrder
    <3>2. Top(x, a)
      BY <2>5, <3>1
    <3>3. QED
      BY <2>4, <2>5, <3>2
  <2>12. QED
    BY <1>3, <2>9, <2>10, <2>11, KeyOrder
<1>7. \E e \in K : Top(K, e)
  BY <1>2, <1>5, <1>6
<1>8. QED
  BY <1>2, <1>7 DEF Latest

LEMMA LatestStored ==
    ASSUME TypeInv, Minted, kv # {}
    PROVE  Latest \in kv /\ Latest.id \in Nat /\ Latest.id \in Ids
<1>1. Latest \in kv
  BY LatestTop
<1>2. kv \subseteq Stored
  BY DEF TypeInv, DiskTypes
<1>3. QED
  BY <1>1, <1>2 DEF Ids, Stored

LEMMA TypeStep ==
    ASSUME TypeInv, Minted, [Next]_vars
    PROVE  TypeInv'
<1> USE DEF mem, proc, bufs, disk, head, side, hist
<1>1. /\ ClockTypes /\ ProcTypes /\ BufTypes /\ DiskTypes /\ SideTypes /\ Sound
  BY DEF TypeInv
<1>2. "sign" \in Faults /\ "flush" \in Faults /\ "purge" \in Faults /\ "sync" \in Faults
      /\ "giveup" \in Faults /\ "stop" \in Faults /\ "crash" \in Faults
  BY DEF Faults
<1>3. nextId + 1 \in Nat \ {0} /\ nextId \in Nat /\ now \in Nat /\ now \in 0 .. MaxTime
  BY <1>1 DEF ClockTypes
<1>4. CASE LogEvent
  <2>1. PICK type \in Types, ts \in 0 .. MaxTime : Enqueue(type, ts)
    <3>1. PICK type \in Types, b \in Stamped : Enqueue(type, IF b THEN now ELSE 0)
      BY <1>4 DEF LogEvent
    <3>2. PICK ts : ts = IF b THEN now ELSE 0
      OBVIOUS
    <3>3. ts \in 0 .. MaxTime
      BY <1>3, <3>2, LedgerAssumption
    <3>4. QED
      BY <3>1, <3>2, <3>3
  <2>2. /\ ProcTypes' /\ accepted' = accepted + 1 /\ accepted' \in 0 .. MaxEvents
        /\ live' = live \cup {accepted + 1}
        /\ Turn \/ (pc # "idle" /\ UNCHANGED <<cur, job, pc, nextId>>)
    BY <1>1, <2>1, EnqueueEffect
  <2>3. Running /\ UNCHANGED <<now, bufs, disk, head, side, phase, due, dropped, used>>
    BY <1>4 DEF LogEvent
  <2>4. nextId' \in Nat \ {0}
    BY <1>3, <2>2, <1>1 DEF Turn, ClockTypes
  <2>5. live' \subseteq 1 .. accepted' /\ due \subseteq live'
    BY <1>1, <2>2 DEF ClockTypes
  <2>6. ClockTypes'
    BY <1>1, <2>2, <2>3, <2>4, <2>5 DEF ClockTypes
  <2>7. BufTypes' /\ DiskTypes' /\ SideTypes' /\ Sound'
    BY <1>1, <2>3 DEF BufTypes, DiskTypes, SideTypes, Sound, Running
  <2>8. QED
    BY <2>2, <2>6, <2>7 DEF TypeInv
<1>5. CASE LogDrop
  <2>1. dropped' \subseteq Types /\ UNCHANGED <<now, nextId, accepted, mem, disk, phase, live, due, used>>
    BY <1>1, <1>5 DEF LogDrop, ClockTypes
  <2>2. QED
    BY <1>1, <2>1
       DEF TypeInv, ClockTypes, ProcTypes, BufTypes, DiskTypes, SideTypes, Sound, Running
<1>6. CASE HashSigned
  <2>1. /\ pc = "hash" /\ buffer' = Append(buffer, job) /\ lastHash' = job.id /\ cur' = Tail(cur)
        /\ job' = None /\ pc' = "leaf"
        /\ UNCHANGED <<now, nextId, accepted, queue, toFlush, saved, disk, lastVerified, side,
                       phase, hist, used>>
    BY <1>6 DEF HashSigned
  <2>2. job \in Stored /\ job.id \in Nat /\ cur # <<>> /\ cur \in Seq(Raw)
    BY <1>1, <2>1 DEF ProcTypes, Stored
  <2>3. cur' \in Seq(Raw) /\ buffer' \in Seq(Stored)
    BY <1>1, <2>1, <2>2 DEF BufTypes
  <2>4. ProcTypes' /\ BufTypes' /\ DiskTypes'
    BY <1>1, <2>1, <2>2, <2>3 DEF ProcTypes, BufTypes, DiskTypes
  <2>5. ClockTypes' /\ SideTypes' /\ Sound'
    BY <1>1, <2>1 DEF ClockTypes, SideTypes, Sound, Running
  <2>6. QED
    BY <2>4, <2>5 DEF TypeInv
<1>7. CASE SignFail
  <2>1. /\ Fault("sign") /\ queue' = cur \o queue /\ cur' = <<>> /\ job' = None /\ pc' = "idle"
        /\ UNCHANGED <<now, nextId, accepted, bufs, disk, head, side, phase, hist>>
    BY <1>7 DEF SignFail
  <2>2. queue' \in Seq(Raw) /\ cur' \in Seq(Raw)
    BY <1>1, <2>1, ConcatProperties DEF ProcTypes
  <2>3. ProcTypes'
    BY <2>1, <2>2 DEF ProcTypes
  <2>4. used' \in [Faults \cup {"all"} -> Nat]
    BY <1>1, <1>2, <2>1, FaultType
  <2>5. ClockTypes' /\ BufTypes' /\ DiskTypes' /\ SideTypes' /\ Sound'
    BY <1>1, <2>1, <2>4 DEF ClockTypes, BufTypes, DiskTypes, SideTypes, Sound
  <2>6. QED
    BY <2>3, <2>5 DEF TypeInv
<1>8. CASE LeafDone \/ AfterFlush
  <2>1. Running /\ UNCHANGED <<now, accepted, disk, head, side, phase, hist, used>>
    BY <1>1, <1>8 DEF LeafDone, AfterFlush, Sound
  <2>2. DiskTypes' /\ SideTypes' /\ Sound'
    BY <1>1, <2>1 DEF DiskTypes, SideTypes, Sound, Running
  <2>3. CASE BeginFlush /\ pc = "leaf" /\ pc' = "flush" /\ UNCHANGED <<queue, cur, job, nextId>>
    <3>1. BufTypes'
      BY <1>1, <2>3, BeginFlushTypes
    <3>2. ProcTypes' /\ ClockTypes'
      BY <1>1, <2>1, <2>3 DEF ProcTypes, ClockTypes
    <3>3. QED
      BY <2>2, <3>1, <3>2 DEF TypeInv
  <2>4. CASE Advance /\ UNCHANGED bufs
    <3>1. Turn /\ ProcTypes'
      BY <1>1, <2>4, AdvanceEffect
    <3>2. nextId' \in Nat \ {0}
      BY <1>1, <1>3, <3>1 DEF Turn, ClockTypes
    <3>3. ClockTypes' /\ BufTypes'
      BY <1>1, <2>1, <2>4, <3>2 DEF ClockTypes, BufTypes
    <3>4. QED
      BY <2>2, <3>1, <3>3 DEF TypeInv
  <2>5. QED
    BY <1>8, <2>3, <2>4 DEF LeafDone, AfterFlush
<1>9. CASE FlushTimer
  <2>1. BeginFlush /\ UNCHANGED <<now, nextId, accepted, proc, disk, head, side, phase, hist, used>>
    BY <1>9 DEF FlushTimer
  <2>2. BufTypes'
    BY <1>1, <2>1, BeginFlushTypes
  <2>3. QED
    BY <1>1, <2>1, <2>2 DEF TypeInv, ClockTypes, ProcTypes, DiskTypes, SideTypes, Sound, Running
<1>10. CASE FlushChunk
  BY <1>10, ChunkTypes
<1>11. CASE FlushEnd \/ FlushFail
  <2>1. /\ toFlush' = <<>> /\ saved' = 0 /\ Resume
        /\ UNCHANGED <<now, nextId, accepted, queue, cur, job, disk, head, side, hist>>
    BY <1>11 DEF FlushEnd, FlushFail
  <2>2. buffer' \in Seq(Stored)
    BY <1>1, <1>11, ConcatProperties DEF FlushEnd, FlushFail, BufTypes
  <2>3. BufTypes'
    BY <2>1, <2>2 DEF BufTypes
  <2>4. used' \in [Faults \cup {"all"} -> Nat]
    BY <1>1, <1>2, <1>11, FaultType DEF FlushEnd, FlushFail, ClockTypes
  <2>5. /\ phase' \in Phases /\ (Running => Running')
        /\ pc' \in {"idle", "hash", "leaf", "flush", "next"}
        /\ (pc' = "hash" <=> pc = "hash") /\ (pc' = "idle" <=> pc = "idle")
    BY <1>1, <2>1 DEF Resume, Running, Phases, ClockTypes, ProcTypes
  <2>6. ClockTypes' /\ ProcTypes'
    BY <1>1, <2>1, <2>4, <2>5 DEF ClockTypes, ProcTypes
  <2>7. DiskTypes' /\ SideTypes' /\ Sound'
    BY <1>1, <2>1, <2>5 DEF DiskTypes, SideTypes, Sound
  <2>8. QED
    BY <2>3, <2>6, <2>7 DEF TypeInv
<1>12. CASE VerifyScan \/ VerifyDone
  <2>1. /\ vscan' \in {"none", "valid", "broken"} /\ lastVerified' \in Nat
        /\ UNCHANGED <<now, nextId, accepted, proc, bufs, disk, lastHash, purge, sync, phase, hist, used>>
    BY <1>1, <1>12 DEF VerifyScan, VerifyDone, DiskTypes
  <2>2. QED
    BY <1>1, <2>1
       DEF TypeInv, ClockTypes, ProcTypes, BufTypes, DiskTypes, SideTypes, Sound, Running
<1>13. CASE PurgeScan
  <2>1. PICK r \in Ranks :
           /\ purge' = [checkpoint |-> Checkpoint(r), cutoff |-> now - Retention, step |-> "save"]
           /\ Fault("purge") /\ nextId' = nextId + 1
           /\ UNCHANGED <<now, accepted, proc, bufs, disk, head, vscan, sync, phase, hist>>
    BY <1>13 DEF PurgeScan
  <2>2. Checkpoint(r) \in Stored /\ now - Retention \in Int
    BY <1>1, <1>3, CheckpointType, LedgerAssumption
  <2>3. purge' \in [checkpoint : Stored, cutoff : Int, step : {"save", "delete"}]
    BY <2>1, <2>2
  <2>4. used' \in [Faults \cup {"all"} -> Nat]
    BY <1>1, <1>2, <2>1, FaultType
  <2>5. SideTypes' /\ ClockTypes'
    BY <1>1, <1>3, <2>1, <2>3, <2>4 DEF SideTypes, ClockTypes
  <2>6. QED
    BY <1>1, <2>1, <2>5 DEF TypeInv, ProcTypes, BufTypes, DiskTypes, Sound, Running
<1>14. CASE PurgeSave
  <2>1. /\ purge # None /\ kv' = kv \cup {purge.checkpoint} /\ count' = count + 1
        /\ purge' = [purge EXCEPT !.step = "delete"]
        /\ UNCHANGED <<now, nextId, accepted, proc, bufs, head, vscan, sync, phase, hist, used>>
    BY <1>14 DEF PurgeSave
  <2>2. purge \in [checkpoint : Stored, cutoff : Int, step : {"save", "delete"}]
    BY <1>1, <2>1 DEF SideTypes
  <2>3. purge' \in [checkpoint : Stored, cutoff : Int, step : {"save", "delete"}]
    BY <2>1, <2>2
  <2>4. purge.checkpoint \in Stored
    BY <2>2
  <2>5. IsFiniteSet(kv')
    BY <1>1, <2>1, FS_AddElement DEF Sound
  <2>6. DiskTypes' /\ SideTypes'
    BY <1>1, <2>1, <2>3, <2>4 DEF DiskTypes, SideTypes
  <2>7. QED
    BY <1>1, <2>1, <2>5, <2>6 DEF TypeInv, ClockTypes, ProcTypes, BufTypes, Sound, Running
<1>15. CASE PurgeDelete
  <2>1. PICK c : c = purge.cutoff
    OBVIOUS
  <2>2. /\ kv' = DeleteBefore(c).kv /\ count' = DeleteBefore(c).count /\ purge' = None
        /\ UNCHANGED <<now, nextId, accepted, proc, bufs, head, vscan, sync, phase, hist, used>>
    BY <1>15, <2>1 DEF PurgeDelete
  <2>3. UNCHANGED <<kv, count>>
    BY <2>2, DeletesNothing
  <2>4. QED
    BY <1>1, <2>2, <2>3
       DEF TypeInv, ClockTypes, ProcTypes, BufTypes, DiskTypes, SideTypes, Sound, Running
<1>16. CASE SyncCheck
  <2>1. /\ Fault("sync") /\ UNCHANGED <<now, accepted, proc, bufs, disk, head, vscan, purge, phase, hist>>
    BY <1>16 DEF SyncCheck
  <2>2. sync' \in Stored /\ nextId' \in Nat \ {0}
    <3>1. ASSUME NEW t \in 1 .. now, NEW r \in Ranks, sync' = Event(0, "REMOTE", t, r, lastHash),
                 nextId' = nextId + 1
          PROVE  sync' \in Stored /\ nextId' \in Nat \ {0}
      <4>1. PICK h : h = lastHash
        OBVIOUS
      <4>2. /\ t \in 1 .. MaxTime /\ 0 \in 0 .. MaxEvents /\ h \in Nat \cup {TRUNCATED}
            /\ "REMOTE" \in EventTypes
        BY <1>1, <1>3, <4>1, LedgerAssumption DEF ClockTypes, DiskTypes, EventTypes
      <4>3. QED
        BY <1>1, <1>3, <3>1, <4>1, <4>2, EventType
    <3>2. ASSUME NEW e \in kv, sync' = e, UNCHANGED nextId
          PROVE  sync' \in Stored /\ nextId' \in Nat \ {0}
      BY <1>1, <3>2 DEF DiskTypes, ClockTypes
    <3>3. QED
      BY <1>16, <3>1, <3>2 DEF SyncCheck
  <2>3. used' \in [Faults \cup {"all"} -> Nat]
    BY <1>1, <1>2, <2>1, FaultType
  <2>4. ClockTypes' /\ SideTypes'
    BY <1>1, <2>1, <2>2, <2>3 DEF ClockTypes, SideTypes
  <2>5. QED
    BY <1>1, <2>1, <2>4 DEF TypeInv, ProcTypes, BufTypes, DiskTypes, Sound, Running
<1>17. CASE SyncSave
  <2>1. /\ sync # None /\ kv' = kv \cup {sync} /\ count' = count + 1 /\ lastHash' = sync.id
        /\ sync' = None
        /\ UNCHANGED <<now, nextId, accepted, proc, bufs, lastVerified, vscan, purge, phase, hist, used>>
    BY <1>17 DEF SyncSave
  <2>2. sync \in Stored /\ sync.id \in Nat
    BY <1>1, <2>1 DEF SideTypes, Stored
  <2>3. IsFiniteSet(kv')
    BY <1>1, <2>1, FS_AddElement DEF Sound
  <2>4. DiskTypes' /\ SideTypes'
    BY <1>1, <2>1, <2>2 DEF DiskTypes, SideTypes
  <2>5. QED
    BY <1>1, <2>1, <2>3, <2>4 DEF TypeInv, ClockTypes, ProcTypes, BufTypes, Sound, Running
<1>18. CASE BootEmpty \/ BootValid \/ BootRefuse
  <2>1. /\ lastHash' \in Nat /\ lastVerified' \in Nat /\ phase' \in {"ready", "refused"}
        /\ phase = "down"
        /\ UNCHANGED <<now, nextId, accepted, proc, bufs, disk, side, hist, used>>
    <3>1. kv # {} => Latest.id \in Nat
      BY LatestStored
    <3>2. CASE BootEmpty
      BY <3>2 DEF BootEmpty, GENESIS
    <3>3. CASE BootValid
      BY <3>1, <3>3 DEF BootValid
    <3>4. CASE BootRefuse
      BY <3>1, <3>4 DEF BootRefuse, GENESIS
    <3>5. QED
      BY <1>18, <3>2, <3>3, <3>4
  <2>2. pc = "idle"
    BY <1>1, <2>1 DEF Sound, Running
  <2>3. QED
    BY <1>1, <2>1, <2>2
       DEF TypeInv, ClockTypes, ProcTypes, BufTypes, DiskTypes, SideTypes, Sound, Phases
<1>19. CASE BootHeal
  <2>1. PICK r \in Ranks :
           /\ kv' = kv \cup {Checkpoint(r)} /\ count' = count + 1 /\ nextId' = nextId + 1
           /\ lastHash' = nextId /\ lastVerified' = nextId /\ phase' = "ready"
           /\ UNCHANGED <<now, accepted, proc, bufs, side, hist, used>>
    BY <1>19 DEF BootHeal
  <2>2. Checkpoint(r) \in Stored
    BY <1>1, CheckpointType
  <2>3. IsFiniteSet(kv')
    BY <1>1, <2>1, FS_AddElement DEF Sound
  <2>4. DiskTypes'
    BY <1>1, <1>3, <2>1, <2>2 DEF DiskTypes
  <2>5. ClockTypes' /\ Sound'
    BY <1>1, <1>3, <2>1, <2>3 DEF ClockTypes, Sound, Running, Phases
  <2>6. QED
    BY <1>1, <2>1, <2>4, <2>5 DEF TypeInv, ProcTypes, BufTypes, SideTypes
<1>20. CASE ShutdownBegin
  <2>1. /\ Fault("stop") /\ phase = "ready" /\ phase' = "drain" /\ due' = live
        /\ UNCHANGED <<now, nextId, accepted, mem, disk, live, dropped>>
    BY <1>20 DEF ShutdownBegin
  <2>2. used' \in [Faults \cup {"all"} -> Nat]
    BY <1>1, <1>2, <2>1, FaultType
  <2>3. ClockTypes' /\ Sound'
    BY <1>1, <2>1, <2>2 DEF ClockTypes, Sound, Running, Phases
  <2>4. QED
    BY <1>1, <2>1, <2>3 DEF TypeInv, ProcTypes, BufTypes, DiskTypes, SideTypes
<1>21. CASE ShutdownCommit
  <2>1. phase = "drain" /\ phase' = "final" /\ UNCHANGED <<now, bufs, disk, head, side, due, dropped>>
    BY <1>21 DEF ShutdownCommit
  <2>2. used' \in [Faults \cup {"all"} -> Nat]
    BY <1>1, <1>2, <1>21, FaultType DEF ShutdownCommit, ClockTypes
  <2>3. BufTypes' /\ DiskTypes' /\ SideTypes' /\ Sound'
    BY <1>1, <2>1 DEF BufTypes, DiskTypes, SideTypes, Sound, Running
  <2>4. CASE Enqueue("MERKLE_COMMIT", 0)
    <3>1. "MERKLE_COMMIT" \in Types \cup {"MERKLE_COMMIT"} /\ 0 \in 0 .. MaxTime
      BY LedgerAssumption
    <3>2. /\ ProcTypes' /\ accepted' = accepted + 1 /\ accepted' \in 0 .. MaxEvents
          /\ live' = live \cup {accepted + 1}
          /\ Turn \/ (pc # "idle" /\ UNCHANGED <<cur, job, pc, nextId>>)
      BY <1>1, <2>4, <3>1, EnqueueEffect
    <3>3. nextId' \in Nat \ {0}
      BY <1>3, <3>2, <1>1 DEF Turn, ClockTypes
    <3>4. live' \subseteq 1 .. accepted' /\ due \subseteq live'
      BY <1>1, <3>2 DEF ClockTypes
    <3>5. ClockTypes'
      BY <1>1, <2>1, <2>2, <3>2, <3>3, <3>4 DEF ClockTypes, Phases
    <3>6. QED
      BY <2>3, <3>2, <3>5 DEF TypeInv
  <2>5. CASE UNCHANGED <<proc, nextId, accepted, live>>
    BY <1>1, <2>1, <2>2, <2>3, <2>5 DEF TypeInv, ClockTypes, ProcTypes, Phases
  <2>6. QED
    BY <1>21, <2>4, <2>5 DEF ShutdownCommit
<1>22. CASE ShutdownFlush
  <2>1. /\ phase = "final" /\ phase' \in {"closing", "closed"}
        /\ BeginFlush \/ UNCHANGED bufs
        /\ UNCHANGED <<now, nextId, accepted, proc, disk, head, side, hist>>
    BY <1>22 DEF ShutdownFlush
  <2>2. used' \in [Faults \cup {"all"} -> Nat]
    BY <1>1, <1>2, <1>22, FaultType DEF ShutdownFlush, ClockTypes
  <2>3. BufTypes'
    <3>1. CASE BeginFlush
      BY <1>1, <3>1, BeginFlushTypes
    <3>2. CASE UNCHANGED bufs
      BY <1>1, <3>2 DEF BufTypes
    <3>3. QED
      BY <2>1, <3>1, <3>2
  <2>4. ClockTypes' /\ Sound'
    BY <1>1, <2>1, <2>2 DEF ClockTypes, Sound, Running, Phases
  <2>5. QED
    BY <1>1, <2>1, <2>3, <2>4 DEF TypeInv, ProcTypes, DiskTypes, SideTypes
<1>23. CASE Exit \/ Crash
  <2>1. /\ phase' = "down" /\ Forget
        /\ UNCHANGED <<now, nextId, accepted, disk, head, dropped>>
    BY <1>23 DEF Exit, Crash
  <2>2. used' \in [Faults \cup {"all"} -> Nat]
    BY <1>1, <1>2, <1>23, FaultType DEF Exit, Crash, ClockTypes
  <2>3. ClockTypes'
    BY <1>1, <2>1, <2>2 DEF ClockTypes, Phases, Forget
  <2>4. ProcTypes' /\ BufTypes' /\ SideTypes'
    BY <2>1 DEF Forget, ProcTypes, BufTypes, SideTypes
  <2>5. DiskTypes' /\ Sound'
    BY <1>1, <2>1 DEF DiskTypes, Sound, Forget
  <2>6. QED
    BY <2>3, <2>4, <2>5 DEF TypeInv
<1>24. CASE Tick
  <2>1. /\ now' = now + 1 /\ now < MaxTime
        /\ UNCHANGED <<nextId, accepted, mem, disk, phase, hist, used>>
    BY <1>24 DEF Tick
  <2>2. now' \in 1 .. MaxTime
    BY <1>1, <2>1, LedgerAssumption DEF ClockTypes
  <2>3. QED
    BY <1>1, <2>1, <2>2
       DEF TypeInv, ClockTypes, ProcTypes, BufTypes, DiskTypes, SideTypes, Sound, Running
<1>25. CASE UNCHANGED vars
  BY <1>1, <1>25
     DEF TypeInv, ClockTypes, ProcTypes, BufTypes, DiskTypes, SideTypes, Sound, Running, vars
<1>26. QED
  BY <1>4, <1>5, <1>6, <1>7, <1>8, <1>9, <1>10, <1>11, <1>12, <1>13, <1>14, <1>15, <1>16, <1>17,
     <1>18, <1>19, <1>20, <1>21, <1>22, <1>23, <1>24, <1>25
     DEF Next, ProcStep, FlushStep, Boot, Shutdown

-----------------------------------------------------------------------------
(* Which events there are.                                                 *)

LEMMA ElemsAppend ==
    ASSUME NEW S, NEW s \in Seq(S), NEW x \in S
    PROVE  Elems(Append(s, x)) = Elems(s) \cup {x}
<1>1. /\ Append(s, x) \in Seq(S) /\ Len(Append(s, x)) = Len(s) + 1 /\ Len(s) \in Nat
      /\ \A i \in 1 .. Len(s) : Append(s, x)[i] = s[i]
      /\ Append(s, x)[Len(s) + 1] = x
  BY AppendProperties, LenProperties
<1>2. DOMAIN s = 1 .. Len(s) /\ DOMAIN Append(s, x) = 1 .. Len(s) + 1
  BY <1>1, LenProperties
<1>3. QED
  BY <1>1, <1>2 DEF Elems

LEMMA ElemsConcat ==
    ASSUME NEW S, NEW s \in Seq(S), NEW t \in Seq(S)
    PROVE  Elems(s \o t) = Elems(s) \cup Elems(t)
<1>1. /\ s \o t \in Seq(S) /\ Len(s \o t) = Len(s) + Len(t) /\ Len(s) \in Nat /\ Len(t) \in Nat
      /\ \A i \in 1 .. Len(s) + Len(t) : (s \o t)[i] = IF i <= Len(s) THEN s[i] ELSE t[i - Len(s)]
  BY ConcatProperties, LenProperties
<1>2. /\ DOMAIN s = 1 .. Len(s) /\ DOMAIN t = 1 .. Len(t)
      /\ DOMAIN (s \o t) = 1 .. Len(s) + Len(t)
  BY <1>1, LenProperties
<1>3. \A j \in 1 .. Len(t) : (s \o t)[Len(s) + j] = t[j] /\ Len(s) + j \in 1 .. Len(s) + Len(t)
  BY <1>1
<1>4. \A i \in 1 .. Len(s) + Len(t) : i <= Len(s) \/ i - Len(s) \in 1 .. Len(t)
  BY <1>1
<1>5. Elems(s \o t) \subseteq Elems(s) \cup Elems(t)
  BY <1>1, <1>2, <1>4 DEF Elems
<1>6. Elems(s) \subseteq Elems(s \o t)
  <2>1. \A i \in 1 .. Len(s) : i \in 1 .. Len(s) + Len(t) /\ (s \o t)[i] = s[i]
    BY <1>1
  <2>2. QED
    BY <1>2, <2>1 DEF Elems
<1>7. Elems(t) \subseteq Elems(s \o t)
  <2>1. SUFFICES ASSUME NEW j \in 1 .. Len(t)
                 PROVE  t[j] \in Elems(s \o t)
    BY <1>2 DEF Elems
  <2>2. PICK i \in 1 .. Len(s) + Len(t) : (s \o t)[i] = t[j]
    BY <1>3
  <2>3. QED
    BY <1>2, <2>2 DEF Elems
<1>8. QED
  BY <1>5, <1>6, <1>7

LEMMA ElemsEmpty == Elems(<<>>) = {}
  BY DEF Elems

LEMMA AllMembers ==
    /\ Events \subseteq AllEvents /\ (job # None => job \in AllEvents)
    /\ (sync # None => sync \in AllEvents) /\ (purge # None => purge.checkpoint \in AllEvents)
  BY DEF AllEvents

LEMMA AllTyped ==
    ASSUME TypeInv
    PROVE  AllEvents \subseteq Stored
<1>1. Elems(buffer) \subseteq Stored /\ Elems(toFlush) \subseteq Stored
  BY ElementOfSeq, LenProperties DEF TypeInv, BufTypes, Elems
<1>2. Events \subseteq Stored
  BY <1>1 DEF TypeInv, DiskTypes, Events
<1>3. ({job, sync} \ {None}) \subseteq Stored
  BY DEF TypeInv, ProcTypes, SideTypes
<1>4. purge # None => purge.checkpoint \in Stored
  BY DEF TypeInv, SideTypes
<1>5. QED
  BY <1>2, <1>3, <1>4 DEF AllEvents

\* No event is new.
LEMMA MintedOld ==
    ASSUME Minted, UNCHANGED nextId, Events' \subseteq AllEvents,
           job' # None => job' \in AllEvents, sync' # None => sync' \in AllEvents,
           purge' # None => purge'.checkpoint \in AllEvents
    PROVE  Minted'
<1>1. AllEvents' \subseteq AllEvents
  BY DEF AllEvents
<1>2. QED
  BY <1>1 DEF Minted

\* One event is new, and has the next id.
LEMMA MintedNew ==
    ASSUME TypeInv, Minted, nextId' = nextId + 1, NEW x, x.id = nextId,
           Events' \subseteq AllEvents \cup {x},
           job' # None => job' \in AllEvents \cup {x},
           sync' # None => sync' \in AllEvents \cup {x},
           purge' # None => purge'.checkpoint \in AllEvents \cup {x}
    PROVE  Minted'
<1>1. AllEvents' \subseteq AllEvents \cup {x}
  BY DEF AllEvents
<1>2. nextId \in Nat /\ \A e \in AllEvents : e.id \in Nat /\ e.id < nextId
  BY AllTyped DEF Minted, TypeInv, ClockTypes, Stored
<1>3. \A e \in AllEvents \cup {x} : e.id < nextId + 1
  BY <1>2
<1>4. \A e, f \in AllEvents \cup {x} : e.id = f.id => e = f
  BY <1>2 DEF Minted
<1>5. QED
  BY <1>1, <1>3, <1>4 DEF Minted

-----------------------------------------------------------------------------
(* The chain, by what a step does to the disk and to the pipeline.         *)

Links == ChainLinked /\ PipeLinked /\ HeadLinked

\* The pipeline stays as it is; the disk may gain events whose predecessors are
\* stored, and the head stays or becomes a stored event.
LEMMA LinksAside ==
    ASSUME Links, UNCHANGED <<toFlush, buffer, saved>>, kv \subseteq kv',
           \A e \in kv' : e \in kv \/ e.prev \in Known,
           Running' => (Running /\ lastHash' = lastHash) \/ lastHash' \in Known',
           pc' = "hash" => (pc = "hash" /\ job' = job) \/ (Running /\ job'.prev = lastHash),
           sync' # None => sync'.prev \in Known,
           purge' # None => purge'.checkpoint.prev = TRUNCATED
    PROVE  Links'
<1>1. Known \subseteq Known'
  BY DEF Known, Ids
<1>2. \A h, n : InBatch(h, n)' = InBatch(h, n) /\ InBuffer(h, n)' = InBuffer(h, n)
  BY DEF InBatch, InBuffer
<1>3. \A h : Reach(h) => Reach(h)'
  BY <1>1, <1>2 DEF Reach
<1>4. ChainLinked'
  <2>1. \A e \in kv' : e.prev \in Known
    BY DEF Links, ChainLinked, Known
  <2>2. QED
    BY <1>1, <2>1 DEF ChainLinked, Known
<1>5. PipeLinked'
  BY <1>1, <1>2 DEF Links, PipeLinked, BatchLinked, BufferLinked
<1>6. HeadLinked'
  <2>1. Running' => Reach(lastHash)'
    BY <1>3 DEF Links, HeadLinked, Reach
  <2>2. pc' = "hash" => Reach(job.prev)'
    BY <1>3 DEF Links, HeadLinked
  <2>3. QED
    BY <1>1, <2>1, <2>2 DEF HeadLinked
<1>7. QED
  BY <1>4, <1>5, <1>6 DEF Links

\* HashSigned: the job goes to the end of the buffer and becomes the head.
LEMMA LinksSigned ==
    ASSUME TypeInv, Links, HashSigned
    PROVE  Links'
<1>1. /\ pc = "hash" /\ buffer' = Append(buffer, job) /\ lastHash' = job.id /\ pc' = "leaf"
      /\ UNCHANGED <<toFlush, saved, kv, sync, purge, phase>>
  BY DEF HashSigned, disk, side
<1>2. job \in Stored /\ buffer \in Seq(Stored)
  BY <1>1 DEF TypeInv, ProcTypes, BufTypes
<1>3. /\ Len(buffer') = Len(buffer) + 1 /\ Len(buffer) \in Nat
      /\ \A i \in 1 .. Len(buffer) : buffer'[i] = buffer[i]
      /\ buffer'[Len(buffer) + 1] = job
  BY <1>1, <1>2, AppendProperties, LenProperties
<1>4. PICK n : n = Len(buffer)
  OBVIOUS
<1>5. /\ n \in Nat /\ Len(buffer') = n + 1 /\ buffer'[n + 1] = job
      /\ \A i \in 1 .. n : buffer'[i] = buffer[i]
  BY <1>3, <1>4
<1>6. Known' = Known /\ \A h, m : InBatch(h, m)' = InBatch(h, m)
  BY <1>1 DEF Known, Ids, InBatch
<1>7. \A h, m : m \in 0 .. n => InBuffer(h, m)' = InBuffer(h, m)
  BY <1>5 DEF InBuffer
<1>8. PipeLinked'
  <2>1. \A i \in 1 .. n : i - 1 \in 0 .. n
    BY <1>5
  <2>2. ASSUME NEW i \in 1 .. n
        PROVE  BufferLinked(i)'
    <3>1. PICK h : h = buffer[i].prev
      OBVIOUS
    <3>2. h \in Known \/ InBatch(h, Len(toFlush)) \/ InBuffer(h, i - 1)
      BY <1>4, <3>1 DEF Links, PipeLinked, BufferLinked
    <3>3. buffer'[i].prev = h /\ i - 1 \in 0 .. n
      BY <1>5, <2>1, <3>1
    <3>4. InBuffer(h, i - 1)' = InBuffer(h, i - 1)
      BY <1>7, <3>3
    <3>5. QED
      BY <1>1, <1>6, <3>2, <3>3, <3>4 DEF InBatch, InBuffer, BufferLinked
  <2>3. BufferLinked(n + 1)'
    <3>1. PICK h : h = job.prev
      OBVIOUS
    <3>2. h \in Known \/ InBatch(h, Len(toFlush)) \/ InBuffer(h, n)
      BY <1>1, <1>4, <3>1 DEF Links, HeadLinked, Reach
    <3>3. buffer'[n + 1].prev = h /\ (n + 1) - 1 = n /\ n \in 0 .. n
      BY <1>5, <3>1
    <3>4. InBuffer(h, n)' = InBuffer(h, n)
      BY <1>7, <3>3
    <3>5. QED
      BY <1>1, <1>6, <3>2, <3>3, <3>4 DEF InBatch, InBuffer, BufferLinked
  <2>4. \A i \in 1 .. n + 1 : i \in 1 .. n \/ i = n + 1
    BY <1>5
  <2>5. \A i \in 1 .. Len(buffer') : BufferLinked(i)'
    BY <1>5, <2>2, <2>3, <2>4
  <2>6. \A i : BatchLinked(i)' = BatchLinked(i)
    BY <1>1, <1>6 DEF BatchLinked, InBatch
  <2>7. QED
    BY <1>1, <2>5, <2>6 DEF Links, PipeLinked
<1>9. HeadLinked'
  <2>1. n + 1 \in 1 .. n + 1 /\ buffer'[n + 1].id = lastHash'
    BY <1>1, <1>5
  <2>2. InBuffer(lastHash, Len(buffer))'
    BY <1>5, <2>1 DEF InBuffer
  <2>3. QED
    BY <1>1, <1>6, <2>2 DEF Links, HeadLinked, Reach
<1>10. ChainLinked'
  BY <1>1 DEF Links, ChainLinked, Ids
<1>11. QED
  BY <1>8, <1>9, <1>10 DEF Links

\* What a flush leaves alone.
Flows ==
    /\ UNCHANGED <<lastHash, job, sync, purge>>
    /\ pc' = "hash" => pc = "hash"
    /\ Running' => Running

\* The head stays reachable when everything reachable does.
LEMMA HeadKept ==
    ASSUME HeadLinked, Flows, Known \subseteq Known', \A h : Reach(h) => Reach(h)'
    PROVE  HeadLinked'
<1>1. Running' => Reach(lastHash)'
  BY DEF HeadLinked, Flows, Reach
<1>2. pc' = "hash" => Reach(job.prev)'
  BY DEF HeadLinked, Flows, Reach
<1>3. QED
  BY <1>1, <1>2 DEF HeadLinked, Flows

\* The buffer becomes the batch.
LEMMA LinksBegin ==
    ASSUME TypeInv, Links, ~Flushing, BeginFlush, UNCHANGED kv, Flows
    PROVE  Links'
<1>1. toFlush = <<>> /\ toFlush' = buffer /\ buffer' = <<>> /\ saved' = 0
  BY DEF Flushing, BeginFlush
<1>2. Len(toFlush) = 0 /\ Len(buffer') = 0 /\ Len(toFlush') = Len(buffer)
  BY <1>1
<1>3. Known' = Known
  BY DEF Known, Ids
<1>4. \A h, n : InBatch(h, n)' = InBuffer(h, n)
  BY <1>1 DEF InBatch, InBuffer
<1>5. \A h : ~InBatch(h, Len(toFlush)) /\ ~InBuffer(h, Len(buffer))'
  BY <1>2 DEF InBatch, InBuffer
<1>6. \A h : Reach(h)' = Reach(h)
  BY <1>2, <1>3, <1>4, <1>5 DEF Reach
<1>7. PipeLinked'
  <2>1. ASSUME NEW i \in 1 .. Len(buffer)
        PROVE  BatchLinked(i)'
    <3>1. PICK h : h = buffer[i].prev
      OBVIOUS
    <3>2. h \in Known \/ InBuffer(h, i - 1)
      BY <1>5, <3>1 DEF Links, PipeLinked, BufferLinked
    <3>3. toFlush'[i].prev = h
      BY <1>1, <3>1
    <3>4. QED
      BY <1>1, <1>3, <3>2, <3>3 DEF BatchLinked, InBatch, InBuffer
  <2>2. QED
    BY <1>1, <1>2, <2>1 DEF PipeLinked
<1>8. ChainLinked'
  BY DEF Links, ChainLinked, Ids
<1>9. QED
  BY <1>3, <1>6, <1>7, <1>8, HeadKept DEF Links

\* A prefix of the batch is committed: what it is chained to is stored by then.
LEMMA LinksChunk ==
    ASSUME TypeInv, Links, FlushChunk
    PROVE  Links'
<1>1. PICK n : n = LastOf
  OBVIOUS
<1>2. /\ n \in Nat /\ saved < n /\ n <= Len(toFlush) /\ saved' = n
      /\ kv' = kv \cup {toFlush[i] : i \in saved + 1 .. n}
      /\ UNCHANGED <<toFlush, buffer>>
  BY <1>1, ChunkEffect
<1>3. saved \in Nat /\ Len(toFlush) \in Nat
  BY DEF TypeInv, BufTypes
<1>4. \A i \in 1 .. n : i \in 1 .. saved \/ i \in saved + 1 .. n
  BY <1>2, <1>3
<1>5. \A i \in 1 .. n : toFlush[i] \in kv'
  BY <1>2, <1>4 DEF Links, PipeLinked
<1>6. Known \subseteq Known'
  BY <1>2 DEF Known, Ids
<1>7. /\ \A h, m : InBatch(h, m)' = InBatch(h, m) /\ InBuffer(h, m)' = InBuffer(h, m)
  BY <1>2 DEF InBatch, InBuffer
<1>8. \A h : Reach(h) => Reach(h)'
  BY <1>2, <1>6, <1>7 DEF Reach
<1>9. PipeLinked'
  <2>1. /\ \A i : BatchLinked(i) => BatchLinked(i)'
        /\ \A i : BufferLinked(i) => BufferLinked(i)'
    BY <1>2, <1>6, <1>7 DEF BatchLinked, BufferLinked
  <2>2. QED
    BY <1>2, <1>5, <2>1 DEF Links, PipeLinked
<1>10. ChainLinked'
  <2>1. SUFFICES ASSUME NEW e \in kv' PROVE e.prev \in Known'
    BY DEF ChainLinked, Known
  <2>2. CASE e \in kv
    BY <1>6, <2>2 DEF Links, ChainLinked, Known
  <2>3. CASE e \notin kv
    <3>1. PICK i \in saved + 1 .. n : e = toFlush[i]
      BY <1>2, <2>3
    <3>2. i \in 1 .. Len(toFlush) /\ \A j \in 1 .. i - 1 : j \in 1 .. n
      BY <1>2, <1>3
    <3>3. e.prev \in Known \/ \E j \in 1 .. i - 1 : toFlush[j].id = e.prev
      BY <3>1, <3>2 DEF Links, PipeLinked, BatchLinked, InBatch
    <3>4. QED
      BY <1>5, <1>6, <3>2, <3>3 DEF Known, Ids
  <2>4. QED
    BY <2>2, <2>3
<1>11. Flows
  BY DEF Flows, FlushChunk, Running, proc, head, side
<1>12. QED
  BY <1>6, <1>8, <1>9, <1>10, <1>11, HeadKept DEF Links

\* The whole batch is stored.
LEMMA LinksEnd ==
    ASSUME TypeInv, Links, saved = Len(toFlush), toFlush' = <<>>, saved' = 0,
           UNCHANGED <<buffer, kv>>, Flows
    PROVE  Links'
<1>1. Len(toFlush') = 0 /\ Known' = Known
  BY DEF Known, Ids
<1>2. \A h : InBatch(h, Len(toFlush)) => h \in Known
  BY DEF Links, PipeLinked, InBatch, Known, Ids
<1>3. \A h, m : InBuffer(h, m)' = InBuffer(h, m)
  BY DEF InBuffer
<1>4. \A h : Reach(h) => Reach(h)'
  BY <1>1, <1>2, <1>3 DEF Reach
<1>5. \A i : BufferLinked(i) => BufferLinked(i)'
  BY <1>1, <1>2, <1>3 DEF BufferLinked
<1>6. PipeLinked'
  BY <1>1, <1>5 DEF Links, PipeLinked
<1>7. ChainLinked'
  BY DEF Links, ChainLinked, Ids
<1>8. QED
  BY <1>1, <1>4, <1>6, <1>7, HeadKept DEF Links

\* The whole batch goes back in front of the buffer.
LEMMA LinksFail ==
    ASSUME TypeInv, Links, buffer' = toFlush \o buffer, toFlush' = <<>>, saved' = 0,
           UNCHANGED kv, Flows
    PROVE  Links'
<1>1. Len(toFlush') = 0 /\ Known' = Known
  BY DEF Known, Ids
<1>2. PICK m, n : m = Len(toFlush) /\ n = Len(buffer)
  OBVIOUS
<1>3. /\ m \in Nat /\ n \in Nat /\ Len(buffer') = m + n
      /\ \A i \in 1 .. m + n : buffer'[i] = IF i <= m THEN toFlush[i] ELSE buffer[i - m]
  BY <1>2, ConcatProperties, LenProperties DEF TypeInv, BufTypes
<1>4. \A i \in 1 .. m : buffer'[i] = toFlush[i]
  BY <1>3
<1>5. \A i \in 1 .. n : m + i \in 1 .. m + n /\ buffer'[m + i] = buffer[i]
  BY <1>3
<1>6. ASSUME NEW h, NEW k \in 0 .. m, InBatch(h, k)
      PROVE  \A l \in k .. m + n : InBuffer(h, l)'
  <2>1. PICK j \in 1 .. k : toFlush[j].id = h
    BY <1>6 DEF InBatch
  <2>2. \A l \in k .. m + n : j \in 1 .. l /\ j \in 1 .. m
    BY <1>3
  <2>3. QED
    BY <1>4, <2>1, <2>2 DEF InBuffer
<1>7. ASSUME NEW h, NEW k \in 0 .. n, InBuffer(h, k)
      PROVE  InBuffer(h, m + k)'
  <2>1. PICK j \in 1 .. k : buffer[j].id = h
    BY <1>7 DEF InBuffer
  <2>2. j \in 1 .. n /\ m + j \in 1 .. m + k
    BY <1>3
  <2>3. buffer'[m + j].id = h
    BY <1>5, <2>1, <2>2
  <2>4. QED
    BY <2>2, <2>3 DEF InBuffer
<1>8. \A h : Reach(h) => Reach(h)'
  <2>1. SUFFICES ASSUME NEW h, Reach(h) PROVE Reach(h)'
    OBVIOUS
  <2>2. m \in 0 .. m /\ m + n \in m .. m + n /\ n \in 0 .. n
    BY <1>3
  <2>3. InBatch(h, m) => InBuffer(h, m + n)'
    BY <1>6, <2>2
  <2>4. InBuffer(h, n) => InBuffer(h, m + n)'
    BY <1>7, <2>2
  <2>5. h \in Known \/ InBatch(h, m) \/ InBuffer(h, n)
    BY <1>2, <2>1 DEF Reach
  <2>6. QED
    BY <1>1, <1>3, <2>3, <2>4, <2>5 DEF Reach, InBuffer
<1>9. PipeLinked'
  <2>1. ASSUME NEW i \in 1 .. m
        PROVE  BufferLinked(i)'
    <3>1. PICK h : h = toFlush[i].prev
      OBVIOUS
    <3>2. h \in Known \/ InBatch(h, i - 1)
      BY <1>2, <3>1 DEF Links, PipeLinked, BatchLinked
    <3>3. i - 1 \in 0 .. m /\ i - 1 \in i - 1 .. m + n /\ buffer'[i].prev = h
      BY <1>3, <1>4, <3>1
    <3>4. h \in Known' \/ InBuffer(h, i - 1)'
      BY <1>1, <1>6, <3>2, <3>3
    <3>5. QED
      BY <3>3, <3>4 DEF BufferLinked, InBuffer
  <2>2. ASSUME NEW i \in 1 .. n
        PROVE  BufferLinked(m + i)'
    <3>1. PICK h : h = buffer[i].prev
      OBVIOUS
    <3>2. h \in Known \/ InBatch(h, m) \/ InBuffer(h, i - 1)
      BY <1>2, <3>1 DEF Links, PipeLinked, BufferLinked
    <3>3. /\ i - 1 \in 0 .. n /\ m \in 0 .. m /\ m + (i - 1) \in m .. m + n
          /\ m + (i - 1) = (m + i) - 1
      BY <1>3
    <3>4. InBatch(h, m) => InBuffer(h, m + (i - 1))'
      BY <1>6, <3>3
    <3>5. InBuffer(h, i - 1) => InBuffer(h, m + (i - 1))'
      BY <1>7, <3>3
    <3>6. buffer'[m + i].prev = h
      BY <1>5, <3>1
    <3>7. h \in Known' \/ InBuffer(h, (m + i) - 1)'
      BY <1>1, <3>2, <3>3, <3>4, <3>5
    <3>8. QED
      BY <3>6, <3>7 DEF BufferLinked, InBuffer
  <2>3. \A i \in 1 .. m + n : BufferLinked(i)'
    <3>1. SUFFICES ASSUME NEW i \in 1 .. m + n PROVE BufferLinked(i)'
      OBVIOUS
    <3>2. CASE i \in 1 .. m
      BY <2>1, <3>2
    <3>3. CASE i \notin 1 .. m
      <4>1. PICK k : k = i - m
        OBVIOUS
      <4>2. k \in 1 .. n /\ i = m + k
        BY <1>3, <3>3, <4>1
      <4>3. QED
        BY <2>2, <4>2
    <3>4. QED
      BY <3>2, <3>3
  <2>4. QED
    BY <1>1, <1>3, <2>3 DEF PipeLinked
<1>10. ChainLinked'
  BY DEF Links, ChainLinked, Ids
<1>11. QED
  BY <1>1, <1>8, <1>9, <1>10, HeadKept DEF Links

\* The process is gone, and the disk is all there is.
LEMMA LinksForget ==
    ASSUME Links, Forget, UNCHANGED kv, phase' = "down"
    PROVE  Links'
<1>1. Len(toFlush') = 0 /\ Len(buffer') = 0 /\ saved' = 0
  BY DEF Forget
<1>2. PipeLinked'
  BY <1>1 DEF PipeLinked
<1>3. HeadLinked'
  BY DEF HeadLinked, Forget, Running
<1>4. ChainLinked'
  BY DEF Links, ChainLinked, Ids
<1>5. QED
  BY <1>2, <1>3, <1>4 DEF Links

-----------------------------------------------------------------------------
(* Where an accepted event is.                                             *)

LEMMA RawsTyped ==
    ASSUME TypeInv
    PROVE  /\ Raws \in Seq(Raw) /\ Len(Raws) \in Nat /\ DOMAIN Raws = 1 .. Len(Raws)
           /\ \A i \in 1 .. Len(Raws) : Raws[i].src \in 1 .. MaxEvents
<1>1. Raws \in Seq(Raw)
  BY ConcatProperties DEF TypeInv, ProcTypes, Raws
<1>2. \A i \in 1 .. Len(Raws) : Raws[i] \in Raw
  BY <1>1, ElementOfSeq
<1>3. QED
  BY <1>1, <1>2, LenProperties DEF Raw

\* No event is accepted; ledger events that no logEvent call made may be new.
LEMMA OnceKept ==
    ASSUME TypeInv, Once, Raws' = Raws, UNCHANGED <<live, accepted>>, Events \subseteq Events',
           \A e \in Events' : e \in Events \/ e.src = 0,
           sync' # None => sync'.src = 0 \/ sync' \in kv',
           purge' # None => purge'.checkpoint.src = 0
    PROVE  Once'
<1>1. PICK R : R = Raws
  OBVIOUS
<1>2. Raws' = R
  BY <1>1
<1>3. \A i \in 1 .. Len(R) : R[i].src # 0 /\ R[i].src \in live
  BY <1>1, RawsTyped DEF Once
<1>4. accepted \in Nat /\ 0 \notin live
  BY LedgerAssumption DEF TypeInv, ClockTypes
<1>5. \A i, j \in 1 .. Len(R) : R[i].src = R[j].src => i = j
  BY <1>1 DEF Once
<1>6. \A i \in 1 .. Len(R) : \A e \in Events' : e.src # R[i].src
  BY <1>1, <1>3 DEF Once
<1>7. \A e \in Events' : e.src <= accepted
  BY <1>4 DEF Once
<1>8. \A e, f \in Events' : e.src = f.src /\ e.src \in live => e = f
  BY <1>4 DEF Once
<1>9. \A s \in live : (\E i \in 1 .. Len(R) : R[i].src = s) \/ (\E e \in Events' : e.src = s)
  BY <1>1 DEF Once
<1>10. QED
  BY <1>2, <1>3, <1>5, <1>6, <1>7, <1>8, <1>9 DEF Once

\* Taking the first raw event shifts the others.
LEMMA RawsTail ==
    ASSUME TypeInv, cur # <<>>, cur' = Tail(cur), UNCHANGED queue
    PROVE  /\ Len(Raws) \in Nat /\ Len(Raws) >= 1 /\ Raws[1] = cur[1]
           /\ Len(Raws') = Len(Raws) - 1
           /\ \A i \in 1 .. Len(Raws) - 1 : Raws'[i] = Raws[i + 1]
<1>1. cur' = Tail(cur) /\ UNCHANGED queue
  OBVIOUS
<1>2. cur \in Seq(Raw) /\ queue \in Seq(Raw) /\ cur # <<>>
  BY DEF TypeInv, ProcTypes
<1>3. PICK R, T, n : R = Raws /\ T = Raws' /\ n = Len(Raws)
  OBVIOUS
<1>4. /\ n \in Nat /\ n >= 1 /\ R[1] = cur[1] /\ Len(T) = n - 1
      /\ \A i \in 1 .. n - 1 : T[i] = R[i + 1]
  <2>1. /\ Len(cur) \in Nat /\ Len(cur) >= 1 /\ Len(queue) \in Nat
        /\ Tail(cur) \in Seq(Raw) /\ Len(Tail(cur)) = Len(cur) - 1
        /\ \A i \in 1 .. Len(cur) - 1 : Tail(cur)[i] = cur[i + 1]
    BY <1>2, EmptySeq, LenProperties, HeadTailProperties
  <2>2. /\ n = Len(cur) + Len(queue)
        /\ \A i \in 1 .. n : R[i] = IF i <= Len(cur) THEN cur[i] ELSE queue[i - Len(cur)]
    BY <1>2, <1>3, ConcatProperties DEF Raws
  <2>3. T = Tail(cur) \o queue
    BY <1>1, <1>3 DEF Raws
  <2>4. /\ Len(T) = Len(Tail(cur)) + Len(queue)
        /\ \A i \in 1 .. Len(Tail(cur)) + Len(queue) :
              T[i] = IF i <= Len(Tail(cur)) THEN Tail(cur)[i] ELSE queue[i - Len(Tail(cur))]
    BY <1>2, <2>1, <2>3, ConcatProperties
  <2>5. n \in Nat /\ n >= 1 /\ R[1] = cur[1] /\ Len(T) = n - 1
    BY <2>1, <2>2, <2>4
  <2>6. ASSUME NEW i \in 1 .. n - 1
        PROVE  T[i] = R[i + 1]
    <3>1. CASE i <= Len(cur) - 1
      BY <2>1, <2>2, <2>4, <2>5, <3>1
    <3>2. CASE ~(i <= Len(cur) - 1)
      <4>1. T[i] = queue[i - (Len(cur) - 1)]
        BY <2>1, <2>2, <2>4, <2>5, <3>2
      <4>2. R[i + 1] = queue[(i + 1) - Len(cur)]
        BY <2>1, <2>2, <2>5, <3>2
      <4>3. i - (Len(cur) - 1) = (i + 1) - Len(cur)
        BY <2>1, <2>5
      <4>4. QED
        BY <4>1, <4>2, <4>3
    <3>3. QED
      BY <3>1, <3>2
  <2>7. QED
    BY <2>5, <2>6
<1>5. QED
  BY <1>3, <1>4

\* HashSigned: the first raw event becomes a ledger event.
LEMMA OnceSigned ==
    ASSUME TypeInv, Once, HashSigned
    PROVE  Once'
<1>1. /\ pc = "hash" /\ buffer' = Append(buffer, job) /\ cur' = Tail(cur)
      /\ UNCHANGED <<queue, accepted, live, toFlush, kv, sync, purge>>
  BY DEF HashSigned, disk, side, hist
<1>2. /\ cur \in Seq(Raw) /\ queue \in Seq(Raw) /\ cur # <<>> /\ job.src = cur[1].src
      /\ job \in Stored /\ buffer \in Seq(Stored)
  BY <1>1 DEF TypeInv, ProcTypes, BufTypes
<1>3. PICK R, T, n : R = Raws /\ T = Raws' /\ n = Len(Raws)
  OBVIOUS
<1>4. /\ n \in Nat /\ n >= 1 /\ R[1] = cur[1] /\ Len(T) = n - 1
      /\ \A i \in 1 .. n - 1 : T[i] = R[i + 1]
  BY <1>1, <1>2, <1>3, RawsTail
<1>5. Events' = Events \cup {job}
  BY <1>1, <1>2, ElemsAppend DEF Events
<1>6. /\ \A i, j \in 1 .. n : R[i].src = R[j].src => i = j
      /\ \A i \in 1 .. n : R[i].src \in live /\ \A e \in Events : e.src # R[i].src
      /\ \A s \in live : (\E i \in 1 .. n : R[i].src = s) \/ (\E e \in Events : e.src = s)
  BY <1>3 DEF Once
<1>7. 1 \in 1 .. n /\ \A i \in 1 .. n - 1 : i + 1 \in 1 .. n /\ i + 1 # 1
  BY <1>4
<1>8. job.src = R[1].src /\ job.src \in live /\ \A e \in Events : e.src # job.src
  BY <1>2, <1>4, <1>6, <1>7
<1>9. \A i, j \in 1 .. n - 1 : T[i].src = T[j].src => i = j
  <2>1. SUFFICES ASSUME NEW i \in 1 .. n - 1, NEW j \in 1 .. n - 1, T[i].src = T[j].src
                 PROVE  i = j
    OBVIOUS
  <2>2. R[i + 1].src = R[j + 1].src /\ i + 1 \in 1 .. n /\ j + 1 \in 1 .. n
    BY <1>4, <1>7, <2>1
  <2>3. i + 1 = j + 1
    BY <1>6, <2>2
  <2>4. QED
    BY <1>4, <2>3
<1>10. \A i \in 1 .. n - 1 : T[i].src \in live /\ \A e \in Events' : e.src # T[i].src
  <2>1. SUFFICES ASSUME NEW i \in 1 .. n - 1
                 PROVE  T[i].src \in live /\ \A e \in Events' : e.src # T[i].src
    OBVIOUS
  <2>2. T[i] = R[i + 1] /\ i + 1 \in 1 .. n /\ i + 1 # 1
    BY <1>4, <1>7
  <2>3. R[i + 1].src # R[1].src
    BY <1>6, <1>7, <2>2
  <2>4. QED
    BY <1>5, <1>6, <1>8, <2>2, <2>3
<1>11. \A e \in Events' : e.src <= accepted
  <2>1. job.src \in 1 .. accepted /\ accepted \in 0 .. MaxEvents
    BY <1>8 DEF TypeInv, ClockTypes
  <2>2. job.src <= accepted
    BY <2>1, LedgerAssumption
  <2>3. QED
    BY <1>5, <2>2 DEF Once
<1>12. \A e, f \in Events' : e.src = f.src /\ e.src \in live => e = f
  BY <1>5, <1>8 DEF Once
<1>13. \A s \in live : (\E i \in 1 .. n - 1 : T[i].src = s) \/ (\E e \in Events' : e.src = s)
  <2>1. SUFFICES ASSUME NEW s \in live, \A e \in Events' : e.src # s
                 PROVE  \E i \in 1 .. n - 1 : T[i].src = s
    OBVIOUS
  <2>2. PICK k \in 1 .. n : R[k].src = s
    BY <1>5, <1>6, <2>1
  <2>3. k # 1
    BY <1>5, <1>8, <2>1, <2>2
  <2>4. PICK i : i = k - 1
    OBVIOUS
  <2>5. i \in 1 .. n - 1 /\ k = i + 1
    BY <1>4, <2>3, <2>4
  <2>6. QED
    BY <1>4, <2>2, <2>5
<1>14. QED
  BY <1>1, <1>3, <1>4, <1>9, <1>10, <1>11, <1>12, <1>13 DEF Once

\* logEvent: one raw event more, with a number of its own.
LEMMA OnceLogged ==
    ASSUME TypeInv, Once, NEW raw \in Raw, raw.src = accepted + 1, Raws' = Append(Raws, raw),
           accepted' = accepted + 1, live' = live \cup {accepted + 1}, Events' = Events,
           UNCHANGED <<kv, sync, purge>>
    PROVE  Once'
<1>1. PICK R, T, n, a : R = Raws /\ T = Raws' /\ n = Len(Raws) /\ a = accepted
  OBVIOUS
<1>2. /\ n \in Nat /\ Len(T) = n + 1 /\ T[n + 1] = raw
      /\ \A i \in 1 .. n : T[i] = R[i]
  BY <1>1, RawsTyped, AppendProperties
<1>3. a \in Nat /\ live \subseteq 1 .. a
  BY <1>1, LedgerAssumption DEF TypeInv, ClockTypes
<1>4. /\ \A i, j \in 1 .. n : R[i].src = R[j].src => i = j
      /\ \A i \in 1 .. n : R[i].src \in live /\ \A e \in Events : e.src # R[i].src
      /\ \A s \in live : (\E i \in 1 .. n : R[i].src = s) \/ (\E e \in Events : e.src = s)
      /\ \A e \in Events : e.src <= a
  BY <1>1 DEF Once
<1>5. a + 1 \notin live
  BY <1>3
<1>6. \A e \in Events : e.src \in Int /\ e.src # a + 1
  <2>1. \A e \in Events : e.src \in 0 .. MaxEvents
    BY AllTyped, AllMembers DEF Stored
  <2>2. QED
    BY <1>3, <1>4, <2>1, LedgerAssumption
<1>7. \A i \in 1 .. n + 1 : i \in 1 .. n \/ i = n + 1
  BY <1>2
<1>8. 1 .. n \subseteq 1 .. n + 1 /\ n + 1 \in 1 .. n + 1
  BY <1>2
<1>9. T[n + 1].src = a + 1 /\ \A i \in 1 .. n : T[i].src # a + 1
  BY <1>1, <1>2, <1>4, <1>5
<1>10. \A i, j \in 1 .. n + 1 : T[i].src = T[j].src => i = j
  BY <1>2, <1>4, <1>7, <1>9
<1>11. \A i \in 1 .. n + 1 : T[i].src \in live \cup {a + 1} /\ \A e \in Events : e.src # T[i].src
  BY <1>2, <1>4, <1>6, <1>7, <1>9
<1>12. \A e \in Events : e.src <= a + 1
  BY <1>3, <1>4, <1>6
<1>13. \A e, f \in Events : e.src = f.src /\ e.src \in live \cup {a + 1} => e = f
  BY <1>6 DEF Once
<1>14. \A s \in live \cup {a + 1} :
          (\E i \in 1 .. n + 1 : T[i].src = s) \/ (\E e \in Events : e.src = s)
  BY <1>2, <1>4, <1>8, <1>9
<1>15. QED
  BY <1>1, <1>2, <1>10, <1>11, <1>12, <1>13, <1>14 DEF Once

\* After a crash there is no event the service answers for.
LEMMA OnceForget ==
    ASSUME Once, Forget, UNCHANGED <<kv, accepted>>
    PROVE  Once'
<1>1. Raws' = <<>> /\ live' = {} /\ sync' = None /\ purge' = None
  BY DEF Forget, Raws
<1>2. Events' \subseteq Events
  BY ElemsEmpty DEF Events, Forget
<1>3. Len(Raws') = 0
  BY <1>1
<1>4. QED
  BY <1>1, <1>2, <1>3 DEF Once

-----------------------------------------------------------------------------
(* Every step keeps the invariant.                                         *)

Kept == Minted' /\ Links' /\ Once'

\* Steps that neither move nor make events.
Quiet ==
    /\ UNCHANGED <<nextId, accepted, live, buffer, toFlush, saved, kv, lastHash, sync>>
    /\ purge' = purge \/ purge' = None
    /\ Raws' = Raws
    /\ job' = job \/ job' = None
    /\ pc' = "hash" => pc = "hash" /\ job' = job
    /\ Running' => Running

LEMMA QuietStep ==
    ASSUME TypeInv, Minted, Links, Once, Quiet
    PROVE  Kept
<1>1. Events' = Events
  BY DEF Quiet, Events
<1>2. Minted'
  BY <1>1, AllMembers, MintedOld DEF Quiet
<1>3. Links'
  <2>1. /\ sync' # None => sync'.prev \in Known
        /\ purge' # None => purge'.checkpoint.prev = TRUNCATED
    BY DEF Quiet, Links, HeadLinked
  <2>2. QED
    BY <2>1, LinksAside DEF Quiet
<1>4. Once'
  <2>1. /\ sync' # None => sync'.src = 0 \/ sync' \in kv'
        /\ purge' # None => purge'.checkpoint.src = 0
    BY DEF Quiet, Once
  <2>2. QED
    BY <1>1, <2>1, OnceKept DEF Quiet
<1>5. QED
  BY <1>2, <1>3, <1>4 DEF Kept

\* A turn of processQueue's loop mints at most the event it works on.
LEMMA TurnStep ==
    ASSUME TypeInv, Minted, Links, Running,
           Turn \/ UNCHANGED <<cur, job, pc, nextId>>,
           UNCHANGED <<buffer, toFlush, saved, kv, lastHash, sync, purge>>
    PROVE  Minted' /\ Links' /\ Events' = Events
<1>1. Events' = Events
  BY DEF Events
<1>2. Minted'
  <2>1. CASE nextId' = nextId /\ (job' = job \/ job' = None)
    BY <1>1, <2>1, AllMembers, MintedOld
  <2>2. CASE nextId' = nextId + 1 /\ job'.id = nextId
    BY <1>1, <2>2, AllMembers, MintedNew
  <2>3. QED
    BY <2>1, <2>2 DEF Turn
<1>3. Links'
  <2>1. pc' = "hash" => (pc = "hash" /\ job' = job) \/ (Running /\ job'.prev = lastHash)
    BY DEF Turn
  <2>2. /\ sync' # None => sync'.prev \in Known
        /\ purge' # None => purge'.checkpoint.prev = TRUNCATED
    BY DEF Links, HeadLinked
  <2>3. QED
    BY <2>1, <2>2, LinksAside
<1>4. QED
  BY <1>1, <1>2, <1>3

\* Events move between the batch, the buffer and the disk.
LEMMA MoveStep ==
    ASSUME TypeInv, Minted, Once, Links', Events' = Events, Raws' = Raws, kv \subseteq kv',
           UNCHANGED <<nextId, accepted, live, job, sync, purge>>
    PROVE  Kept
<1>1. Minted'
  BY AllMembers, MintedOld
<1>2. Once'
  <2>1. /\ sync' # None => sync'.src = 0 \/ sync' \in kv'
        /\ purge' # None => purge'.checkpoint.src = 0
    BY DEF Once
  <2>2. QED
    BY <2>1, OnceKept
<1>3. QED
  BY <1>1, <1>2 DEF Kept

LEMMA BeginStep ==
    ASSUME TypeInv, Minted, Links, Once, ~Flushing, BeginFlush, Flows,
           UNCHANGED <<nextId, accepted, live, cur, queue, kv>>
    PROVE  Kept
<1>1. Events' = Events
  BY ElemsEmpty DEF Flushing, BeginFlush, Events
<1>2. QED
  BY <1>1, LinksBegin, MoveStep DEF Raws, Flows

LEMMA ChunkStep ==
    ASSUME TypeInv, Minted, Links, Once, FlushChunk
    PROVE  Kept
<1>1. PICK n : n = LastOf
  OBVIOUS
<1>2. /\ n \in Nat /\ saved < n /\ n <= Len(toFlush)
      /\ kv' = kv \cup {toFlush[i] : i \in saved + 1 .. n}
      /\ UNCHANGED <<toFlush, buffer>>
  BY <1>1, ChunkEffect
<1>3. saved \in Nat /\ Len(toFlush) \in Nat /\ DOMAIN toFlush = 1 .. Len(toFlush)
  BY LenProperties DEF TypeInv, BufTypes
<1>4. \A i \in saved + 1 .. n : i \in 1 .. Len(toFlush)
  BY <1>2, <1>3
<1>5. {toFlush[i] : i \in saved + 1 .. n} \subseteq Elems(toFlush)
  BY <1>3, <1>4 DEF Elems
<1>6. Events' = Events
  BY <1>2, <1>5 DEF Events
<1>7. /\ UNCHANGED <<nextId, accepted, live, cur, queue, job, sync, purge>>
  BY DEF FlushChunk, proc, side, hist
<1>8. QED
  BY <1>2, <1>6, <1>7, LinksChunk, MoveStep DEF Raws

LEMMA EndStep ==
    ASSUME TypeInv, Minted, Links, Once, FlushEnd \/ FlushFail
    PROVE  Kept
<1>1. /\ toFlush' = <<>> /\ saved' = 0 /\ Resume
      /\ UNCHANGED <<nextId, accepted, live, queue, cur, job, kv, lastHash, sync, purge>>
  BY DEF FlushEnd, FlushFail, disk, head, side, hist
<1>2. Flows
  BY <1>1 DEF Flows, Resume, Running
<1>3. CASE FlushEnd
  <2>1. saved = Len(toFlush) /\ UNCHANGED buffer
    BY <1>3 DEF FlushEnd
  <2>2. Elems(toFlush) \subseteq kv
    BY <2>1, LenProperties DEF Elems, Links, PipeLinked, TypeInv, BufTypes
  <2>3. Events' = Events
    BY <1>1, <2>1, <2>2, ElemsEmpty DEF Events
  <2>4. QED
    BY <1>1, <1>2, <2>1, <2>3, LinksEnd, MoveStep DEF Raws
<1>4. CASE FlushFail
  <2>1. buffer' = toFlush \o buffer
    BY <1>4 DEF FlushFail
  <2>2. Elems(buffer') = Elems(toFlush) \cup Elems(buffer)
    BY <2>1, ElemsConcat DEF TypeInv, BufTypes
  <2>3. Events' = Events
    BY <1>1, <2>2, ElemsEmpty DEF Events
  <2>4. QED
    BY <1>1, <1>2, <2>1, <2>3, LinksFail, MoveStep DEF Raws
<1>5. QED
  BY <1>3, <1>4

\* One event is stored that retention, mesh sync or a healing boot made.
LEMMA StoreStep ==
    ASSUME TypeInv, Minted, Links, Once, NEW x, kv' = kv \cup {x},
           x.prev \in Known, x.src = 0 \/ x \in kv,
           (x \in AllEvents /\ nextId' = nextId) \/ (x.id = nextId /\ nextId' = nextId + 1),
           UNCHANGED <<accepted, live, queue, cur, job, pc, buffer, toFlush, saved>>,
           Running' => (Running /\ lastHash' = lastHash) \/ lastHash' = x.id,
           sync' = sync \/ sync' = None,
           purge' = purge \/ (purge'.checkpoint = x /\ x.prev = TRUNCATED /\ x.src = 0)
    PROVE  Kept
<1>1. Events' = Events \cup {x}
  BY DEF Events
<1>2. Minted'
  <2>1. CASE x \in AllEvents /\ nextId' = nextId
    BY <1>1, <2>1, AllMembers, MintedOld
  <2>2. CASE x.id = nextId /\ nextId' = nextId + 1
    BY <1>1, <2>2, AllMembers, MintedNew
  <2>3. QED
    BY <2>1, <2>2
<1>3. Links'
  <2>1. /\ sync' # None => sync'.prev \in Known
        /\ purge' # None => purge'.checkpoint.prev = TRUNCATED
    BY DEF Links, HeadLinked
  <2>2. x.id \in Known'
    BY DEF Known, Ids
  <2>3. Running' => (Running /\ lastHash' = lastHash) \/ lastHash' \in Known'
    BY <2>2
  <2>4. QED
    BY <2>1, <2>3, LinksAside
<1>4. Once'
  <2>1. /\ sync' # None => sync'.src = 0 \/ sync' \in kv'
        /\ purge' # None => purge'.checkpoint.src = 0
    BY DEF Once
  <2>2. \A e \in Events' : e \in Events \/ e.src = 0
    BY <1>1 DEF Events
  <2>3. QED
    BY <1>1, <2>1, <2>2, OnceKept DEF Raws
<1>5. QED
  BY <1>2, <1>3, <1>4 DEF Kept

\* Retention and mesh sync prepare an event that they will store later.
LEMMA PrepareStep ==
    ASSUME TypeInv, Minted, Links, Once, PurgeScan \/ SyncCheck
    PROVE  Kept
<1>1. /\ UNCHANGED <<accepted, live, queue, cur, job, pc, buffer, toFlush, saved, kv, lastHash, phase>>
  BY DEF PurgeScan, SyncCheck, proc, bufs, disk, head, hist
<1>2. Events' = Events /\ Raws' = Raws
  BY <1>1 DEF Events, Raws
<1>3. ASSUME Minted', sync' # None => sync'.prev \in Known /\ (sync'.src = 0 \/ sync' \in kv),
             purge' # None => purge'.checkpoint.prev = TRUNCATED /\ purge'.checkpoint.src = 0
      PROVE  Kept
  <2>1. Links'
    BY <1>1, <1>3, LinksAside DEF Running
  <2>2. Once'
    BY <1>1, <1>2, <1>3, OnceKept
  <2>3. QED
    BY <1>3, <2>1, <2>2 DEF Kept
<1>4. CASE PurgeScan
  <2>1. PICK r \in Ranks :
           /\ purge' = [checkpoint |-> Checkpoint(r), cutoff |-> now - Retention, step |-> "save"]
           /\ nextId' = nextId + 1 /\ UNCHANGED sync
    BY <1>4 DEF PurgeScan
  <2>2. /\ Checkpoint(r).id = nextId /\ Checkpoint(r).src = 0 /\ Checkpoint(r).prev = TRUNCATED
        /\ purge'.checkpoint = Checkpoint(r)
    BY <2>1, CheckpointType DEF TypeInv
  <2>3. Minted'
    <3>1. PICK x : x = Checkpoint(r)
      OBVIOUS
    <3>2. QED
      BY <1>1, <1>2, <2>1, <2>2, <3>1, AllMembers, MintedNew
  <2>4. /\ sync' # None => sync'.prev \in Known /\ (sync'.src = 0 \/ sync' \in kv)
        /\ purge' # None => purge'.checkpoint.prev = TRUNCATED /\ purge'.checkpoint.src = 0
    BY <2>1, <2>2 DEF Links, HeadLinked, Once
  <2>5. QED
    BY <1>3, <2>3, <2>4
<1>5. CASE SyncCheck
  <2>1. UNCHANGED purge
    BY <1>5 DEF SyncCheck
  <2>2. purge' # None => purge'.checkpoint.prev = TRUNCATED /\ purge'.checkpoint.src = 0
    BY <2>1 DEF Links, HeadLinked, Once
  <2>3. ASSUME lastHash \in {GENESIS} \cup Ids, nextId' = nextId + 1,
               NEW t \in 1 .. now, NEW r \in Ranks, sync' = Event(0, "REMOTE", t, r, lastHash)
        PROVE  Kept
    <3>1. PICK h : h = lastHash
      OBVIOUS
    <3>2. /\ t \in 1 .. MaxTime /\ 0 \in 0 .. MaxEvents /\ h \in Nat \cup {TRUNCATED}
          /\ "REMOTE" \in EventTypes
      BY <3>1, LedgerAssumption DEF TypeInv, ClockTypes, DiskTypes, EventTypes
    <3>3. sync'.id = nextId /\ sync'.src = 0 /\ sync'.prev = h
      BY <2>3, <3>1, <3>2, EventType DEF TypeInv
    <3>4. h \in Known
      BY <2>3, <3>1 DEF Known
    <3>5. Minted'
      BY <1>1, <1>2, <2>1, <2>3, <3>3, AllMembers, MintedNew
    <3>6. QED
      BY <1>3, <2>2, <3>3, <3>4, <3>5
  <2>4. ASSUME NEW e \in kv, sync' = e, UNCHANGED nextId
        PROVE  Kept
    <3>1. e \in Events /\ e.prev \in Known
      BY DEF Events, Links, ChainLinked, Known
    <3>2. Minted'
      BY <1>1, <1>2, <2>1, <2>4, <3>1, AllMembers, MintedOld
    <3>3. QED
      BY <1>3, <2>2, <2>4, <3>1, <3>2
  <2>5. QED
    BY <1>5, <2>3, <2>4 DEF SyncCheck, Ids
<1>6. QED
  BY <1>4, <1>5

\* restoreChainHead: the head is a stored event or the genesis.
LEMMA BootStep ==
    ASSUME TypeInv, Minted, Links, Once, Boot
    PROVE  Kept
<1>1. /\ phase = "down" /\ UNCHANGED <<accepted, queue, cur, job, pc, buffer, toFlush, saved, live>>
      /\ UNCHANGED <<vscan, purge, sync>>
  BY DEF Boot, BootEmpty, BootValid, BootHeal, BootRefuse, proc, bufs, side, hist
<1>2. pc = "idle"
  BY <1>1 DEF TypeInv, Sound, Running
<1>3. CASE BootEmpty \/ BootValid \/ BootRefuse
  <2>1. UNCHANGED <<kv, nextId>> /\ lastHash' \in Known
    <3>1. kv # {} => Latest.id \in Known
      BY LatestStored DEF Known
    <3>2. CASE BootEmpty
      BY <3>2 DEF BootEmpty, disk, Known
    <3>3. CASE BootValid
      BY <3>1, <3>3 DEF BootValid, disk
    <3>4. CASE BootRefuse
      BY <3>1, <3>4 DEF BootRefuse, disk
    <3>5. QED
      BY <1>3, <3>2, <3>3, <3>4
  <2>2. Events' = Events /\ Known' = Known
    BY <1>1, <2>1 DEF Events, Known, Ids
  <2>3. Links'
    BY <1>1, <1>2, <2>1, <2>2, LinksAside DEF Links, HeadLinked
  <2>4. QED
    BY <1>1, <2>1, <2>2, <2>3, MoveStep DEF Raws
<1>4. CASE BootHeal
  <2>1. PICK r \in Ranks :
           /\ kv' = kv \cup {Checkpoint(r)} /\ nextId' = nextId + 1 /\ lastHash' = nextId
    BY <1>4 DEF BootHeal
  <2>2. PICK x : x = Checkpoint(r)
    OBVIOUS
  <2>3. x.id = nextId /\ x.src = 0 /\ x.prev = TRUNCATED
    BY <2>2, CheckpointType DEF TypeInv
  <2>4. x.prev \in Known
    BY <2>3 DEF Known
  <2>5. QED
    <3>1. /\ kv' = kv \cup {x}
          /\ Running' => (Running /\ lastHash' = lastHash) \/ lastHash' = x.id
      BY <2>1, <2>2, <2>3
    <3>2. QED
      BY <1>1, <2>1, <2>3, <2>4, <3>1, StoreStep
<1>5. QED
  BY <1>3, <1>4 DEF Boot

LEMMA SaveStep ==
    ASSUME TypeInv, Minted, Links, Once, PurgeSave \/ SyncSave
    PROVE  Kept
<1>1. UNCHANGED <<nextId, accepted, live, queue, cur, job, pc, buffer, toFlush, saved, phase>>
  BY DEF PurgeSave, SyncSave, proc, bufs, hist
<1>2. CASE PurgeSave
  <2>1. PICK x : x = purge.checkpoint
    OBVIOUS
  <2>2. /\ purge # None /\ kv' = kv \cup {x} /\ purge' = [purge EXCEPT !.step = "delete"]
        /\ UNCHANGED <<lastHash, sync>>
    BY <1>2, <2>1 DEF PurgeSave, head
  <2>3. x.prev = TRUNCATED /\ x.src = 0 /\ x \in AllEvents /\ x.prev \in Known
    BY <2>1, <2>2, AllMembers DEF Links, HeadLinked, Once, Known
  <2>4. purge'.checkpoint = x /\ purge' # None
    <3>1. purge \in [checkpoint : Stored, cutoff : Int, step : {"save", "delete"}]
      BY <2>2 DEF TypeInv, SideTypes
    <3>2. QED
      BY <2>1, <2>2, <3>1 DEF None
  <2>5. QED
    <3>1. Running' => (Running /\ lastHash' = lastHash) \/ lastHash' = x.id
      BY <1>1, <2>2 DEF Running
    <3>2. QED
      BY <1>1, <2>2, <2>3, <2>4, <3>1, StoreStep
<1>3. CASE SyncSave
  <2>1. PICK x : x = sync
    OBVIOUS
  <2>2. x # None /\ kv' = kv \cup {x} /\ lastHash' = x.id /\ sync' = None /\ UNCHANGED purge
    BY <1>3, <2>1 DEF SyncSave
  <2>3. x.prev \in Known /\ (x.src = 0 \/ x \in kv) /\ x \in AllEvents
    BY <2>1, <2>2, AllMembers DEF Links, HeadLinked, Once
  <2>4. QED
    BY <1>1, <2>2, <2>3, StoreStep
<1>4. QED
  BY <1>2, <1>3

\* The steps that accept an event or take the next one.
LEMMA LoopStep ==
    ASSUME TypeInv, Minted, Links, Once, LogEvent \/ LeafDone \/ AfterFlush \/ ShutdownCommit
    PROVE  Kept
<1>1. ClockTypes /\ ProcTypes /\ DiskTypes
  BY DEF TypeInv
<1>2. UNCHANGED <<kv, lastHash, sync, purge>> /\ Running
  BY DEF LogEvent, LeafDone, AfterFlush, ShutdownCommit, disk, head, side, Running, TypeInv, Sound
<1>3. ASSUME NEW type \in Types \cup {"MERKLE_COMMIT"}, NEW ts \in 0 .. MaxTime, Enqueue(type, ts),
             UNCHANGED bufs
      PROVE  Kept
  <2>1. /\ accepted' = accepted + 1 /\ live' = live \cup {accepted + 1}
        /\ Turn \/ UNCHANGED <<cur, job, pc, nextId>>
        /\ \E raw \in Raw : raw.src = accepted + 1 /\ Raws' = Append(Raws, raw)
    BY <1>1, <1>3, EnqueueEffect
  <2>2. Minted' /\ Links' /\ Events' = Events
    BY <1>2, <1>3, <2>1, TurnStep DEF bufs
  <2>3. Once'
    BY <1>2, <2>1, <2>2, OnceLogged
  <2>4. QED
    BY <2>2, <2>3 DEF Kept
<1>4. ASSUME Advance, UNCHANGED <<bufs, accepted, live>>
      PROVE  Kept
  <2>1. Turn /\ Raws' = Raws
    BY <1>1, <1>4, AdvanceEffect
  <2>2. Minted' /\ Links' /\ Events' = Events
    BY <1>2, <1>4, <2>1, TurnStep DEF bufs
  <2>3. Once'
    <3>1. /\ sync' # None => sync'.src = 0 \/ sync' \in kv'
          /\ purge' # None => purge'.checkpoint.src = 0
      BY <1>2 DEF Once
    <3>2. QED
      BY <1>4, <2>1, <2>2, <3>1, OnceKept
  <2>4. QED
    BY <2>2, <2>3 DEF Kept
<1>5. CASE LogEvent
  <2>1. PICK type \in Types, s \in Stamped : Enqueue(type, IF s THEN now ELSE 0)
    BY <1>5 DEF LogEvent
  <2>2. PICK ts : ts = IF s THEN now ELSE 0
    OBVIOUS
  <2>3. ts \in 0 .. MaxTime
    BY <1>1, <2>2, LedgerAssumption DEF ClockTypes
  <2>4. UNCHANGED bufs
    BY <1>5 DEF LogEvent
  <2>5. QED
    BY <1>3, <2>1, <2>2, <2>3, <2>4
<1>6. CASE LeafDone
  <2>1. UNCHANGED <<accepted, live, phase>> /\ pc = "leaf"
    BY <1>6 DEF LeafDone, hist
  <2>2. CASE ~Flushing /\ BeginFlush /\ pc' = "flush" /\ UNCHANGED <<queue, cur, job, nextId>>
    <3>1. Flows
      BY <1>2, <2>1, <2>2 DEF Flows, Running
    <3>2. QED
      BY <1>2, <2>1, <2>2, <3>1, BeginStep
  <2>3. CASE Advance /\ UNCHANGED bufs
    BY <1>4, <2>1, <2>3
  <2>4. QED
    BY <1>6, <2>2, <2>3 DEF LeafDone
<1>7. CASE AfterFlush
  BY <1>4, <1>7 DEF AfterFlush, hist
<1>8. CASE ShutdownCommit
  <2>1. CASE Enqueue("MERKLE_COMMIT", 0)
    <3>1. "MERKLE_COMMIT" \in Types \cup {"MERKLE_COMMIT"} /\ 0 \in 0 .. MaxTime
      BY LedgerAssumption
    <3>2. QED
      BY <1>3, <1>8, <2>1, <3>1 DEF ShutdownCommit
  <2>2. CASE UNCHANGED <<proc, nextId, accepted, live>>
    <3>1. UNCHANGED bufs
      BY <1>8 DEF ShutdownCommit
    <3>2. Quiet
      BY <1>2, <2>2, <3>1 DEF Quiet, Raws, proc, bufs
    <3>3. QED
      BY <3>2, QuietStep
  <2>3. QED
    BY <1>8, <2>1, <2>2 DEF ShutdownCommit
<1>9. QED
  BY <1>5, <1>6, <1>7, <1>8

LEMMA LedgerInit == Init => LedgerInv
<1>1. SUFFICES ASSUME Init PROVE LedgerInv
  OBVIOUS
<1>2. /\ queue = <<>> /\ cur = <<>> /\ job = None /\ pc = "idle" /\ buffer = <<>> /\ toFlush = <<>>
      /\ saved = 0 /\ kv = {} /\ sync = None /\ purge = None /\ live = {} /\ phase = "down"
  BY <1>1 DEF Init
<1>3. Len(<<>>) = 0 /\ cur \o queue = <<>>
  BY <1>2
<1>4. TypeInv
  <2>1. ClockTypes
    BY <1>1, LedgerAssumption DEF Init, ClockTypes, Phases
  <2>2. ProcTypes /\ BufTypes
    BY <1>2 DEF ProcTypes, BufTypes
  <2>3. DiskTypes /\ SideTypes
    BY <1>1 DEF Init, DiskTypes, SideTypes, GENESIS
  <2>4. Sound
    BY <1>2, FS_EmptySet DEF Sound
  <2>5. QED
    BY <2>1, <2>2, <2>3, <2>4 DEF TypeInv
<1>5. Events = {} /\ AllEvents = {}
  BY <1>2, ElemsEmpty DEF Events, AllEvents
<1>6. Minted
  BY <1>5 DEF Minted
<1>7. ChainLinked /\ PipeLinked /\ HeadLinked
  BY <1>2, <1>3 DEF ChainLinked, PipeLinked, HeadLinked, Running
<1>8. Once
  BY <1>2, <1>3, <1>5 DEF Once, Raws
<1>9. QED
  BY <1>4, <1>6, <1>7, <1>8 DEF LedgerInv

LEMMA LedgerStep == LedgerInv /\ [Next]_vars => LedgerInv'
<1>1. SUFFICES ASSUME LedgerInv, [Next]_vars PROVE LedgerInv'
  OBVIOUS
<1>2. TypeInv /\ Minted /\ Links /\ Once
  BY <1>1 DEF LedgerInv, Links
<1>3. TypeInv'
  BY <1>1, <1>2, TypeStep
<1>4. SUFFICES Kept
  BY <1>3 DEF LedgerInv, Kept, Links
<1>5. CASE LogEvent \/ LeafDone \/ AfterFlush \/ ShutdownCommit
  BY <1>2, <1>5, LoopStep
<1>6. CASE LogDrop \/ ShutdownBegin \/ Tick \/ UNCHANGED vars
  <2>1. UNCHANGED <<nextId, accepted, mem, disk, live>> /\ (Running' => Running)
    BY <1>6 DEF LogDrop, ShutdownBegin, Tick, vars, hist, Running
  <2>2. Quiet
    BY <2>1 DEF Quiet, mem, disk, Raws
  <2>3. QED
    BY <1>2, <2>2, QuietStep
<1>7. CASE HashSigned
  <2>1. /\ pc = "hash" /\ buffer' = Append(buffer, job) /\ job' = None
        /\ UNCHANGED <<nextId, toFlush, kv, sync, purge>>
    BY <1>7 DEF HashSigned, disk, side
  <2>2. job # None /\ job \in Stored /\ buffer \in Seq(Stored)
    BY <1>2, <2>1 DEF TypeInv, ProcTypes, BufTypes
  <2>3. Events' = Events \cup {job}
    BY <2>1, <2>2, ElemsAppend DEF Events
  <2>4. Minted'
    BY <1>2, <2>1, <2>2, <2>3, AllMembers, MintedOld
  <2>5. QED
    BY <1>2, <1>7, <2>4, LinksSigned, OnceSigned DEF Kept
<1>8. CASE SignFail
  <2>1. /\ queue' = cur \o queue /\ cur' = <<>> /\ job' = None /\ pc' = "idle"
        /\ UNCHANGED <<nextId, accepted, bufs, disk, head, side, phase, live>>
    BY <1>8 DEF SignFail, hist
  <2>2. Raws \in Seq(Raw)
    BY <1>2, RawsTyped
  <2>3. <<>> \o Raws = Raws
    BY <2>2, ConcatEmptySeq
  <2>4. Raws' = Raws
    BY <2>1, <2>3 DEF Raws
  <2>5. Quiet
    BY <2>1, <2>4 DEF Quiet, bufs, disk, head, side, Running
  <2>6. QED
    BY <1>2, <2>5, QuietStep
<1>9. CASE FlushTimer
  <2>1. /\ ~Flushing /\ BeginFlush
        /\ UNCHANGED <<nextId, accepted, proc, disk, head, side, phase, live>>
    BY <1>9 DEF FlushTimer, hist
  <2>2. Flows
    BY <2>1 DEF Flows, proc, head, side, Running
  <2>3. QED
    BY <1>2, <2>1, <2>2, BeginStep DEF proc, disk
<1>10. CASE FlushChunk
  BY <1>2, <1>10, ChunkStep
<1>11. CASE FlushEnd \/ FlushFail
  BY <1>2, <1>11, EndStep
<1>12. CASE VerifyScan \/ VerifyDone
  <2>1. UNCHANGED <<nextId, accepted, proc, bufs, disk, lastHash, purge, sync, phase, live>>
    BY <1>12 DEF VerifyScan, VerifyDone, head, hist
  <2>2. Quiet
    BY <2>1 DEF Quiet, proc, bufs, disk, Raws, Running
  <2>3. QED
    BY <1>2, <2>2, QuietStep
<1>13. CASE PurgeDelete
  <2>1. PICK c : c = purge.cutoff
    OBVIOUS
  <2>2. /\ kv' = DeleteBefore(c).kv /\ purge' = None
        /\ UNCHANGED <<nextId, accepted, proc, bufs, head, sync, phase, live>>
    BY <1>13, <2>1 DEF PurgeDelete, hist
  <2>3. UNCHANGED kv
    BY <1>2, <2>2, DeletesNothing
  <2>4. Quiet
    BY <2>2, <2>3 DEF Quiet, proc, bufs, head, Raws, Running
  <2>5. QED
    BY <1>2, <2>4, QuietStep
<1>14. CASE PurgeScan \/ SyncCheck
  BY <1>2, <1>14, PrepareStep
<1>15. CASE PurgeSave \/ SyncSave
  BY <1>2, <1>15, SaveStep
<1>16. CASE Boot
  BY <1>2, <1>16, BootStep
<1>17. CASE ShutdownFlush
  <2>1. /\ phase = "final"
        /\ (~Flushing /\ BeginFlush) \/ UNCHANGED bufs
        /\ UNCHANGED <<nextId, accepted, proc, disk, head, side, live>>
    BY <1>17 DEF ShutdownFlush, hist
  <2>2. CASE ~Flushing /\ BeginFlush
    <3>1. Flows
      BY <2>1 DEF Flows, proc, head, side, Running
    <3>2. QED
      BY <1>2, <2>1, <2>2, <3>1, BeginStep DEF proc, disk
  <2>3. CASE UNCHANGED bufs
    <3>1. Quiet
      BY <2>1, <2>3 DEF Quiet, proc, bufs, disk, head, side, Raws, Running
    <3>2. QED
      BY <1>2, <3>1, QuietStep
  <2>4. QED
    BY <2>1, <2>2, <2>3
<1>18. CASE Exit \/ Crash
  <2>1. Forget /\ phase' = "down" /\ UNCHANGED <<nextId, accepted, kv>>
    BY <1>18 DEF Exit, Crash, disk
  <2>2. Events' \subseteq Events
    BY <2>1, ElemsEmpty DEF Events, Forget
  <2>3. Minted'
    BY <1>2, <2>1, <2>2, AllMembers, MintedOld DEF Forget
  <2>4. QED
    BY <1>2, <2>1, <2>3, LinksForget, OnceForget DEF Kept
<1>19. QED
  BY <1>1, <1>5, <1>6, <1>7, <1>8, <1>9, <1>10, <1>11, <1>12, <1>13, <1>14, <1>15, <1>16, <1>17, <1>18
     DEF Next, ProcStep, FlushStep, Shutdown

-----------------------------------------------------------------------------
(* The theorems.                                                           *)

LEMMA LedgerAlways == Spec => []LedgerInv
  BY LedgerInit, LedgerStep, PTL DEF Spec

\* The fields of AuditService keep their shapes, and processQueue has a job
\* exactly while it waits for a hash, whatever faults and crashes happen.
THEOREM LedgerTypeCorrect == Spec => []TypeOK
<1>1. LedgerInv => TypeOK
  BY TypeParts DEF LedgerInv, TypeInv
<1>2. QED
  BY <1>1, LedgerAlways, PTL

\* The stored chain has no holes: flushBuffer commits events after their
\* predecessors, a failed batch goes back in front of the newer events, and a
\* boot takes a stored event as its head, so a crash between any two awaits
\* leaves every stored event with its predecessor stored.
THEOREM ChainHasNoHoles == Spec => []ChainLinked
<1>1. LedgerInv => ChainLinked
  BY DEF LedgerInv
<1>2. QED
  BY <1>1, LedgerAlways, PTL

LEMMA OnceCounts ==
    ASSUME TypeInv, Once
    PROVE  AcceptedOnce
<1>1. PICK R, E, n : R = cur \o queue /\ E = Events /\ n = Len(Raws)
  OBVIOUS
<1>2. DOMAIN R = 1 .. n
  BY <1>1, RawsTyped DEF Raws
<1>3. SUFFICES ASSUME NEW s \in live
               PROVE  Cardinality({i \in 1 .. n : R[i].src = s})
                      + Cardinality({e \in E : e.src = s}) = 1
  BY <1>1, <1>2 DEF AcceptedOnce
<1>4. /\ \A i, j \in 1 .. n : R[i].src = R[j].src => i = j
      /\ \A i \in 1 .. n : \A e \in E : e.src # R[i].src
      /\ \A e, f \in E : e.src = f.src /\ e.src \in live => e = f
      /\ (\E i \in 1 .. n : R[i].src = s) \/ (\E e \in E : e.src = s)
  BY <1>1 DEF Once, Raws
<1>5. PICK I, F : I = {i \in 1 .. n : R[i].src = s} /\ F = {e \in E : e.src = s}
  OBVIOUS
<1>6. ((\E i : I = {i}) /\ F = {}) \/ (I = {} /\ (\E e : F = {e}))
  <2>1. CASE \E i \in 1 .. n : R[i].src = s
    <3>1. PICK i \in 1 .. n : R[i].src = s
      BY <2>1
    <3>2. I = {i}
      BY <1>4, <1>5, <3>1
    <3>3. F = {}
      BY <1>4, <1>5, <3>1
    <3>4. QED
      BY <3>2, <3>3
  <2>2. CASE ~\E i \in 1 .. n : R[i].src = s
    <3>1. PICK e \in E : e.src = s
      BY <1>4, <2>2
    <3>2. F = {e}
      BY <1>4, <1>5, <3>1
    <3>3. I = {}
      BY <1>5, <2>2
    <3>4. QED
      BY <3>2, <3>3
  <2>3. QED
    BY <2>1, <2>2
<1>7. (Cardinality(I) = 1 /\ Cardinality(F) = 0) \/ (Cardinality(I) = 0 /\ Cardinality(F) = 1)
  BY <1>6, FS_Singleton, FS_EmptySet
<1>8. QED
  BY <1>5, <1>7

\* logEvent never loses and never doubles an event while the process lives:
\* each accepted event is one raw event or one ledger event, through failed
\* signatures, failed or half-committed flushes, retention, sync and shutdown.
THEOREM AcceptedExactlyOnce == Spec => []AcceptedOnce
<1>1. LedgerInv => AcceptedOnce
  BY OnceCounts DEF LedgerInv
<1>2. QED
  BY <1>1, LedgerAlways, PTL

-----------------------------------------------------------------------------
(* The order of the ledger.  Between an event and its predecessor there    *)
(* are only checkpoints, by the order in which events were made; where the *)
(* keys have that order the stored ledger verifies.                        *)

\* No event of a peer was ever adopted, and so none is being saved.
NoSync == used["sync"] = 0
SyncCounted == NoSync => sync = None

\* The events of this node, with the one being hashed.
Line == Events \cup ({job} \ {None})
Ordinary(e) == e.type # "CHECKPOINT"

Marks ==
    /\ \A e \in Line : e.type = "CHECKPOINT" => e.prev = TRUNCATED
    /\ purge # None => purge.checkpoint.type = "CHECKPOINT"

\* No ordinary event lies between an event and its predecessor.
Behind ==
    /\ \A e \in Line : Ordinary(e) => e.prev < e.id
    /\ \A e, f \in Line : Ordinary(e) /\ Ordinary(f) /\ f.id < e.id => f.id <= e.prev

\* No ordinary event lies behind the head, and the next one continues it.
Ahead ==
    /\ Running => lastHash < nextId
    /\ Running => \A f \in Events : Ordinary(f) => f.id <= lastHash
    /\ job # None => job.prev = lastHash
    /\ ~Running => buffer = <<>> /\ toFlush = <<>>

OrderInv == Marks /\ Behind /\ Ahead

LEMMA OrderInit == Init => OrderInv
<1>1. SUFFICES ASSUME Init PROVE OrderInv
  OBVIOUS
<1>2. Events = {} /\ Line = {}
  BY <1>1, ElemsEmpty DEF Init, Events, Line
<1>3. QED
  BY <1>1, <1>2 DEF Init, OrderInv, Marks, Behind, Ahead, Running

LEMMA LineTyped ==
    ASSUME TypeInv
    PROVE  Line \subseteq Stored /\ \A e \in Line : e.id \in Nat /\ e.prev \in Int
<1>1. Line \subseteq AllEvents
  BY DEF Line, AllEvents
<1>2. Line \subseteq Stored
  BY <1>1, AllTyped
<1>3. QED
  BY <1>2 DEF Stored, TRUNCATED

\* Events move, are forgotten, or are checkpoints: the order stays.
LEMMA OrderKept ==
    ASSUME OrderInv, NEW C, Events' \subseteq Events \cup C,
           \A c \in C : c.type = "CHECKPOINT" /\ c.prev = TRUNCATED,
           job' = job \/ job' = None, lastHash' = lastHash, Running' => Running,
           nextId' = nextId \/ nextId' = nextId + 1, TypeInv,
           purge' # None => purge'.checkpoint.type = "CHECKPOINT",
           ~Running' => buffer' = <<>> /\ toFlush' = <<>>
    PROVE  OrderInv'
<1>1. Line' \subseteq Line \cup C
  BY DEF Line
<1>2. \A e \in Line' : Ordinary(e) => e \in Line
  BY <1>1 DEF Ordinary
<1>3. Marks'
  BY <1>1 DEF OrderInv, Marks
<1>4. Behind'
  BY <1>2 DEF OrderInv, Behind, Ordinary
<1>5. nextId \in Nat /\ lastHash \in Nat
  BY DEF TypeInv, ClockTypes, DiskTypes
<1>6. Running' => lastHash' < nextId'
  BY <1>5 DEF OrderInv, Ahead
<1>7. \A f \in Events' : Ordinary(f) => f \in Events
  BY DEF Ordinary
<1>8. Running' => \A f \in Events' : Ordinary(f) => f.id <= lastHash'
  BY <1>7 DEF OrderInv, Ahead
<1>9. Ahead'
  BY <1>6, <1>8 DEF OrderInv, Ahead, Ordinary
<1>10. QED
  BY <1>3, <1>4, <1>9 DEF OrderInv

\* A turn of processQueue's loop: a new event continues the head.
LEMMA OrderTurn ==
    ASSUME TypeInv, Minted, OrderInv, Running, Running', Turn, Events' = Events,
           UNCHANGED <<lastHash, purge>>
    PROVE  OrderInv'
<1>1. CASE job' = None /\ nextId' = nextId
  <2>1. purge' # None => purge'.checkpoint.type = "CHECKPOINT"
    BY DEF OrderInv, Marks
  <2>2. PICK C : C = {}
    OBVIOUS
  <2>3. Events' \subseteq Events \cup C /\ \A c \in C : c.type = "CHECKPOINT" /\ c.prev = TRUNCATED
    BY <2>2
  <2>4. QED
    BY <1>1, <2>1, <2>3, OrderKept
<1>2. CASE /\ nextId' = nextId + 1 /\ job' # None /\ job'.id = nextId /\ job'.prev = lastHash
           /\ job'.type # "CHECKPOINT"
  <2>1. Line' = Events \cup {job'}
    BY <1>2 DEF Line
  <2>2. nextId \in Nat /\ lastHash \in Nat /\ lastHash < nextId
    BY DEF TypeInv, ClockTypes, DiskTypes, OrderInv, Ahead
  <2>3. \A e \in Events : /\ e \in Line /\ e.id \in Nat /\ e.id < nextId
                          /\ Ordinary(e) => e.id <= lastHash
    BY LineTyped DEF Line, Minted, AllEvents, OrderInv, Ahead
  <2>4. Marks'
    BY <1>2, <2>1, <2>3 DEF OrderInv, Marks
  <2>5. ASSUME NEW e \in Line', Ordinary(e) PROVE e.prev < e.id
    BY <1>2, <2>1, <2>2, <2>3, <2>5 DEF OrderInv, Behind
  <2>6. ASSUME NEW e \in Line', NEW f \in Line', Ordinary(e), Ordinary(f), f.id < e.id
        PROVE  f.id <= e.prev
    <3>1. CASE f \in Events /\ e \in Events
      BY <2>3, <2>6, <3>1 DEF OrderInv, Behind
    <3>2. CASE f \in Events /\ e = job'
      BY <1>2, <2>3, <2>6, <3>2
    <3>3. CASE f = job'
      <4>1. e.id <= nextId
        BY <1>2, <2>1, <2>2, <2>3
      <4>2. e.id \in Nat
        BY <1>2, <2>1, <2>2, <2>3
      <4>3. QED
        BY <1>2, <2>2, <2>6, <3>3, <4>1, <4>2
    <3>4. QED
      BY <2>1, <3>1, <3>2, <3>3
  <2>7. Behind'
    BY <2>5, <2>6 DEF Behind, Ordinary
  <2>8. Ahead'
    BY <1>2, <2>2 DEF OrderInv, Ahead
  <2>9. QED
    BY <2>4, <2>7, <2>8 DEF OrderInv
<1>3. QED
  BY <1>1, <1>2 DEF Turn

\* HashSigned: the event that was hashed becomes the head.
LEMMA OrderSigned ==
    ASSUME TypeInv, Minted, OrderInv, HashSigned
    PROVE  OrderInv'
<1>1. /\ pc = "hash" /\ buffer' = Append(buffer, job) /\ job' = None /\ lastHash' = job.id
      /\ UNCHANGED <<nextId, toFlush, kv, purge, phase>>
  BY DEF HashSigned, disk, side
<1>2. job # None /\ job \in Stored /\ buffer \in Seq(Stored) /\ Running /\ job \in Line
  BY <1>1 DEF TypeInv, ProcTypes, BufTypes, Sound, Line
<1>3. Events' = Events \cup {job}
  BY <1>1, <1>2, ElemsAppend DEF Events
<1>4. Line' = Line
  BY <1>1, <1>2, <1>3 DEF Line
<1>5. Marks' /\ Behind'
  BY <1>1, <1>4 DEF OrderInv, Marks, Behind, Ordinary
<1>6. job.id < nextId /\ job.id \in Nat
  BY <1>2, AllMembers, LineTyped DEF Minted
<1>7. ASSUME NEW f \in Events', Ordinary(f) PROVE f.id <= job.id
  <2>1. CASE f = job
    BY <1>6, <2>1
  <2>2. CASE f \in Events
    <3>1. f.id <= lastHash /\ job.prev = lastHash /\ f.id \in Nat
      BY <1>2, <1>7, <2>2, LineTyped DEF OrderInv, Ahead, Line
    <3>2. job.type = "CHECKPOINT" => job.prev = -1
      BY <1>2 DEF OrderInv, Marks, TRUNCATED
    <3>3. Ordinary(job)
      BY <3>1, <3>2 DEF Ordinary, TypeInv, DiskTypes
    <3>4. job.prev < job.id
      BY <1>2, <3>3 DEF OrderInv, Behind
    <3>5. lastHash \in Nat
      BY DEF TypeInv, DiskTypes
    <3>6. QED
      BY <1>6, <3>1, <3>4, <3>5
  <2>3. QED
    BY <1>3, <2>1, <2>2
<1>8. Running'
  BY <1>1, <1>2 DEF Running
<1>9. Ahead'
  BY <1>1, <1>6, <1>7, <1>8 DEF Ahead, Ordinary
<1>10. QED
  BY <1>5, <1>9 DEF OrderInv

\* A boot takes the stored event with the largest key, or a new checkpoint.
LEMMA OrderBoot ==
    ASSUME TypeInv, Minted, OrderInv, KeysInOrder, Boot
    PROVE  OrderInv'
<1>1. phase = "down" /\ UNCHANGED <<job, pc, buffer, toFlush, purge>>
  BY DEF Boot, BootEmpty, BootValid, BootHeal, BootRefuse, proc, bufs, side
<1>2. ~Running /\ job = None /\ buffer = <<>> /\ toFlush = <<>>
  BY <1>1 DEF TypeInv, ProcTypes, Sound, Running, OrderInv, Ahead
<1>3. Events = kv /\ Line = kv /\ Events' = kv' /\ Line' = kv'
  BY <1>1, <1>2, ElemsEmpty DEF Events, Line
<1>4. /\ nextId \in Nat /\ \A e \in kv : e \in Stored /\ e.id \in Nat /\ e.id < nextId
  BY <1>3, LineTyped DEF TypeInv, ClockTypes, Minted, AllEvents
<1>5. CASE BootEmpty \/ BootValid \/ BootRefuse
  <2>1. UNCHANGED <<kv, nextId>>
    BY <1>5 DEF BootEmpty, BootValid, BootRefuse, disk
  <2>2. Marks' /\ Behind'
    BY <1>1, <1>3, <2>1 DEF OrderInv, Marks, Behind, Ordinary
  <2>3. lastHash' < nextId /\ \A f \in kv : f.id <= lastHash'
    <3>1. CASE BootEmpty
      BY <1>4, <3>1 DEF BootEmpty, GENESIS, TypeInv, ClockTypes
    <3>2. CASE BootValid \/ BootRefuse
      <4>1. kv # {} /\ lastHash' = Latest.id
        BY <3>2 DEF BootValid, BootRefuse
      <4>2. PICK x : x = Latest
        OBVIOUS
      <4>3. x \in kv /\ \A f \in kv : f = x \/ KeyBefore(f, x)
        BY <4>1, <4>2, LatestTop
      <4>4. ASSUME NEW f \in kv PROVE f.id <= x.id
        <5>1. SUFFICES ASSUME f # x, x.id < f.id PROVE FALSE
          BY <1>4, <4>3
        <5>2. KeyBefore(x, f) /\ KeyBefore(f, x)
          BY <4>3, <5>1 DEF KeysInOrder
        <5>3. QED
          BY <1>4, <4>3, <5>2, KeyStrict
      <4>5. QED
        BY <1>4, <4>1, <4>2, <4>3, <4>4
    <3>3. QED
      BY <1>5, <3>1, <3>2
  <2>4. Ahead'
    BY <1>1, <1>2, <1>3, <2>1, <2>3 DEF Ahead
  <2>5. QED
    BY <2>2, <2>4 DEF OrderInv
<1>6. CASE BootHeal
  <2>1. PICK r \in Ranks :
           /\ kv' = kv \cup {Checkpoint(r)} /\ nextId' = nextId + 1 /\ lastHash' = nextId
    BY <1>6 DEF BootHeal
  <2>2. PICK x : x = Checkpoint(r)
    OBVIOUS
  <2>3. x.type = "CHECKPOINT" /\ x.prev = TRUNCATED
    BY <2>2 DEF Checkpoint, Event
  <2>4. Marks'
    BY <1>1, <1>3, <2>1, <2>2, <2>3 DEF OrderInv, Marks
  <2>5. \A e \in kv' : Ordinary(e) => e \in kv
    BY <2>1, <2>2, <2>3 DEF Ordinary
  <2>6. Behind'
    BY <1>3, <2>5 DEF OrderInv, Behind, Ordinary
  <2>7. \A f \in kv' : Ordinary(f) => f.id <= nextId
    BY <1>4, <2>5
  <2>8. Ahead'
    BY <1>1, <1>2, <1>3, <1>4, <2>1, <2>7 DEF Ahead, Ordinary
  <2>9. QED
    BY <2>4, <2>6, <2>8 DEF OrderInv
<1>7. QED
  BY <1>5, <1>6 DEF Boot

\* Steps that make no event.
LEMMA OrderMove ==
    ASSUME TypeInv, OrderInv, Events' \subseteq Events, job' = job \/ job' = None,
           lastHash' = lastHash, nextId' = nextId, Running' => Running,
           purge' = purge \/ purge' = None,
           ~Running' => buffer' = <<>> /\ toFlush' = <<>>
    PROVE  OrderInv'
<1>1. purge' # None => purge'.checkpoint.type = "CHECKPOINT"
  BY DEF OrderInv, Marks
<1>2. Events' \subseteq Events \cup {}
  OBVIOUS
<1>3. QED
  BY <1>1, <1>2, OrderKept

LEMMA OrderFlush ==
    ASSUME TypeInv, OrderInv, FlushTimer \/ FlushChunk \/ FlushEnd \/ FlushFail \/ ShutdownFlush
    PROVE  OrderInv'
<1>1. UNCHANGED <<job, lastHash, nextId, purge>> /\ Running /\ Running'
  <2>1. UNCHANGED <<job, lastHash, nextId, purge>>
    BY DEF FlushTimer, FlushChunk, FlushEnd, FlushFail, ShutdownFlush, proc, head, side
  <2>2. Running
    BY DEF FlushTimer, FlushChunk, FlushEnd, FlushFail, ShutdownFlush, Running, Flushing, OrderInv, Ahead
  <2>3. phase' = phase \/ phase' \in {"closing", "closed"}
    BY DEF FlushTimer, FlushChunk, FlushEnd, FlushFail, ShutdownFlush, Resume
  <2>4. QED
    BY <2>1, <2>2, <2>3 DEF Running
<1>2. buffer \in Seq(Stored) /\ toFlush \in Seq(Stored) /\ saved \in Nat /\ saved <= Len(toFlush)
  BY DEF TypeInv, BufTypes
<1>3. CASE BeginFlush /\ UNCHANGED kv
  BY <1>1, <1>3, ElemsEmpty, OrderMove DEF BeginFlush, Events
<1>4. CASE UNCHANGED <<kv, bufs>>
  BY <1>1, <1>4, OrderMove DEF bufs, Events
<1>5. CASE FlushChunk
  <2>1. kv' \subseteq kv \cup Elems(toFlush) /\ UNCHANGED <<buffer, toFlush>>
    <3>1. UNCHANGED <<buffer, toFlush>>
      BY <1>5 DEF FlushChunk
    <3>2. kv' = kv \cup {toFlush[i] : i \in saved + 1 .. LastOf}
      BY <1>5 DEF FlushChunk, LastOf
    <3>3. LastOf <= Len(toFlush) /\ LastOf \in Nat
      BY <1>2, LedgerAssumption DEF LastOf
    <3>4. saved + 1 .. LastOf \subseteq DOMAIN toFlush
      BY <1>2, <3>3, LenProperties
    <3>5. QED
      BY <3>1, <3>2, <3>4 DEF Elems
  <2>2. Events' \subseteq Events
    BY <2>1 DEF Events
  <2>3. QED
    BY <1>1, <2>2, OrderMove
<1>6. CASE FlushEnd
  <2>1. toFlush' = <<>> /\ UNCHANGED <<kv, buffer>>
    BY <1>6 DEF FlushEnd, disk
  <2>2. Events' \subseteq Events
    BY <2>1, ElemsEmpty DEF Events
  <2>3. QED
    BY <1>1, <2>2, OrderMove
<1>7. CASE FlushFail
  <2>1. toFlush' = <<>> /\ buffer' = toFlush \o buffer /\ UNCHANGED kv
    BY <1>7 DEF FlushFail, disk
  <2>2. Events' \subseteq Events
    BY <1>2, <2>1, ElemsEmpty, ElemsConcat DEF Events
  <2>3. QED
    BY <1>1, <2>2, OrderMove
<1>8. QED
  BY <1>3, <1>4, <1>5, <1>6, <1>7 DEF FlushTimer, ShutdownFlush, disk

\* processQueue and those who start it.
LEMMA OrderLoop ==
    ASSUME TypeInv, Minted, OrderInv, LogEvent \/ LeafDone \/ AfterFlush \/ ShutdownCommit
    PROVE  OrderInv'
<1>1. ClockTypes /\ ProcTypes /\ DiskTypes
  BY DEF TypeInv
<1>2. UNCHANGED <<kv, lastHash, purge>> /\ Running /\ Running'
  BY DEF LogEvent, LeafDone, AfterFlush, ShutdownCommit, disk, head, side, Running, TypeInv, Sound
<1>3. ASSUME NEW type \in Types \cup {"MERKLE_COMMIT"}, NEW ts \in 0 .. MaxTime, Enqueue(type, ts),
             UNCHANGED bufs
      PROVE  OrderInv'
  <2>1. Turn \/ UNCHANGED <<job, nextId>>
    BY <1>1, <1>3, EnqueueEffect
  <2>2. Events' = Events
    BY <1>2, <1>3 DEF bufs, Events
  <2>3. QED
    BY <1>2, <2>1, <2>2, OrderTurn, OrderMove
<1>4. CASE Advance /\ UNCHANGED bufs
  <2>1. Turn
    BY <1>1, <1>4, AdvanceEffect
  <2>2. Events' = Events
    BY <1>2, <1>4 DEF bufs, Events
  <2>3. QED
    BY <1>2, <2>1, <2>2, OrderTurn
<1>5. CASE LogEvent
  <2>1. PICK type \in Types, s \in Stamped : Enqueue(type, IF s THEN now ELSE 0)
    BY <1>5 DEF LogEvent
  <2>2. PICK ts : ts = IF s THEN now ELSE 0
    OBVIOUS
  <2>3. ts \in 0 .. MaxTime
    BY <1>1, <2>2, LedgerAssumption DEF ClockTypes
  <2>4. UNCHANGED bufs
    BY <1>5 DEF LogEvent
  <2>5. QED
    BY <1>3, <2>1, <2>2, <2>3, <2>4
<1>6. CASE BeginFlush /\ UNCHANGED <<job, nextId>>
  <2>1. Events' \subseteq Events
    BY <1>2, <1>6, ElemsEmpty DEF BeginFlush, Events
  <2>2. QED
    BY <1>2, <1>6, <2>1, OrderMove
<1>7. CASE ShutdownCommit
  <2>1. UNCHANGED bufs
    BY <1>7 DEF ShutdownCommit
  <2>2. CASE Enqueue("MERKLE_COMMIT", 0)
    <3>1. "MERKLE_COMMIT" \in Types \cup {"MERKLE_COMMIT"} /\ 0 \in 0 .. MaxTime
      BY LedgerAssumption
    <3>2. QED
      BY <1>3, <2>1, <2>2, <3>1
  <2>3. CASE UNCHANGED <<proc, nextId, accepted, live>>
    <3>1. Events' = Events
      BY <1>2, <2>1 DEF bufs, Events
    <3>2. QED
      BY <1>2, <2>3, <3>1, OrderMove DEF proc
  <2>4. QED
    BY <1>7, <2>2, <2>3 DEF ShutdownCommit
<1>8. QED
  BY <1>4, <1>5, <1>6, <1>7 DEF LeafDone, AfterFlush

LEMMA OrderStep ==
    LedgerInv /\ OrderInv /\ KeysInOrder /\ sync = None /\ sync' = None /\ [Next]_vars => OrderInv'
<1>1. SUFFICES ASSUME LedgerInv, OrderInv, KeysInOrder, sync = None, sync' = None, [Next]_vars
               PROVE  OrderInv'
  OBVIOUS
<1>2. TypeInv /\ Minted
  BY <1>1 DEF LedgerInv
<1>3. CASE LogEvent \/ LeafDone \/ AfterFlush \/ ShutdownCommit
  BY <1>1, <1>2, <1>3, OrderLoop
<1>4. CASE LogDrop \/ ShutdownBegin \/ Tick \/ UNCHANGED vars
  <2>1. UNCHANGED <<nextId, mem, disk>> /\ (Running' <=> Running)
    BY <1>4 DEF LogDrop, ShutdownBegin, Tick, vars, Running
  <2>2. Events' = Events
    BY <2>1 DEF mem, disk, Events
  <2>3. ~Running' => buffer' = <<>> /\ toFlush' = <<>>
    BY <1>1, <2>1 DEF mem, OrderInv, Ahead
  <2>4. QED
    BY <1>1, <1>2, <2>1, <2>2, <2>3, OrderMove DEF mem
<1>5. CASE HashSigned
  BY <1>1, <1>2, <1>5, OrderSigned
<1>6. CASE SignFail \/ VerifyScan \/ VerifyDone \/ PurgeDelete
  <2>1. /\ UNCHANGED <<nextId, buffer, toFlush, lastHash, phase>> /\ (job' = job \/ job' = None)
        /\ purge' = purge \/ purge' = None
    BY <1>6 DEF SignFail, VerifyScan, VerifyDone, PurgeDelete, proc, bufs, head, side
  <2>2. UNCHANGED kv
    <3>1. CASE PurgeDelete
      <4>1. PICK c : c = purge.cutoff
        OBVIOUS
      <4>2. kv' = DeleteBefore(c).kv
        BY <3>1, <4>1 DEF PurgeDelete
      <4>3. QED
        BY <1>2, <4>2, DeletesNothing
    <3>2. CASE ~PurgeDelete
      BY <1>6, <3>2 DEF SignFail, VerifyScan, VerifyDone, disk
    <3>3. QED
      BY <3>1, <3>2
  <2>3. Events' = Events
    BY <2>1, <2>2 DEF Events
  <2>4. /\ Running' => Running
        /\ ~Running' => buffer' = <<>> /\ toFlush' = <<>>
    BY <1>1, <2>1 DEF Running, OrderInv, Ahead
  <2>5. QED
    BY <1>1, <1>2, <2>1, <2>3, <2>4, OrderMove
<1>7. CASE FlushTimer \/ FlushChunk \/ FlushEnd \/ FlushFail \/ ShutdownFlush
  BY <1>1, <1>2, <1>7, OrderFlush
<1>8. CASE PurgeScan
  <2>1. /\ nextId' = nextId + 1 /\ UNCHANGED <<job, kv, buffer, toFlush, lastHash, phase>>
    BY <1>8 DEF PurgeScan, proc, bufs, disk, head
  <2>2. PICK r \in Ranks :
           purge' = [checkpoint |-> Checkpoint(r), cutoff |-> now - Retention, step |-> "save"]
    BY <1>8 DEF PurgeScan
  <2>3. purge'.checkpoint.type = "CHECKPOINT"
    BY <2>2 DEF Checkpoint, Event
  <2>4. PICK C : C = {}
    OBVIOUS
  <2>5. Events' \subseteq Events \cup C /\ \A c \in C : c.type = "CHECKPOINT" /\ c.prev = TRUNCATED
    BY <2>1, <2>4 DEF Events
  <2>6. /\ Running' => Running
        /\ ~Running' => buffer' = <<>> /\ toFlush' = <<>>
    BY <1>1, <2>1 DEF Running, OrderInv, Ahead
  <2>7. QED
    BY <1>1, <1>2, <2>1, <2>3, <2>5, <2>6, OrderKept
<1>9. CASE PurgeSave
  <2>1. PICK x : x = purge.checkpoint
    OBVIOUS
  <2>2. /\ purge # None /\ kv' = kv \cup {x} /\ purge' = [purge EXCEPT !.step = "delete"]
        /\ UNCHANGED <<nextId, job, buffer, toFlush, lastHash, phase>>
    BY <1>9, <2>1 DEF PurgeSave, proc, bufs, head
  <2>3. x.type = "CHECKPOINT" /\ x.prev = TRUNCATED
    BY <1>1, <2>1, <2>2 DEF OrderInv, Marks, LedgerInv, HeadLinked
  <2>4. purge'.checkpoint = x
    <3>1. purge \in [checkpoint : Stored, cutoff : Int, step : {"save", "delete"}]
      BY <1>2, <2>2 DEF TypeInv, SideTypes
    <3>2. QED
      BY <2>1, <2>2, <3>1
  <2>5. PICK C : C = {x}
    OBVIOUS
  <2>6. Events' \subseteq Events \cup C /\ \A c \in C : c.type = "CHECKPOINT" /\ c.prev = TRUNCATED
    BY <2>2, <2>3, <2>5 DEF Events
  <2>7. /\ Running' => Running
        /\ ~Running' => buffer' = <<>> /\ toFlush' = <<>>
    BY <1>1, <2>2 DEF Running, OrderInv, Ahead
  <2>8. QED
    BY <1>1, <1>2, <2>2, <2>3, <2>4, <2>6, <2>7, OrderKept
<1>10. CASE SyncCheck \/ SyncSave
  <2>1. SyncCheck
    BY <1>1, <1>10 DEF SyncSave
  <2>2. sync' # None
    <3>1. CASE \E e \in kv : sync' = e
      BY <1>2, <3>1, NoneNotStored DEF TypeInv, DiskTypes
    <3>2. CASE \E t \in 1 .. now, r \in Ranks : sync' = Event(0, "REMOTE", t, r, lastHash)
      BY <3>2 DEF Event, None
    <3>3. QED
      BY <2>1, <3>1, <3>2 DEF SyncCheck
  <2>3. QED
    BY <1>1, <2>2
<1>11. CASE Boot
  BY <1>1, <1>2, <1>11, OrderBoot
<1>12. CASE Exit \/ Crash
  <2>1. Forget /\ phase' = "down" /\ UNCHANGED <<nextId, kv, lastHash>>
    BY <1>12 DEF Exit, Crash, disk, head
  <2>2. Events' \subseteq Events /\ ~Running'
    BY <2>1, ElemsEmpty DEF Events, Forget, Running
  <2>3. QED
    BY <1>1, <1>2, <2>1, <2>2, OrderMove DEF Forget
<1>13. QED
  BY <1>1, <1>3, <1>4, <1>5, <1>6, <1>7, <1>8, <1>9, <1>10, <1>11, <1>12
     DEF Next, ProcStep, FlushStep, Shutdown

\* verifyChain over the whole ledger: two neighbours are an event and its
\* predecessor, because that is stored and nothing can be between them.
LEMMA OrderVerifies == LedgerInv /\ OrderInv /\ KeysInOrder => ChainValid(Cardinality(kv))
<1>1. SUFFICES ASSUME LedgerInv, OrderInv, KeysInOrder, NEW S, S = Newest(Cardinality(kv)),
                      NEW p \in Neighbours(S), p[1].type # "CHECKPOINT",
                      p[2].prev # TRUNCATED
               PROVE  p[2].prev = p[1].id
  BY DEF ChainValid
<1>2. TypeInv /\ Minted /\ ChainLinked
  BY <1>1 DEF LedgerInv
<1>3. S = kv
  <2>1. IsFiniteSet(kv)
    BY <1>2 DEF TypeInv, Sound
  <2>2. ASSUME NEW e \in kv PROVE Cardinality({f \in kv : KeyBefore(e, f)}) < Cardinality(kv)
    <3>1. e \in Stored
      BY <1>2 DEF TypeInv, DiskTypes
    <3>2. ~KeyBefore(e, e)
      BY <3>1, KeyStrict
    <3>3. PICK F : F = {f \in kv : KeyBefore(e, f)}
      OBVIOUS
    <3>4. F \subseteq kv /\ F # kv
      BY <3>2, <3>3
    <3>5. Cardinality(F) < Cardinality(kv)
      <4>1. IsFiniteSet(F) /\ Cardinality(F) <= Cardinality(kv)
        BY <2>1, <3>4, FS_Subset
      <4>2. Cardinality(F) # Cardinality(kv)
        BY <2>1, <3>4, FS_Subset
      <4>3. Cardinality(F) \in Nat /\ Cardinality(kv) \in Nat
        BY <2>1, <4>1, FS_CardinalityType
      <4>4. QED
        BY <4>1, <4>2, <4>3
    <3>6. QED
      BY <3>3, <3>5
  <2>3. QED
    BY <1>1, <2>2 DEF Newest
<1>4. PICK a \in kv, b \in kv : p = <<a, b>>
  BY <1>1, <1>3 DEF Neighbours
<1>5. KeyBefore(a, b) /\ \A m \in kv : ~(KeyBefore(a, m) /\ KeyBefore(m, b))
  BY <1>1, <1>3, <1>4 DEF Neighbours
<1>6. /\ a \in Line /\ b \in Line /\ a \in Stored /\ b \in Stored
      /\ a.id \in Nat /\ b.id \in Nat /\ b.prev \in Int
  BY <1>2, LineTyped DEF Line, Events
<1>7. a.id < b.id
  <2>1. SUFFICES ASSUME b.id <= a.id PROVE FALSE
    BY <1>6
  <2>2. a.id # b.id
    <3>1. SUFFICES ASSUME a = b PROVE FALSE
      BY <1>2, <1>4 DEF Minted, AllEvents, Events
    <3>2. QED
      BY <1>5, <1>6, <3>1, KeyStrict
  <2>3. KeyBefore(b, a)
    BY <1>1, <1>6, <2>1, <2>2 DEF KeysInOrder
  <2>4. QED
    BY <1>5, <1>6, <2>3, KeyStrict
<1>8. a.id <= b.prev /\ b.prev < b.id
  BY <1>1, <1>4, <1>6, <1>7 DEF OrderInv, Marks, Behind, Ordinary
<1>9. CASE b.prev = 0
  BY <1>4, <1>6, <1>8, <1>9
<1>10. CASE b.prev # 0
  <2>1. PICK m \in kv : m.id = b.prev
    BY <1>1, <1>2, <1>4, <1>10 DEF ChainLinked, Ids, GENESIS
  <2>2. KeyBefore(m, b)
    BY <1>1, <1>8, <2>1 DEF KeysInOrder
  <2>3. ~(a.id < m.id)
    BY <1>1, <1>5, <2>2 DEF KeysInOrder
  <2>4. QED
    BY <1>4, <1>6, <1>8, <2>1, <2>3
<1>11. QED
  BY <1>9, <1>10

\* Stored events stay stored, since retention deletes none, and peers' events
\* stay counted: a ledger whose keys are in order has always been one.
LEMMA OrderBefore ==
    ASSUME LedgerInv, SyncCounted, [Next]_vars
    PROVE  /\ kv \subseteq kv' /\ SyncCounted'
           /\ NoSync' => NoSync
<1>1. TypeInv /\ ClockTypes
  BY DEF LedgerInv, TypeInv
<1>2. kv \subseteq kv'
  <2>1. CASE PurgeDelete
    <3>1. PICK c : c = purge.cutoff
      OBVIOUS
    <3>2. kv' = DeleteBefore(c).kv
      BY <2>1, <3>1 DEF PurgeDelete
    <3>3. QED
      BY <1>1, <3>2, DeletesNothing
  <2>2. CASE FlushChunk \/ PurgeSave \/ SyncSave \/ BootHeal
    BY <2>2 DEF FlushChunk, PurgeSave, SyncSave, BootHeal
  <2>3. CASE LogEvent \/ LogDrop \/ HashSigned \/ LeafDone \/ AfterFlush \/ SignFail \/ FlushTimer
    BY <2>3 DEF LogEvent, LogDrop, HashSigned, LeafDone, AfterFlush, SignFail, FlushTimer, disk
  <2>4. CASE FlushEnd \/ FlushFail \/ VerifyScan \/ VerifyDone \/ PurgeScan \/ SyncCheck
    BY <2>4 DEF FlushEnd, FlushFail, VerifyScan, VerifyDone, PurgeScan, SyncCheck, disk
  <2>5. CASE BootEmpty \/ BootValid \/ BootRefuse \/ ShutdownBegin \/ Tick \/ UNCHANGED vars
    BY <2>5 DEF BootEmpty, BootValid, BootRefuse, ShutdownBegin, Tick, vars, disk
  <2>6. CASE ShutdownCommit \/ ShutdownFlush \/ Exit \/ Crash
    BY <2>6 DEF ShutdownCommit, ShutdownFlush, Exit, Crash, disk
  <2>7. QED
    BY <2>1, <2>2, <2>3, <2>4, <2>5, <2>6 DEF Next, ProcStep, FlushStep, Boot, Shutdown
<1>3. CASE SyncCheck
  <2>1. used["sync"] \in Nat /\ used' = [used EXCEPT !["sync"] = @ + 1, !["all"] = @ + 1]
    BY <1>1, <1>3 DEF SyncCheck, Fault, ClockTypes, Faults
  <2>2. used'["sync"] = used["sync"] + 1
    BY <1>1, <2>1 DEF ClockTypes, Faults
  <2>3. used'["sync"] # 0
    BY <2>1, <2>2
  <2>4. QED
    BY <1>2, <2>3 DEF NoSync, SyncCounted
<1>4. ASSUME NEW k \in Faults, k # "sync", Fault(k)
      PROVE  NoSync' <=> NoSync
  BY <1>1, <1>4 DEF Fault, NoSync, ClockTypes, Faults
<1>5. CASE ~SyncCheck
  <2>1. sync' = sync \/ sync' = None
    <3>1. CASE LogEvent \/ LogDrop \/ HashSigned \/ LeafDone \/ AfterFlush \/ SignFail \/ FlushTimer
      BY <3>1 DEF LogEvent, LogDrop, HashSigned, LeafDone, AfterFlush, SignFail, FlushTimer, mem, side
    <3>2. CASE FlushChunk \/ FlushEnd \/ FlushFail \/ VerifyScan \/ VerifyDone
      BY <3>2 DEF FlushChunk, FlushEnd, FlushFail, VerifyScan, VerifyDone, side
    <3>3. CASE PurgeScan \/ PurgeSave \/ PurgeDelete \/ SyncSave
      BY <3>3 DEF PurgeScan, PurgeSave, PurgeDelete, SyncSave
    <3>4. CASE BootEmpty \/ BootValid \/ BootHeal \/ BootRefuse \/ ShutdownBegin \/ Tick \/ UNCHANGED vars
      BY <3>4 DEF BootEmpty, BootValid, BootHeal, BootRefuse, ShutdownBegin, Tick, vars, mem, side
    <3>5. CASE ShutdownCommit \/ ShutdownFlush \/ Exit \/ Crash
      BY <3>5 DEF ShutdownCommit, ShutdownFlush, Exit, Crash, Forget, side
    <3>6. QED
      BY <1>5, <3>1, <3>2, <3>3, <3>4, <3>5 DEF Next, ProcStep, FlushStep, Boot, Shutdown
  <2>2. NoSync' <=> NoSync
    <3>1. CASE SignFail \/ FlushFail \/ PurgeScan \/ ShutdownBegin \/ Crash
      BY <1>4, <3>1 DEF SignFail, FlushFail, PurgeScan, ShutdownBegin, Crash, Faults
    <3>2. CASE ShutdownCommit \/ ShutdownFlush
      BY <1>4, <3>2 DEF ShutdownCommit, ShutdownFlush, Faults, NoSync
    <3>3. CASE UNCHANGED used
      BY <3>3 DEF NoSync
    <3>4. CASE LogEvent \/ LogDrop \/ HashSigned \/ LeafDone \/ AfterFlush \/ FlushTimer
      BY <3>3, <3>4 DEF LogEvent, LogDrop, HashSigned, LeafDone, AfterFlush, FlushTimer
    <3>5. CASE FlushChunk \/ FlushEnd \/ VerifyScan \/ VerifyDone \/ PurgeSave \/ PurgeDelete \/ SyncSave
      BY <3>3, <3>5 DEF FlushChunk, FlushEnd, VerifyScan, VerifyDone, PurgeSave, PurgeDelete, SyncSave
    <3>6. CASE BootEmpty \/ BootValid \/ BootHeal \/ BootRefuse \/ Exit \/ Tick \/ UNCHANGED vars
      BY <3>3, <3>6 DEF BootEmpty, BootValid, BootHeal, BootRefuse, Exit, Tick, vars
    <3>7. QED
      BY <1>5, <3>1, <3>2, <3>4, <3>5, <3>6 DEF Next, ProcStep, FlushStep, Boot, Shutdown
  <2>3. QED
    BY <1>2, <2>1, <2>2 DEF SyncCounted
<1>6. QED
  BY <1>3, <1>5

\* What holds of a ledger whose keys are in order and that never adopted an
\* event of a peer.
Ordered == SyncCounted /\ (KeysInOrder /\ NoSync => OrderInv)

LEMMA OrderedStep == LedgerInv /\ Ordered /\ [Next]_vars => Ordered'
<1>1. SUFFICES ASSUME LedgerInv, Ordered, [Next]_vars PROVE Ordered'
  OBVIOUS
<1>2. SyncCounted' /\ kv \subseteq kv' /\ (NoSync' => NoSync)
  BY <1>1, OrderBefore DEF Ordered
<1>3. SUFFICES ASSUME KeysInOrder', NoSync' PROVE OrderInv'
  BY <1>2 DEF Ordered
<1>4. KeysInOrder
  BY <1>2, <1>3 DEF KeysInOrder, KeyBefore
<1>5. OrderInv /\ sync = None /\ sync' = None
  BY <1>1, <1>2, <1>3, <1>4 DEF Ordered, SyncCounted
<1>6. QED
  BY <1>1, <1>4, <1>5, OrderStep

\* verifyChain reports a break in a ledger nobody tampered with for two reasons
\* only, keys out of the order of the chain (a caller's timestamp, the clock, or
\* the uuids of one millisecond) and an event adopted from a peer: for every
\* number of events, faults and crashes and every size of batch, chunk and
\* window, nothing else makes it.
THEOREM OrderedVerifies == Spec => []UntamperedVerifies
<1>1. Init => Ordered
  BY OrderInit DEF Init, Ordered, SyncCounted
<1>2. Spec => []Ordered
  BY <1>1, OrderedStep, LedgerAlways, PTL DEF Spec
<1>3. LedgerInv /\ Ordered => UntamperedVerifies
  BY OrderVerifies DEF Ordered, UntamperedVerifies, NoSync
<1>4. QED
  BY <1>2, <1>3, LedgerAlways, PTL

-----------------------------------------------------------------------------
(* The ledger implements the journal (Journal).  Events are stored in the  *)
(* order of acceptance because that is the order of the batch, the buffer  *)
(* and the raw events after one another, and because what is stored is a   *)
(* beginning of this line: after a failed flush a part of the line that is *)
(* stored already waits to be stored again.                                *)

Pipe == Elems(toFlush) \cup Elems(buffer)

\* The batch and the buffer, in the order of acceptance.
InLine ==
    /\ \A i, j \in 1 .. Len(toFlush) : i < j => toFlush[i].src < toFlush[j].src
    /\ \A i, j \in 1 .. Len(buffer) : i < j => buffer[i].src < buffer[j].src
    /\ \A i \in 1 .. Len(toFlush), j \in 1 .. Len(buffer) : toFlush[i].src < buffer[j].src

RawsInLine ==
    /\ \A i, j \in 1 .. Len(Raws) : i < j => Raws[i].src < Raws[j].src
    /\ \A e \in Events : \A i \in 1 .. Len(Raws) : e.src < Raws[i].src

StoredFirst ==
    /\ \A x \in Pipe : x.src \in live
    /\ \A e \in kv, x \in Pipe : e.src < x.src \/ x \in kv

JournalInv == InLine /\ RawsInLine /\ StoredFirst

\* A step keeps the invariant, and is a step of the journal.
Journaled == JournalInv' /\ [Promise!Next]_<<accepted, live, Durable>>

LEMMA SourceTypes ==
    ASSUME TypeInv
    PROVE  /\ accepted \in Nat /\ live \subseteq 1 .. accepted
           /\ \A s \in live : s \in Nat /\ s > 0 /\ s <= accepted
           /\ \A e \in Events : e.src \in Nat
           /\ \A i \in 1 .. Len(Raws) : Raws[i].src \in Nat /\ Raws[i].src > 0
<1>1. accepted \in Nat /\ live \subseteq 1 .. accepted /\ MaxEvents \in Nat
  BY LedgerAssumption DEF TypeInv, ClockTypes
<1>2. \A e \in Events : e.src \in 0 .. MaxEvents
  BY AllTyped, AllMembers DEF Stored
<1>3. \A i \in 1 .. Len(Raws) : Raws[i].src \in 1 .. MaxEvents
  BY RawsTyped
<1>4. \A s \in live : s \in Nat /\ s > 0 /\ s <= accepted
  BY <1>1
<1>5. \A e \in Events : e.src \in Nat
  <2>1. 0 .. MaxEvents \subseteq Nat
    BY <1>1
  <2>2. QED
    BY <1>2, <2>1, Zenon
<1>6. \A i \in 1 .. Len(Raws) : Raws[i].src \in Nat /\ Raws[i].src > 0
  <2>1. \A n \in 1 .. MaxEvents : n \in Nat /\ n > 0
    BY <1>1
  <2>2. QED
    BY <1>3, <2>1, Zenon
<1>7. QED
  BY <1>1, <1>4, <1>5, <1>6, Zenon

LEMMA PipeTyped ==
    ASSUME TypeInv
    PROVE  /\ Len(toFlush) \in Nat /\ Len(buffer) \in Nat
           /\ DOMAIN toFlush = 1 .. Len(toFlush) /\ DOMAIN buffer = 1 .. Len(buffer)
           /\ \A i \in 1 .. Len(toFlush) : toFlush[i] \in Pipe
           /\ \A i \in 1 .. Len(buffer) : buffer[i] \in Pipe
           /\ Pipe \subseteq Events /\ \A x \in Pipe : x.src \in Nat
<1>1. /\ Len(toFlush) \in Nat /\ Len(buffer) \in Nat
      /\ DOMAIN toFlush = 1 .. Len(toFlush) /\ DOMAIN buffer = 1 .. Len(buffer)
  BY LenProperties DEF TypeInv, BufTypes
<1>2. /\ \A i \in 1 .. Len(toFlush) : toFlush[i] \in Pipe
      /\ \A i \in 1 .. Len(buffer) : buffer[i] \in Pipe
  BY <1>1 DEF Pipe, Elems
<1>3. Pipe \subseteq Events
  BY DEF Pipe, Events
<1>4. QED
  BY <1>1, <1>2, <1>3, SourceTypes

\* The disk gains at most events that no caller logged.
LEMMA JournalAside ==
    ASSUME TypeInv, JournalInv, Raws' = Raws, UNCHANGED <<accepted, live, buffer, toFlush>>,
           kv \subseteq kv', \A e \in kv' : e \in kv \/ e.src = 0
    PROVE  Journaled
<1>1. Pipe' = Pipe /\ \A e \in Events' : e \in Events \/ e.src = 0
  BY DEF Pipe, Events
<1>2. InLine'
  BY DEF JournalInv, InLine
<1>3. PICK R : R = Raws
  OBVIOUS
<1>4. /\ \A i, j \in 1 .. Len(R) : i < j => R[i].src < R[j].src
      /\ \A e \in Events : \A i \in 1 .. Len(R) : e.src < R[i].src
      /\ \A i \in 1 .. Len(R) : 0 < R[i].src
  BY <1>3, SourceTypes DEF JournalInv, RawsInLine
<1>5. \A e \in Events' : \A i \in 1 .. Len(R) : e.src < R[i].src
  BY <1>1, <1>4
<1>6. RawsInLine'
  BY <1>3, <1>4, <1>5 DEF RawsInLine
<1>7. \A x \in Pipe : x.src \in live /\ 0 < x.src
  BY SourceTypes DEF JournalInv, StoredFirst
<1>8. StoredFirst'
  BY <1>1, <1>7 DEF JournalInv, StoredFirst
<1>9. Durable' = Durable
  BY DEF Durable
<1>10. QED
  BY <1>2, <1>6, <1>8, <1>9 DEF Journaled, JournalInv

LEMMA JournalLogged ==
    ASSUME TypeInv, Once, JournalInv, NEW raw, raw \in Raw, raw.src = accepted + 1,
           Raws' = Append(Raws, raw), accepted' = accepted + 1, live' = live \cup {accepted + 1},
           UNCHANGED <<kv, buffer, toFlush>>
    PROVE  Journaled
<1>1. PICK R, T, n, a : R = Raws /\ T = Raws' /\ n = Len(Raws) /\ a = accepted
  OBVIOUS
<1>2. /\ n \in Nat /\ Len(T) = n + 1 /\ T[n + 1] = raw /\ raw.src = a + 1
      /\ \A i \in 1 .. n : T[i] = R[i]
  BY <1>1, RawsTyped, AppendProperties
<1>3. Pipe' = Pipe /\ Events' = Events /\ Durable' = Durable
  BY DEF Pipe, Events, Durable
<1>4. /\ \A i, j \in 1 .. n : i < j => R[i].src < R[j].src
      /\ \A e \in Events : \A i \in 1 .. n : e.src < R[i].src
  BY <1>1 DEF JournalInv, RawsInLine
<1>5. a \in Nat /\ \A i \in 1 .. n : R[i].src \in Nat /\ R[i].src <= a
  <2>1. \A i \in 1 .. n : R[i].src \in live
    BY <1>1 DEF Once
  <2>2. QED
    BY <1>1, <2>1, SourceTypes
<1>6. \A e \in Events : e.src \in Nat /\ e.src <= a
  BY <1>1, SourceTypes DEF Once
<1>7. \A i, j \in 1 .. n + 1 : i < j => T[i].src < T[j].src
  <2>1. SUFFICES ASSUME NEW i \in 1 .. n + 1, NEW j \in 1 .. n + 1, i < j PROVE T[i].src < T[j].src
    OBVIOUS
  <2>2. i \in 1 .. n
    BY <1>2, <2>1
  <2>3. CASE j \in 1 .. n
    BY <1>2, <1>4, <2>1, <2>2, <2>3
  <2>4. CASE j = n + 1
    <3>1. T[i].src \in Nat /\ T[i].src <= a /\ T[j].src = a + 1
      BY <1>2, <1>5, <2>2, <2>4
    <3>2. QED
      BY <1>5, <3>1
  <2>5. QED
    BY <1>2, <2>3, <2>4
<1>8. \A e \in Events : \A i \in 1 .. n + 1 : e.src < T[i].src
  <2>1. SUFFICES ASSUME NEW e \in Events, NEW i \in 1 .. n + 1 PROVE e.src < T[i].src
    OBVIOUS
  <2>2. CASE i \in 1 .. n
    BY <1>2, <1>4, <2>2
  <2>3. CASE i = n + 1
    <3>1. e.src \in Nat /\ e.src <= a /\ T[i].src = a + 1
      BY <1>2, <1>6, <2>3
    <3>2. QED
      BY <1>5, <3>1
  <2>4. QED
    BY <1>2, <2>2, <2>3
<1>9. RawsInLine'
  BY <1>1, <1>2, <1>3, <1>7, <1>8 DEF RawsInLine
<1>10. InLine' /\ StoredFirst'
  BY <1>3 DEF JournalInv, InLine, StoredFirst
<1>11. Promise!Accept
  BY <1>3 DEF Promise!Accept
<1>12. QED
  BY <1>9, <1>10, <1>11 DEF Journaled, JournalInv, Promise!Next

\* The first raw event enters the buffer behind what is there.
LEMMA JournalSigned ==
    ASSUME TypeInv, Once, JournalInv, HashSigned
    PROVE  Journaled
<1>1. /\ pc = "hash" /\ buffer' = Append(buffer, job) /\ cur' = Tail(cur)
      /\ UNCHANGED <<queue, accepted, live, toFlush, kv>>
  BY DEF HashSigned, disk, hist
<1>2. /\ cur # <<>> /\ job.src = cur[1].src /\ job \in Stored /\ buffer \in Seq(Stored)
  BY <1>1 DEF TypeInv, ProcTypes, BufTypes
<1>3. PICK R, T, n, b, m : R = Raws /\ T = Raws' /\ n = Len(Raws) /\ b = buffer' /\ m = Len(buffer)
  OBVIOUS
<1>4. /\ n \in Nat /\ n >= 1 /\ R[1] = cur[1] /\ Len(T) = n - 1
      /\ \A i \in 1 .. n - 1 : T[i] = R[i + 1]
  BY <1>1, <1>2, <1>3, RawsTail
<1>5. /\ m \in Nat /\ Len(b) = m + 1 /\ b[m + 1] = job
      /\ \A i \in 1 .. m : b[i] = buffer[i]
  BY <1>1, <1>2, <1>3, AppendProperties, LenProperties
<1>6. Elems(b) = Elems(buffer) \cup {job}
  BY <1>1, <1>2, <1>3, ElemsAppend
<1>7. Events' = Events \cup {job} /\ Pipe' = Pipe \cup {job} /\ Durable' = Durable
  BY <1>1, <1>3, <1>6 DEF Events, Pipe, Durable
<1>8. /\ \A i, j \in 1 .. n : i < j => R[i].src < R[j].src
      /\ \A e \in Events : \A i \in 1 .. n : e.src < R[i].src
      /\ \A i \in 1 .. n : R[i].src \in live
  BY <1>3 DEF JournalInv, RawsInLine, Once
<1>9. 1 \in 1 .. n /\ \A i \in 1 .. n - 1 : i + 1 \in 1 .. n /\ 1 < i + 1
  BY <1>4
<1>10. job.src = R[1].src /\ job.src \in live /\ \A e \in Events : e.src < job.src
  BY <1>2, <1>4, <1>8, <1>9
<1>11. \A i, j \in 1 .. n - 1 : i < j => T[i].src < T[j].src
  <2>1. SUFFICES ASSUME NEW i \in 1 .. n - 1, NEW j \in 1 .. n - 1, i < j PROVE T[i].src < T[j].src
    OBVIOUS
  <2>2. i + 1 < j + 1
    BY <1>4, <2>1
  <2>3. R[i + 1].src < R[j + 1].src
    BY <1>8, <1>9, <2>2
  <2>4. QED
    BY <1>4, <2>3
<1>12. \A e \in Events' : \A i \in 1 .. n - 1 : e.src < T[i].src
  <2>1. SUFFICES ASSUME NEW e \in Events', NEW i \in 1 .. n - 1 PROVE e.src < T[i].src
    OBVIOUS
  <2>2. T[i] = R[i + 1] /\ i + 1 \in 1 .. n /\ R[1].src < R[i + 1].src
    BY <1>4, <1>8, <1>9
  <2>3. CASE e \in Events
    BY <1>8, <2>2, <2>3
  <2>4. CASE e = job
    BY <1>10, <2>2, <2>4
  <2>5. QED
    BY <1>7, <2>3, <2>4
<1>13. RawsInLine'
  BY <1>3, <1>4, <1>11, <1>12 DEF RawsInLine
<1>14. /\ \A i \in 1 .. Len(toFlush) : toFlush[i].src < job.src
       /\ \A i \in 1 .. m : buffer[i].src < job.src
  BY <1>3, <1>10, PipeTyped
<1>15. InLine'
  <2>1. \A i, j \in 1 .. m + 1 : i < j => b[i].src < b[j].src
    <3>1. SUFFICES ASSUME NEW i \in 1 .. m + 1, NEW j \in 1 .. m + 1, i < j PROVE b[i].src < b[j].src
      OBVIOUS
    <3>2. i \in 1 .. m
      BY <1>5, <3>1
    <3>3. CASE j \in 1 .. m
      BY <1>3, <1>5, <3>1, <3>2, <3>3 DEF JournalInv, InLine
    <3>4. CASE j = m + 1
      BY <1>5, <1>14, <3>2, <3>4
    <3>5. QED
      BY <1>5, <3>3, <3>4
  <2>2. \A i \in 1 .. Len(toFlush), j \in 1 .. m + 1 : toFlush[i].src < b[j].src
    <3>1. SUFFICES ASSUME NEW i \in 1 .. Len(toFlush), NEW j \in 1 .. m + 1
                   PROVE  toFlush[i].src < b[j].src
      OBVIOUS
    <3>2. CASE j \in 1 .. m
      BY <1>3, <1>5, <3>2 DEF JournalInv, InLine
    <3>3. CASE j = m + 1
      BY <1>5, <1>14, <3>3
    <3>4. QED
      BY <1>5, <3>2, <3>3
  <2>3. QED
    BY <1>1, <1>3, <1>5, <2>1, <2>2 DEF JournalInv, InLine
<1>16. kv \subseteq Events
  BY DEF Events
<1>17. StoredFirst'
  BY <1>1, <1>7, <1>10, <1>16 DEF JournalInv, StoredFirst
<1>18. QED
  BY <1>1, <1>7, <1>13, <1>15, <1>17 DEF Journaled, JournalInv

\* A flush takes the buffer, or ends.
LEMMA JournalMoved ==
    ASSUME TypeInv, JournalInv, Raws' = Raws, UNCHANGED <<accepted, live, kv>>,
           Events' \subseteq Events, toFlush' = <<>> \/ buffer' = <<>>,
           toFlush' \in {<<>>, buffer}, buffer' \in {<<>>, buffer}
    PROVE  Journaled
<1>1. Pipe' \subseteq Pipe /\ Durable' = Durable
  BY ElemsEmpty DEF Pipe, Durable
<1>2. Len(<<>>) = 0
  OBVIOUS
<1>3. InLine'
  BY <1>2 DEF JournalInv, InLine
<1>4. RawsInLine'
  <2>1. PICK R : R = Raws
    OBVIOUS
  <2>2. Raws' = R
    BY <2>1
  <2>3. QED
    BY <2>1, <2>2 DEF JournalInv, RawsInLine
<1>5. StoredFirst'
  BY <1>1 DEF JournalInv, StoredFirst
<1>6. QED
  BY <1>1, <1>3, <1>4, <1>5 DEF Journaled, JournalInv

\* A failed batch goes back to the front of the line.
LEMMA JournalFailed ==
    ASSUME TypeInv, JournalInv, Raws' = Raws, UNCHANGED <<accepted, live, kv>>,
           toFlush' = <<>>, buffer' = toFlush \o buffer
    PROVE  Journaled
<1>1. PICK m, n, b : m = Len(toFlush) /\ n = Len(buffer) /\ b = buffer'
  OBVIOUS
<1>2. /\ m \in Nat /\ n \in Nat /\ Len(b) = m + n
      /\ \A i \in 1 .. m + n : b[i] = IF i <= m THEN toFlush[i] ELSE buffer[i - m]
  BY <1>1, ConcatProperties, PipeTyped DEF TypeInv, BufTypes
<1>3. Elems(b) = Elems(toFlush) \cup Elems(buffer)
  BY <1>1, ElemsConcat DEF TypeInv, BufTypes
<1>4. Pipe' = Pipe /\ Events' = Events /\ Durable' = Durable
  BY <1>1, <1>3, ElemsEmpty DEF Pipe, Events, Durable
<1>5. \A i, j \in 1 .. m + n : i < j => b[i].src < b[j].src
  <2>1. SUFFICES ASSUME NEW i \in 1 .. m + n, NEW j \in 1 .. m + n, i < j PROVE b[i].src < b[j].src
    OBVIOUS
  <2>2. CASE j <= m
    <3>1. i \in 1 .. m /\ j \in 1 .. m /\ b[i] = toFlush[i] /\ b[j] = toFlush[j]
      BY <1>2, <2>1, <2>2
    <3>2. QED
      BY <1>1, <2>1, <3>1 DEF JournalInv, InLine
  <2>3. CASE i <= m /\ ~(j <= m)
    <3>1. i \in 1 .. m /\ j - m \in 1 .. n /\ b[i] = toFlush[i] /\ b[j] = buffer[j - m]
      BY <1>2, <2>1, <2>3
    <3>2. QED
      BY <1>1, <3>1 DEF JournalInv, InLine
  <2>4. CASE ~(i <= m)
    <3>1. i - m \in 1 .. n /\ j - m \in 1 .. n /\ i - m < j - m /\ ~(j <= m)
      BY <1>2, <2>1, <2>4
    <3>2. b[i] = buffer[i - m] /\ b[j] = buffer[j - m]
      BY <1>2, <2>4, <3>1
    <3>3. QED
      BY <1>1, <3>1, <3>2 DEF JournalInv, InLine
  <2>5. QED
    BY <1>2, <2>1, <2>2, <2>3, <2>4
<1>6. Len(<<>>) = 0
  OBVIOUS
<1>7. InLine'
  BY <1>1, <1>2, <1>5, <1>6 DEF InLine
<1>8. RawsInLine'
  <2>1. PICK R : R = Raws
    OBVIOUS
  <2>2. Raws' = R
    BY <2>1
  <2>3. QED
    BY <1>4, <2>1, <2>2 DEF JournalInv, RawsInLine
<1>9. StoredFirst'
  BY <1>4 DEF JournalInv, StoredFirst
<1>10. QED
  BY <1>4, <1>7, <1>8, <1>9 DEF Journaled, JournalInv

\* A chunk is committed: all events up to its last one are stored then.
LEMMA JournalChunk ==
    ASSUME TypeInv, Links, Once, JournalInv, FlushChunk
    PROVE  Journaled
<1>1. PICK n : n = LastOf
  OBVIOUS
<1>2. /\ n \in Nat /\ saved < n /\ n <= Len(toFlush)
      /\ kv' = kv \cup {toFlush[i] : i \in saved + 1 .. n}
      /\ UNCHANGED <<toFlush, buffer>>
  BY <1>1, ChunkEffect
<1>3. UNCHANGED <<accepted, live, cur, queue>>
  BY DEF FlushChunk, proc, hist
<1>4. saved \in Nat /\ Len(toFlush) \in Nat
  BY PipeTyped DEF TypeInv, BufTypes
<1>5. n \in 1 .. Len(toFlush) /\ \A i \in 1 .. n : i \in 1 .. Len(toFlush)
  BY <1>2, <1>4
<1>6. ASSUME NEW i \in 1 .. n PROVE toFlush[i] \in kv'
  <2>1. CASE i \in 1 .. saved
    BY <1>2, <2>1 DEF Links, PipeLinked
  <2>2. CASE i \in saved + 1 .. n
    BY <1>2, <2>2
  <2>3. QED
    BY <1>2, <1>4, <2>1, <2>2
<1>7. \A e \in kv' : e \in kv \/ \E i \in 1 .. n : e = toFlush[i]
  <2>1. \A i \in saved + 1 .. n : i \in 1 .. n
    BY <1>2, <1>4
  <2>2. QED
    BY <1>2, <2>1
<1>8. Pipe' = Pipe /\ Raws' = Raws
  BY <1>2, <1>3 DEF Pipe, Raws
<1>9. kv' \subseteq Events
  BY <1>5, <1>7, PipeTyped DEF Events
<1>10. Events' \subseteq Events
  BY <1>2, <1>9 DEF Events
<1>11. InLine'
  BY <1>2 DEF JournalInv, InLine
<1>12. RawsInLine'
  <2>1. PICK R : R = Raws
    OBVIOUS
  <2>2. Raws' = R
    BY <1>8, <2>1
  <2>3. QED
    BY <1>10, <2>1, <2>2 DEF JournalInv, RawsInLine
<1>13. ASSUME NEW i \in 1 .. n, NEW x \in Pipe PROVE toFlush[i].src < x.src \/ x \in kv'
  <2>1. CASE \E j \in 1 .. Len(toFlush) : x = toFlush[j]
    <3>1. PICK j \in 1 .. Len(toFlush) : x = toFlush[j]
      BY <2>1
    <3>2. CASE j <= n
      BY <1>2, <1>4, <1>6, <3>1, <3>2
    <3>3. CASE ~(j <= n)
      <4>1. i < j /\ i \in 1 .. Len(toFlush)
        BY <1>2, <1>4, <1>5, <3>3
      <4>2. QED
        BY <3>1, <4>1 DEF JournalInv, InLine
    <3>4. QED
      BY <3>2, <3>3
  <2>2. CASE \E j \in 1 .. Len(buffer) : x = buffer[j]
    BY <1>5, <2>2 DEF JournalInv, InLine
  <2>3. QED
    BY <2>1, <2>2, PipeTyped DEF Pipe, Elems
<1>14. StoredFirst'
  <2>1. \A e \in kv', x \in Pipe : e.src < x.src \/ x \in kv'
    BY <1>2, <1>7, <1>13 DEF JournalInv, StoredFirst
  <2>2. QED
    BY <1>3, <1>8, <2>1 DEF JournalInv, StoredFirst
<1>15. PICK top : top = toFlush[n].src
  OBVIOUS
<1>16. top \in live /\ top \in Nat /\ toFlush[n] \in Events
  BY <1>5, <1>15, PipeTyped DEF JournalInv, StoredFirst
<1>17. ASSUME NEW i \in 1 .. n PROVE toFlush[i].src \in live /\ toFlush[i].src <= top
  <2>1. toFlush[i] \in Pipe
    BY <1>5, PipeTyped
  <2>2. toFlush[i].src \in live /\ toFlush[i].src \in Nat
    BY <2>1, PipeTyped DEF JournalInv, StoredFirst
  <2>3. CASE i = n
    BY <1>15, <1>16, <2>2, <2>3
  <2>4. CASE i # n
    <3>1. i < n /\ i \in 1 .. Len(toFlush)
      BY <1>2, <1>5, <2>4
    <3>2. toFlush[i].src < top
      BY <1>5, <1>15, <3>1 DEF JournalInv, InLine
    <3>3. QED
      BY <1>16, <2>2, <3>2
  <2>5. QED
    BY <2>3, <2>4
<1>18. ASSUME NEW s \in live, s <= top PROVE \E e \in kv' : e.src = s
  <2>1. CASE \E i \in 1 .. Len(Raws) : Raws[i].src = s
    <3>1. PICK i \in 1 .. Len(Raws) : Raws[i].src = s
      BY <2>1
    <3>2. top < s
      BY <1>15, <1>16, <3>1 DEF JournalInv, RawsInLine
    <3>3. s \in Nat
      BY SourceTypes
    <3>4. QED
      BY <1>16, <1>18, <3>2, <3>3
  <2>2. CASE \E e \in Events : e.src = s
    <3>1. PICK e \in Events : e.src = s
      BY <2>2
    <3>2. CASE e \in kv
      BY <1>2, <3>1, <3>2
    <3>3. CASE e \in Pipe
      <4>1. top < e.src \/ e \in kv'
        BY <1>2, <1>4, <1>13, <1>15, <3>3
      <4>2. s \in Nat
        BY SourceTypes
      <4>3. ~(top < e.src)
        BY <1>16, <1>18, <3>1, <4>2
      <4>4. QED
        BY <3>1, <4>1, <4>3
    <3>4. QED
      BY <3>2, <3>3 DEF Events, Pipe
  <2>3. QED
    BY <2>1, <2>2 DEF Once
<1>19. Durable' = Durable \cup {s \in live : s <= top}
  <2>1. 0 \notin live
    BY SourceTypes
  <2>2. Durable' \subseteq Durable \cup {s \in live : s <= top}
    BY <1>7, <1>17 DEF Durable
  <2>3. Durable \subseteq Durable'
    BY <1>2 DEF Durable
  <2>4. {s \in live : s <= top} \subseteq Durable'
    BY <1>18, <2>1 DEF Durable
  <2>5. QED
    BY <2>2, <2>3, <2>4
<1>20. Promise!Store
  BY <1>3, <1>16, <1>19 DEF Promise!Store
<1>21. QED
  BY <1>11, <1>12, <1>14, <1>20 DEF Journaled, JournalInv, Promise!Next

LEMMA JournalInit == Init => Promise!Init /\ JournalInv
<1>1. SUFFICES ASSUME Init PROVE Promise!Init /\ JournalInv
  OBVIOUS
<1>2. Raws = <<>> /\ toFlush = <<>> /\ buffer = <<>> /\ kv = {} /\ live = {} /\ accepted = 0
  BY <1>1 DEF Init, Raws
<1>3. Len(<<>>) = 0 /\ Pipe = {} /\ Durable = {}
  BY <1>2, ElemsEmpty DEF Pipe, Durable
<1>4. JournalInv
  BY <1>2, <1>3 DEF JournalInv, InLine, RawsInLine, StoredFirst
<1>5. QED
  BY <1>2, <1>3, <1>4 DEF Promise!Init

\* The steps that accept an event or take the next one.
LEMMA JournalLoop ==
    ASSUME TypeInv, Once, JournalInv, LogEvent \/ LeafDone \/ AfterFlush \/ ShutdownCommit
    PROVE  Journaled
<1>1. ClockTypes /\ ProcTypes /\ DiskTypes
  BY DEF TypeInv
<1>2. UNCHANGED kv
  BY DEF LogEvent, LeafDone, AfterFlush, ShutdownCommit, disk
<1>3. ASSUME NEW type \in Types \cup {"MERKLE_COMMIT"}, NEW ts \in 0 .. MaxTime, Enqueue(type, ts),
             UNCHANGED bufs
      PROVE  Journaled
  <2>1. /\ accepted' = accepted + 1 /\ live' = live \cup {accepted + 1}
        /\ \E raw \in Raw : raw.src = accepted + 1 /\ Raws' = Append(Raws, raw)
    BY <1>1, <1>3, EnqueueEffect
  <2>2. QED
    BY <1>2, <1>3, <2>1, JournalLogged DEF bufs
<1>4. ASSUME Advance, UNCHANGED <<bufs, accepted, live>>
      PROVE  Journaled
  <2>1. Raws' = Raws
    BY <1>1, <1>4, AdvanceEffect
  <2>2. QED
    BY <1>2, <1>4, <2>1, JournalAside DEF bufs
<1>5. CASE LogEvent
  <2>1. PICK type \in Types, s \in Stamped : Enqueue(type, IF s THEN now ELSE 0)
    BY <1>5 DEF LogEvent
  <2>2. PICK ts : ts = IF s THEN now ELSE 0
    OBVIOUS
  <2>3. ts \in 0 .. MaxTime
    BY <1>1, <2>2, LedgerAssumption DEF ClockTypes
  <2>4. UNCHANGED bufs
    BY <1>5 DEF LogEvent
  <2>5. QED
    BY <1>3, <2>1, <2>2, <2>3, <2>4
<1>6. CASE LeafDone
  <2>1. UNCHANGED <<accepted, live>>
    BY <1>6 DEF LeafDone, hist
  <2>2. CASE ~Flushing /\ BeginFlush /\ UNCHANGED <<queue, cur, job, nextId>>
    <3>1. Events' = Events /\ Raws' = Raws
      BY <1>2, <2>2, ElemsEmpty DEF Flushing, BeginFlush, Events, Raws
    <3>2. QED
      BY <1>2, <2>1, <2>2, <3>1, JournalMoved DEF BeginFlush
  <2>3. CASE Advance /\ UNCHANGED bufs
    BY <1>4, <2>1, <2>3
  <2>4. QED
    BY <1>6, <2>2, <2>3 DEF LeafDone
<1>7. CASE AfterFlush
  BY <1>4, <1>7 DEF AfterFlush, hist
<1>8. CASE ShutdownCommit
  <2>1. CASE Enqueue("MERKLE_COMMIT", 0)
    <3>1. "MERKLE_COMMIT" \in Types \cup {"MERKLE_COMMIT"} /\ 0 \in 0 .. MaxTime
      BY LedgerAssumption
    <3>2. QED
      BY <1>3, <1>8, <2>1, <3>1 DEF ShutdownCommit
  <2>2. CASE UNCHANGED <<proc, nextId, accepted, live>>
    <3>1. UNCHANGED bufs /\ Raws' = Raws
      BY <1>8, <2>2 DEF ShutdownCommit, Raws, proc
    <3>2. QED
      BY <1>2, <2>2, <3>1, JournalAside DEF bufs
  <2>3. QED
    BY <1>8, <2>1, <2>2 DEF ShutdownCommit
<1>9. QED
  BY <1>5, <1>6, <1>7, <1>8

\* The steps of retention, mesh sync and boot.
LEMMA JournalStored ==
    ASSUME TypeInv, Once, JournalInv,
           PurgeScan \/ PurgeSave \/ PurgeDelete \/ SyncCheck \/ SyncSave \/ Boot
    PROVE  Journaled
<1>1. /\ UNCHANGED <<accepted, live, buffer, toFlush>> /\ Raws' = Raws
  BY DEF PurgeScan, PurgeSave, PurgeDelete, SyncCheck, SyncSave, Boot, BootEmpty, BootValid, BootHeal,
         BootRefuse, proc, bufs, hist, Raws
<1>2. SUFFICES kv \subseteq kv' /\ \A e \in kv' : e \in kv \/ e.src = 0
  BY <1>1, JournalAside
<1>3. CASE PurgeScan \/ SyncCheck \/ BootEmpty \/ BootValid \/ BootRefuse
  BY <1>3 DEF PurgeScan, SyncCheck, BootEmpty, BootValid, BootRefuse, disk
<1>4. CASE PurgeSave
  BY <1>4 DEF PurgeSave, Once
<1>5. CASE SyncSave
  BY <1>5 DEF SyncSave, Once
<1>6. CASE PurgeDelete
  <2>1. PICK c : c = purge.cutoff
    OBVIOUS
  <2>2. kv' = DeleteBefore(c).kv
    BY <1>6, <2>1 DEF PurgeDelete
  <2>3. QED
    BY <2>2, DeletesNothing
<1>7. CASE BootHeal
  <2>1. PICK r \in Ranks : kv' = kv \cup {Checkpoint(r)}
    BY <1>7 DEF BootHeal
  <2>2. Checkpoint(r).src = 0
    BY DEF Checkpoint, Event
  <2>3. QED
    BY <2>1, <2>2
<1>8. QED
  BY <1>3, <1>4, <1>5, <1>6, <1>7 DEF Boot

LEMMA JournalStep == LedgerInv /\ JournalInv /\ [Next]_vars => Journaled
<1>1. SUFFICES ASSUME LedgerInv, JournalInv, [Next]_vars PROVE Journaled
  OBVIOUS
<1>2. TypeInv /\ Once /\ Links /\ JournalInv
  BY <1>1 DEF LedgerInv, Links
<1>3. CASE LogEvent \/ LeafDone \/ AfterFlush \/ ShutdownCommit
  BY <1>2, <1>3, JournalLoop
<1>4. CASE PurgeScan \/ PurgeSave \/ PurgeDelete \/ SyncCheck \/ SyncSave \/ Boot
  BY <1>2, <1>4, JournalStored
<1>5. CASE LogDrop \/ ShutdownBegin \/ Tick \/ VerifyScan \/ VerifyDone \/ UNCHANGED vars
  <2>1. UNCHANGED <<accepted, live, buffer, toFlush, kv, cur, queue>>
    BY <1>5 DEF LogDrop, ShutdownBegin, Tick, VerifyScan, VerifyDone, vars, hist, mem, disk, proc, bufs
  <2>2. Raws' = Raws
    BY <2>1 DEF Raws
  <2>3. QED
    BY <1>2, <2>1, <2>2, JournalAside
<1>6. CASE HashSigned
  BY <1>2, <1>6, JournalSigned
<1>7. CASE SignFail
  <2>1. /\ queue' = cur \o queue /\ cur' = <<>> /\ UNCHANGED <<accepted, live, buffer, toFlush, kv>>
    BY <1>7 DEF SignFail, hist, bufs, disk
  <2>2. <<>> \o Raws = Raws
    BY <1>2, RawsTyped, ConcatEmptySeq
  <2>3. Raws' = Raws
    BY <2>1, <2>2 DEF Raws
  <2>4. QED
    BY <1>2, <2>1, <2>3, JournalAside
<1>8. CASE FlushTimer \/ ShutdownFlush
  <2>1. /\ UNCHANGED <<accepted, live, kv, cur, queue>>
        /\ (~Flushing /\ BeginFlush) \/ UNCHANGED bufs
    BY <1>8 DEF FlushTimer, ShutdownFlush, hist, disk, proc
  <2>2. Raws' = Raws
    BY <2>1 DEF Raws
  <2>3. CASE ~Flushing /\ BeginFlush
    <3>1. Events' = Events
      BY <2>1, <2>3, ElemsEmpty DEF Flushing, BeginFlush, Events
    <3>2. QED
      BY <1>2, <2>1, <2>2, <2>3, <3>1, JournalMoved DEF BeginFlush
  <2>4. CASE UNCHANGED bufs
    BY <1>2, <2>1, <2>2, <2>4, JournalAside DEF bufs
  <2>5. QED
    BY <2>1, <2>3, <2>4
<1>9. CASE FlushChunk
  BY <1>2, <1>9, JournalChunk
<1>10. CASE FlushEnd
  <2>1. /\ toFlush' = <<>> /\ UNCHANGED <<accepted, live, kv, cur, queue, buffer>>
    BY <1>10 DEF FlushEnd, hist, disk
  <2>2. Raws' = Raws /\ Events' \subseteq Events
    BY <2>1, ElemsEmpty DEF Raws, Events
  <2>3. QED
    BY <1>2, <2>1, <2>2, JournalMoved
<1>11. CASE FlushFail
  <2>1. /\ toFlush' = <<>> /\ buffer' = toFlush \o buffer /\ UNCHANGED <<accepted, live, kv, cur, queue>>
    BY <1>11 DEF FlushFail, hist, disk
  <2>2. Raws' = Raws
    BY <2>1 DEF Raws
  <2>3. QED
    BY <1>2, <2>1, <2>2, JournalFailed
<1>12. CASE Exit \/ Crash
  <2>1. Forget /\ UNCHANGED <<accepted, kv>>
    BY <1>12 DEF Exit, Crash, disk
  <2>2. Raws' = <<>> /\ toFlush' = <<>> /\ buffer' = <<>> /\ live' = {}
    BY <2>1 DEF Forget, Raws
  <2>3. Len(<<>>) = 0 /\ Pipe' = {} /\ Durable' = Durable
    BY <2>1, <2>2, ElemsEmpty DEF Pipe, Durable
  <2>4. JournalInv'
    BY <2>2, <2>3 DEF JournalInv, InLine, RawsInLine, StoredFirst
  <2>5. Promise!End
    BY <2>1, <2>2, <2>3 DEF Promise!End
  <2>6. QED
    BY <2>4, <2>5 DEF Journaled, Promise!Next
<1>13. QED
  BY <1>1, <1>3, <1>4, <1>5, <1>6, <1>7, <1>8, <1>9, <1>10, <1>11, <1>12
     DEF Next, ProcStep, FlushStep, Shutdown

\* The audit ledger implements the journal: accepted events are stored in the
\* order of their acceptance and stay stored, through failed signatures, failed
\* and repeated commits, retention, sync, boots and shutdowns, and a crash loses
\* the latest ones only, for every number of events and every size of batch.
THEOREM LedgerIsJournal == Spec => ImplementsJournal
<1>1. Init => Promise!Init /\ JournalInv
  BY JournalInit
<1>2. LedgerInv /\ JournalInv /\ [Next]_vars
      => [Promise!Next]_<<accepted, live, Durable>> /\ JournalInv'
  BY JournalStep DEF Journaled
<1>3. QED
  BY <1>1, <1>2, LedgerAlways, PTL DEF Spec, ImplementsJournal, Promise!Spec

-----------------------------------------------------------------------------
(* The messages on their way to a remote syslog (LogForwarder), for every  *)
(* number of messages, flushes, crashes and outages.                       *)

Holds(s, m) == \E i \in 1 .. Len(s) : s[i] = m
Buffered(m) == Holds(logBuffer, m)
InHand(f, m) == Holds(logsToSend[f], m)
Queued(m) == \E e \in stash : e.msg = m
Busy(f) == stage[f] \in {"process", "ack"}
NoRepeat(s) == \A i, j \in 1 .. Len(s) : s[i] = s[j] => i = j

\* The entry was sent, and has still to be deleted.
Acking(e) == \E f \in Flushers : stage[f] = "ack" /\ Head(todo[f]) = e

LogTypes ==
    /\ unlogged \subseteq Msgs /\ logging \subseteq Msgs /\ logBuffer \in Seq(Msgs)
    /\ \A m, n \in logging : m = n
    /\ logsToSend \in [Flushers -> Seq(Msgs)]
    /\ stage \in [Flushers -> {"idle", "process", "ack", "take", "forward", "done"}]
    /\ IsFiniteSet(stash) /\ \A e \in stash : e.msg \in Msgs
    /\ sent \in [Msgs -> Nat] /\ crashes \in Nat /\ refused \in Nat

\* The list of the one call that processes the queue holds entries that are
\* still in it, each once.
Lists ==
    /\ todo = [f \in Flushers |-> todo[f]]
    /\ \A f \in Flushers : todo[f] \in Seq(stash) /\ NoRepeat(todo[f])
    /\ \A f \in Flushers : ~Busy(f) => todo[f] = <<>>

OneProcesses ==
    /\ \A f, g \in Flushers : Busy(f) /\ Busy(g) => f = g
    /\ \A f \in Flushers : Busy(f) => isProcessing

Acked ==
    \A f \in Flushers : stage[f] = "ack" => todo[f] # <<>> /\ sent[Head(todo[f]).msg] > 0

HandsEmpty == \A f \in Flushers : stage[f] # "forward" => logsToSend[f] = <<>>

\* A message is in one place, and once.
OnePlace ==
    /\ \A m \in unlogged : m \notin logging /\ ~Buffered(m)
    /\ \A m \in logging : ~Buffered(m)
    /\ \A f \in Flushers : \A m \in Msgs :
         InHand(f, m) => m \notin unlogged /\ m \notin logging /\ ~Buffered(m)
    /\ \A f, g \in Flushers : \A m \in Msgs : InHand(f, m) /\ InHand(g, m) => f = g

\* What was never in the queue was never sent.
Untouched(m) == ~Queued(m) /\ sent[m] = 0

Fresh ==
    /\ \A m \in unlogged \cup logging : Untouched(m)
    /\ \A m \in Msgs : Buffered(m) => Untouched(m)
    /\ \A f \in Flushers : \A m \in Msgs : InHand(f, m) => Untouched(m)

NoCopies ==
    /\ NoRepeat(logBuffer) /\ \A f \in Flushers : NoRepeat(logsToSend[f])
    /\ \A d, e \in stash : d.msg = e.msg => d = e

\* An entry of the queue was sent once per crash at most, until it is sent
\* again and deleted.
Resent == \A e \in stash : sent[e.msg] <= crashes + refused \/ Acking(e)

\* No message that log() took is nowhere.
Somewhere(m) ==
    \/ m \in unlogged \/ m \in lost \/ m \in logging \/ Buffered(m) \/ Queued(m)
    \/ sent[m] > 0 \/ \E f \in Flushers : InHand(f, m)

LogInv ==
    /\ LogTypes /\ Lists /\ OneProcesses /\ Acked /\ HandsEmpty /\ OnePlace /\ Fresh
    /\ NoCopies /\ Resent /\ (\A m \in Msgs : sent[m] <= 1 + crashes + refused)
    /\ (\A m \in Msgs : Somewhere(m))

LEMMA EmptyHolds == NoRepeat(<<>>) /\ \A m : ~Holds(<<>>, m)
  BY DEF NoRepeat, Holds

LEMMA TailHolds ==
    ASSUME NEW S, NEW s \in Seq(S), s # <<>>
    PROVE  /\ Tail(s) \in Seq(S) /\ Head(s) \in S
           /\ \A m : Holds(s, m) <=> m = Head(s) \/ Holds(Tail(s), m)
           /\ NoRepeat(s) => NoRepeat(Tail(s)) /\ ~Holds(Tail(s), Head(s))
<1>1. /\ Tail(s) \in Seq(S) /\ Head(s) = s[1] /\ Len(s) \in Nat /\ 1 \in 1 .. Len(s) /\ Head(s) \in S
      /\ Len(Tail(s)) = Len(s) - 1 /\ \A i \in 1 .. Len(Tail(s)) : Tail(s)[i] = s[i + 1]
  OBVIOUS
<1>2. ASSUME NEW m PROVE Holds(s, m) <=> m = Head(s) \/ Holds(Tail(s), m)
  <2>1. Holds(s, m) => m = Head(s) \/ Holds(Tail(s), m)
    <3>1. SUFFICES ASSUME NEW i \in 1 .. Len(s), s[i] = m, i # 1 PROVE Holds(Tail(s), m)
      BY <1>1 DEF Holds
    <3>2. i - 1 \in 1 .. Len(Tail(s)) /\ Tail(s)[i - 1] = m
      BY <1>1, <3>1
    <3>3. QED
      BY <3>2 DEF Holds
  <2>2. Holds(Tail(s), m) => Holds(s, m)
    <3>1. SUFFICES ASSUME NEW i \in 1 .. Len(Tail(s)), Tail(s)[i] = m PROVE Holds(s, m)
      BY DEF Holds
    <3>2. i + 1 \in 1 .. Len(s) /\ s[i + 1] = m
      BY <1>1, <3>1
    <3>3. QED
      BY <3>2 DEF Holds
  <2>3. m = Head(s) => Holds(s, m)
    BY <1>1 DEF Holds
  <2>4. QED
    BY <2>1, <2>2, <2>3
<1>3. ASSUME NoRepeat(s) PROVE NoRepeat(Tail(s)) /\ ~Holds(Tail(s), Head(s))
  <2>1. ASSUME NEW i \in 1 .. Len(Tail(s)), NEW j \in 1 .. Len(Tail(s)), Tail(s)[i] = Tail(s)[j]
        PROVE  i = j
    <3>1. i + 1 \in 1 .. Len(s) /\ j + 1 \in 1 .. Len(s) /\ s[i + 1] = s[j + 1]
      BY <1>1, <2>1
    <3>2. i + 1 = j + 1
      BY <1>3, <3>1 DEF NoRepeat
    <3>3. QED
      BY <3>2
  <2>2. ASSUME NEW i \in 1 .. Len(Tail(s)) PROVE Tail(s)[i] # Head(s)
    <3>1. i + 1 \in 1 .. Len(s) /\ Tail(s)[i] = s[i + 1] /\ i + 1 # 1
      BY <1>1
    <3>2. QED
      BY <1>1, <1>3, <3>1 DEF NoRepeat
  <2>3. QED
    BY <2>1, <2>2 DEF NoRepeat, Holds
<1>4. QED
  BY <1>1, <1>2, <1>3

LEMMA AppendHolds ==
    ASSUME NEW S, NEW s \in Seq(S), NEW x \in S
    PROVE  /\ Append(s, x) \in Seq(S) /\ Append(s, x) # <<>>
           /\ \A m : Holds(Append(s, x), m) <=> m = x \/ Holds(s, m)
           /\ NoRepeat(s) /\ ~Holds(s, x) => NoRepeat(Append(s, x))
<1>1. PICK b : b = Append(s, x)
  OBVIOUS
<1>2. /\ b \in Seq(S) /\ Len(s) \in Nat /\ Len(b) = Len(s) + 1 /\ b[Len(b)] = x
      /\ \A i \in 1 .. Len(s) : b[i] = s[i]
  BY <1>1
<1>3. b # <<>>
  BY <1>2
<1>4. \A m : Holds(b, m) <=> m = x \/ Holds(s, m)
  BY <1>2 DEF Holds
<1>5. ASSUME NoRepeat(s), ~Holds(s, x), NEW i \in 1 .. Len(b), NEW j \in 1 .. Len(b), b[i] = b[j]
      PROVE  i = j
  <2>1. CASE i = Len(b) /\ j = Len(b)
    BY <2>1
  <2>2. CASE i # Len(b) /\ j = Len(b)
    BY <1>2, <1>5, <2>2 DEF Holds
  <2>3. CASE i = Len(b) /\ j # Len(b)
    BY <1>2, <1>5, <2>3 DEF Holds
  <2>4. CASE i # Len(b) /\ j # Len(b)
    BY <1>2, <1>5, <2>4 DEF NoRepeat
  <2>5. QED
    BY <2>1, <2>2, <2>3, <2>4
<1>6. NoRepeat(s) /\ ~Holds(s, x) => NoRepeat(b)
  BY <1>5 DEF NoRepeat
<1>7. QED
  BY <1>1, <1>2, <1>3, <1>4, <1>6

LEMMA LogSuffices == LogInv => Log!Accounted /\ Log!SentOnce
<1>1. SUFFICES ASSUME LogInv PROVE Log!Accounted /\ Log!SentOnce
  OBVIOUS
<1>2. Log!SentOnce
  BY <1>1 DEF LogInv, Log!SentOnce
<1>3. logBuffer \in Seq(Msgs) /\ logsToSend \in [Flushers -> Seq(Msgs)]
  BY <1>1 DEF LogInv, LogTypes
<1>4. ASSUME NEW m \in Msgs, m \notin unlogged, m \notin lost, ~Queued(m), ~(sent[m] > 0)
      PROVE  m \in Log!InMemory
  <2>1. Somewhere(m)
    BY <1>1 DEF LogInv
  <2>2. CASE m \in logging
    BY <2>2 DEF Log!InMemory
  <2>3. CASE Buffered(m)
    <3>1. m \in Log!ToSet(logBuffer)
      BY <1>3, <2>3 DEF Buffered, Holds, Log!ToSet
    <3>2. QED
      BY <3>1 DEF Log!InMemory
  <2>4. CASE \E f \in Flushers : InHand(f, m)
    <3>1. PICK f \in Flushers : InHand(f, m)
      BY <2>4
    <3>2. m \in Log!ToSet(logsToSend[f])
      BY <1>3, <3>1 DEF InHand, Holds, Log!ToSet
    <3>3. QED
      BY <3>2 DEF Log!InMemory
  <2>5. QED
    BY <1>4, <2>1, <2>2, <2>3, <2>4 DEF Somewhere
<1>5. Log!Accounted
  BY <1>4 DEF Log!Accounted, Queued
<1>6. QED
  BY <1>2, <1>5

LEMMA LogInit == Log!Init => LogInv
<1>1. SUFFICES ASSUME Log!Init PROVE LogInv
  OBVIOUS
<1>2. /\ unlogged = Msgs /\ logging = {} /\ logBuffer = <<>> /\ stash = {} /\ crashes = 0 /\ refused = 0
      /\ stage = [f \in Flushers |-> "idle"] /\ todo = [f \in Flushers |-> <<>>]
      /\ logsToSend = [f \in Flushers |-> <<>>] /\ sent = [m \in Msgs |-> 0]
  BY <1>1 DEF Log!Init
<1>3. \A m \in Msgs : ~Buffered(m) /\ ~Queued(m) /\ sent[m] = 0
  BY <1>2, EmptyHolds DEF Buffered, Queued
<1>4. \A f \in Flushers : ~Busy(f) /\ todo[f] = <<>> /\ \A m \in Msgs : ~InHand(f, m)
  BY <1>2, EmptyHolds DEF InHand, Busy
<1>5. LogTypes
  <2>1. IsFiniteSet(stash)
    BY <1>2, FS_EmptySet
  <2>2. QED
    BY <1>2, <2>1 DEF LogTypes
<1>6. \A f \in Flushers : todo[f] \in Seq(stash) /\ NoRepeat(todo[f])
  <2>1. <<>> \in Seq(stash) /\ NoRepeat(<<>>)
    BY DEF NoRepeat
  <2>2. QED
    BY <1>4, <2>1
<1>7. Lists
  BY <1>2, <1>4, <1>6 DEF Lists
<1>8. OneProcesses /\ Acked /\ HandsEmpty /\ OnePlace
  BY <1>2, <1>3, <1>4 DEF OneProcesses, Acked, HandsEmpty, OnePlace, Busy
<1>9. Fresh /\ Resent
  BY <1>2, <1>3, <1>4 DEF Fresh, Untouched, Resent
<1>10. NoCopies
  BY <1>2 DEF NoCopies, NoRepeat
<1>11. \A m \in Msgs : Somewhere(m) /\ sent[m] <= 1 + crashes + refused
  BY <1>2, <1>3 DEF Somewhere
<1>12. QED
  BY <1>5, <1>7, <1>8, <1>9, <1>10, <1>11 DEF LogInv

-----------------------------------------------------------------------------
\* Nobody moves a message: what is left of the invariant's parts about places.
LEMMA PlacesStay ==
    ASSUME LogInv, UNCHANGED <<unlogged, logging, logBuffer, logsToSend>>
    PROVE  /\ OnePlace'
           /\ NoRepeat(logBuffer)' /\ \A f \in Flushers : NoRepeat(logsToSend[f])'
           /\ \A m \in Msgs : /\ Buffered(m)' <=> Buffered(m)
                              /\ \A f \in Flushers : InHand(f, m)' <=> InHand(f, m)
<1>1. \A m : /\ Buffered(m)' <=> Buffered(m)
             /\ \A f : InHand(f, m)' <=> InHand(f, m)
  BY DEF Buffered, InHand
<1>2. OnePlace'
  BY <1>1 DEF LogInv, OnePlace, LogTypes
<1>3. NoRepeat(logBuffer)' /\ \A f \in Flushers : NoRepeat(logsToSend[f])'
  BY DEF LogInv, NoCopies, NoRepeat
<1>4. QED
  BY <1>1, <1>2, <1>3

\* The queue is not touched, and nothing is sent.
LEMMA QueueStays ==
    ASSUME LogInv, UNCHANGED <<stash, sent>>
    PROVE  /\ \A m \in Msgs : Untouched(m)' <=> Untouched(m)
           /\ \A d, e \in stash' : d.msg = e.msg => d = e
           /\ \A m \in Msgs : (Queued(m)' <=> Queued(m)) /\ sent'[m] = sent[m]
  BY DEF LogInv, NoCopies, Untouched, Queued

\* A call of flushLogs goes on outside the queue.
LEMMA CallsStay ==
    ASSUME LogInv, NEW f \in Flushers, NEW p \in {"idle", "take", "forward", "done"},
           ~Busy(f), stage' = [stage EXCEPT ![f] = p],
           UNCHANGED <<isProcessing, todo>>, stash \subseteq stash',
           \A m \in Msgs : sent'[m] >= sent[m], sent' \in [Msgs -> Nat],
           UNCHANGED <<crashes, refused>>
    PROVE  /\ Lists' /\ OneProcesses' /\ Acked'
           /\ \A e \in stash : Acking(e)' <=> Acking(e)
           /\ stage' \in [Flushers -> {"idle", "process", "ack", "take", "forward", "done"}]
<1>1. stage \in [Flushers -> {"idle", "process", "ack", "take", "forward", "done"}]
  BY DEF LogInv, LogTypes
<1>2. /\ stage' \in [Flushers -> {"idle", "process", "ack", "take", "forward", "done"}]
      /\ stage'[f] = p /\ \A g \in Flushers : g # f => stage'[g] = stage[g]
  BY <1>1
<1>3. \A g \in Flushers : (Busy(g)' <=> Busy(g)) /\ (stage'[g] = "ack" <=> stage[g] = "ack")
  BY <1>2 DEF Busy
<1>4. \A g \in Flushers : todo[g] \in Seq(stash')
  BY DEF LogInv, Lists
<1>5. Lists'
  BY <1>3, <1>4 DEF LogInv, Lists, NoRepeat
<1>6. OneProcesses'
  BY <1>3 DEF LogInv, OneProcesses
<1>7. ASSUME NEW g \in Flushers, stage[g] = "ack"
      PROVE  todo[g] # <<>> /\ sent'[Head(todo[g]).msg] > 0
  <2>1. todo[g] # <<>> /\ sent[Head(todo[g]).msg] > 0 /\ todo[g] \in Seq(stash)
    BY <1>7 DEF LogInv, Acked, Lists
  <2>2. Head(todo[g]) \in stash
    BY <2>1
  <2>3. Head(todo[g]).msg \in Msgs
    BY <2>2 DEF LogInv, LogTypes
  <2>4. sent[Head(todo[g]).msg] \in Nat /\ sent'[Head(todo[g]).msg] \in Nat
    BY <2>3 DEF LogInv, LogTypes
  <2>5. QED
    BY <2>1, <2>3, <2>4
<1>8. Acked'
  BY <1>3, <1>7 DEF Acked
<1>9. QED
  BY <1>2, <1>3, <1>5, <1>6, <1>8 DEF Acking

\* The whole of a step that changes nothing but the place of a call outside
\* the queue, and variables the invariant does not speak of.
LEMMA IdleStep ==
    ASSUME LogInv, NEW f \in Flushers, NEW p \in {"idle", "take", "done"},
           ~Busy(f), logsToSend[f] = <<>>, stage' = [stage EXCEPT ![f] = p],
           UNCHANGED <<unlogged, logging, logBuffer, isProcessing, todo, logsToSend, stash,
                       sent, lost, crashes, refused>>
    PROVE  LogInv'
<1>1. sent \in [Msgs -> Nat] /\ crashes \in Nat /\ refused \in Nat
  BY DEF LogInv, LogTypes
<1>2. (\A m \in Msgs : sent'[m] >= sent[m]) /\ sent' \in [Msgs -> Nat]
  BY <1>1
<1>3. /\ Lists' /\ OneProcesses' /\ Acked' /\ \A e \in stash : Acking(e)' <=> Acking(e)
      /\ stage' \in [Flushers -> {"idle", "process", "ack", "take", "forward", "done"}]
  BY <1>2, CallsStay
<1>4. LogTypes'
  BY <1>3 DEF LogInv, LogTypes
<1>5. HandsEmpty'
  BY DEF LogInv, HandsEmpty, LogTypes
<1>6. /\ OnePlace' /\ NoRepeat(logBuffer)' /\ \A g \in Flushers : NoRepeat(logsToSend[g])'
      /\ \A m \in Msgs : /\ Buffered(m)' <=> Buffered(m)
                         /\ \A g \in Flushers : InHand(g, m)' <=> InHand(g, m)
  BY PlacesStay
<1>7. /\ \A m \in Msgs : Untouched(m)' <=> Untouched(m)
      /\ \A d, e \in stash' : d.msg = e.msg => d = e
      /\ \A m \in Msgs : (Queued(m)' <=> Queued(m)) /\ sent'[m] = sent[m]
  BY QueueStays
<1>8. NoCopies'
  BY <1>6, <1>7 DEF NoCopies
<1>9. Fresh'
  BY <1>6, <1>7 DEF LogInv, LogTypes, Fresh
<1>10. Resent'
  BY <1>3 DEF LogInv, Resent
<1>11. \A m \in Msgs : Somewhere(m)' /\ sent'[m] <= 1 + crashes' + refused'
  BY <1>6, <1>7 DEF LogInv, Somewhere
<1>12. QED
  BY <1>3, <1>4, <1>5, <1>6, <1>8, <1>9, <1>10, <1>11 DEF LogInv

\* Only the lost messages and the flags the invariant does not speak of change.
LEMMA LogStutter ==
    ASSUME LogInv, lost \subseteq lost',
           UNCHANGED <<unlogged, logging, logBuffer, isProcessing, stage, todo, logsToSend,
                       stash, sent, crashes, refused>>
    PROVE  LogInv'
<1>1. LogTypes' /\ Lists' /\ OneProcesses' /\ Acked' /\ HandsEmpty'
  BY DEF LogInv, LogTypes, Lists, OneProcesses, Acked, HandsEmpty, Busy, NoRepeat
<1>2. /\ OnePlace' /\ NoRepeat(logBuffer)' /\ \A g \in Flushers : NoRepeat(logsToSend[g])'
      /\ \A m \in Msgs : /\ Buffered(m)' <=> Buffered(m)
                         /\ \A g \in Flushers : InHand(g, m)' <=> InHand(g, m)
  BY PlacesStay
<1>3. /\ \A m \in Msgs : Untouched(m)' <=> Untouched(m)
      /\ \A d, e \in stash' : d.msg = e.msg => d = e
      /\ \A m \in Msgs : (Queued(m)' <=> Queued(m)) /\ sent'[m] = sent[m]
  BY QueueStays
<1>4. NoCopies'
  BY <1>2, <1>3 DEF NoCopies
<1>5. Fresh'
  BY <1>2, <1>3 DEF LogInv, LogTypes, Fresh
<1>6. Resent'
  BY DEF LogInv, Resent, Acking
<1>7. \A m \in Msgs : Somewhere(m)' /\ sent'[m] <= 1 + crashes' + refused'
  BY <1>2, <1>3 DEF LogInv, Somewhere
<1>8. QED
  BY <1>1, <1>2, <1>4, <1>5, <1>6, <1>7 DEF LogInv

\* A message is moved within memory, or out of it, while the queue rests.
LEMMA MemoryStep ==
    ASSUME LogInv, LogTypes', Lists', OneProcesses', Acked', HandsEmpty', OnePlace',
           NoRepeat(logBuffer)', \A f \in Flushers : NoRepeat(logsToSend[f])',
           \A e \in stash : Acking(e)' <=> Acking(e),
           \A m \in unlogged' \cup logging' : Untouched(m),
           \A m \in Msgs : Buffered(m)' => Untouched(m),
           \A f \in Flushers : \A m \in Msgs : InHand(f, m)' => Untouched(m),
           \A m \in Msgs : Somewhere(m)',
           UNCHANGED <<stash, sent, crashes, refused>>
    PROVE  LogInv'
<1>1. /\ \A m \in Msgs : Untouched(m)' <=> Untouched(m)
      /\ \A d, e \in stash' : d.msg = e.msg => d = e
  BY QueueStays
<1>2. NoCopies'
  BY <1>1 DEF NoCopies
<1>3. unlogged' \subseteq Msgs /\ logging' \subseteq Msgs
  BY DEF LogTypes
<1>4. Fresh'
  BY <1>1, <1>3 DEF Fresh
<1>5. Resent'
  BY DEF LogInv, Resent
<1>6. \A m \in Msgs : sent'[m] <= 1 + crashes' + refused'
  BY DEF LogInv
<1>7. QED
  BY <1>2, <1>4, <1>5, <1>6 DEF LogInv

\* log(), before and after its await.
LEMMA LogKeeps ==
    ASSUME LogInv, NEW m \in Msgs, Log!Log(m)
    PROVE  LogInv'
<1>1. /\ m \in unlogged /\ unlogged' = unlogged \ {m}
      /\ UNCHANGED <<logBuffer, isProcessing, stage, todo, logsToSend, stash, sent, crashes, refused>>
  BY DEF Log!Log, Log!net, Log!faults
<1>2. \/ logging = {} /\ logging' = {m} /\ lost' = lost
      \/ logging' = logging /\ lost' = lost \cup {m}
  BY DEF Log!Log
<1>3. \A n \in logging' : n \in logging \/ n = m
  BY <1>2
<1>4. \A n : /\ Buffered(n)' <=> Buffered(n)
             /\ \A f : InHand(f, n)' <=> InHand(f, n)
  BY <1>1 DEF Buffered, InHand
<1>5. LogTypes' /\ Lists' /\ OneProcesses' /\ Acked' /\ HandsEmpty'
  <2>1. LogTypes'
    BY <1>1, <1>2 DEF LogInv, LogTypes
  <2>2. QED
    BY <1>1, <2>1 DEF LogInv, Lists, OneProcesses, Acked, HandsEmpty, Busy, NoRepeat
<1>6. OnePlace'
  BY <1>1, <1>3, <1>4 DEF LogInv, OnePlace
<1>7. NoRepeat(logBuffer)' /\ \A f \in Flushers : NoRepeat(logsToSend[f])'
  BY <1>1 DEF LogInv, NoCopies, NoRepeat
<1>8. \A e \in stash : Acking(e)' <=> Acking(e)
  BY <1>1 DEF Acking
<1>9. /\ \A n \in unlogged' \cup logging' : Untouched(n)
      /\ \A n \in Msgs : Buffered(n)' => Untouched(n)
      /\ \A f \in Flushers : \A n \in Msgs : InHand(f, n)' => Untouched(n)
  BY <1>1, <1>3, <1>4 DEF LogInv, Fresh
<1>10. ASSUME NEW n \in Msgs PROVE Somewhere(n)'
  <2>1. Somewhere(n) /\ (Queued(n)' <=> Queued(n))
    BY <1>1 DEF LogInv, Queued
  <2>2. n \in unlogged => n \in unlogged' \/ n \in logging' \/ n \in lost'
    BY <1>1, <1>2
  <2>3. (n \in lost => n \in lost') /\ (n \in logging => n \in logging')
    BY <1>2
  <2>4. QED
    BY <1>1, <1>4, <2>1, <2>2, <2>3 DEF Somewhere
<1>11. QED
  BY <1>1, <1>5, <1>6, <1>7, <1>8, <1>9, <1>10, MemoryStep

\* bufferLog: the message is appended, and the first one may be dropped.
LEMMA LogDoneKeeps ==
    ASSUME LogInv, Log!LogDone
    PROVE  LogInv'
<1>1. PICK m \in logging :
        /\ logging' = {}
        /\ \/ logBuffer' = Tail(Append(logBuffer, m)) /\ lost' = lost \cup {Head(Append(logBuffer, m))}
           \/ logBuffer' = Append(logBuffer, m) /\ lost' = lost
  BY DEF Log!LogDone
<1>2. UNCHANGED <<unlogged, isProcessing, stage, todo, logsToSend, stash, sent, crashes, refused>>
  BY DEF Log!LogDone, Log!net, Log!faults
<1>3. m \in Msgs /\ logBuffer \in Seq(Msgs) /\ ~Buffered(m) /\ NoRepeat(logBuffer)
  BY DEF LogInv, LogTypes, OnePlace, NoCopies
<1>4. PICK b : b = Append(logBuffer, m)
  OBVIOUS
<1>5. b \in Seq(Msgs) /\ b # <<>> /\ NoRepeat(b) /\ \A n : Holds(b, n) <=> n = m \/ Buffered(n)
  BY <1>3, <1>4, AppendHolds DEF Buffered
<1>6. /\ Tail(b) \in Seq(Msgs) /\ NoRepeat(Tail(b))
      /\ \A n : Holds(b, n) <=> n = Head(b) \/ Holds(Tail(b), n)
  BY <1>5, TailHolds
<1>7. \/ logBuffer' = Tail(b) /\ lost' = lost \cup {Head(b)}
      \/ logBuffer' = b /\ lost' = lost
  BY <1>1, <1>4
<1>8. logBuffer' \in Seq(Msgs) /\ NoRepeat(logBuffer')
  BY <1>5, <1>6, <1>7
<1>9. \A n : Buffered(n)' => Buffered(n) \/ n = m
  BY <1>5, <1>6, <1>7 DEF Buffered
<1>10. \A n : Buffered(n) \/ n = m => Buffered(n)' \/ n \in lost'
  BY <1>5, <1>6, <1>7 DEF Buffered
<1>11. \A n : \A f : InHand(f, n)' <=> InHand(f, n)
  BY <1>2 DEF InHand
<1>12. LogTypes'
  BY <1>1, <1>2, <1>8 DEF LogInv, LogTypes
<1>13. Lists' /\ OneProcesses' /\ Acked' /\ HandsEmpty'
  BY <1>2 DEF LogInv, Lists, OneProcesses, Acked, HandsEmpty, Busy, NoRepeat
<1>14. OnePlace'
  BY <1>1, <1>2, <1>9, <1>11 DEF LogInv, LogTypes, OnePlace
<1>15. NoRepeat(logBuffer)' /\ \A f \in Flushers : NoRepeat(logsToSend[f])'
  BY <1>2, <1>8 DEF LogInv, NoCopies
<1>16. \A e \in stash : Acking(e)' <=> Acking(e)
  BY <1>2 DEF Acking
<1>17. /\ \A n \in unlogged' \cup logging' : Untouched(n)
       /\ \A n \in Msgs : Buffered(n)' => Untouched(n)
       /\ \A f \in Flushers : \A n \in Msgs : InHand(f, n)' => Untouched(n)
  BY <1>1, <1>2, <1>9, <1>11 DEF LogInv, Fresh
<1>18. ASSUME NEW n \in Msgs PROVE Somewhere(n)'
  <2>1. Somewhere(n) /\ (Queued(n)' <=> Queued(n))
    BY <1>2 DEF LogInv, Queued
  <2>2. CASE n \in logging
    <3>1. n = m
      BY <2>2 DEF LogInv, LogTypes
    <3>2. QED
      BY <1>10, <3>1 DEF Somewhere
  <2>3. CASE n \notin logging
    <3>1. n \in lost => n \in lost'
      BY <1>7
    <3>2. QED
      BY <1>2, <1>10, <1>11, <2>1, <2>3, <3>1 DEF Somewhere
  <2>4. QED
    BY <2>2, <2>3
<1>19. QED
  BY <1>2, <1>12, <1>13, <1>14, <1>15, <1>16, <1>17, <1>18, MemoryStep

-----------------------------------------------------------------------------
(* flushLogs.                                                              *)

LEMMA TakeKeeps ==
    ASSUME LogInv, NEW f \in Flushers, Log!TakeBuffer(f)
    PROVE  LogInv'
<1>1. /\ stage[f] \in {"idle", "take"}
      /\ UNCHANGED <<unlogged, logging, isProcessing, todo, stash, sent, lost, crashes, refused>>
  BY DEF Log!TakeBuffer, Log!Called, Log!net, Log!faults
<1>2. ~Busy(f) /\ logsToSend[f] = <<>>
  BY <1>1 DEF Busy, LogInv, HandsEmpty
<1>3. CASE logBuffer = <<>>
  <2>1. stage' = [stage EXCEPT ![f] = "done"] /\ UNCHANGED <<logBuffer, logsToSend>>
    BY <1>3 DEF Log!TakeBuffer
  <2>2. QED
    BY <1>1, <1>2, <2>1, IdleStep
<1>4. CASE logBuffer # <<>>
  <2>1. /\ logsToSend' = [logsToSend EXCEPT ![f] = logBuffer] /\ logBuffer' = <<>>
        /\ stage' = [stage EXCEPT ![f] = "forward"]
    BY <1>4 DEF Log!TakeBuffer
  <2>2. logBuffer \in Seq(Msgs) /\ logsToSend \in [Flushers -> Seq(Msgs)]
    BY DEF LogInv, LogTypes
  <2>3. /\ logsToSend' \in [Flushers -> Seq(Msgs)] /\ logsToSend'[f] = logBuffer
        /\ \A g \in Flushers : g # f => logsToSend'[g] = logsToSend[g]
    BY <2>1, <2>2
  <2>4. \A n : ~Buffered(n)'
    BY <2>1, EmptyHolds DEF Buffered
  <2>5. \A n : InHand(f, n)' <=> Buffered(n)
    BY <2>3 DEF InHand, Buffered
  <2>6. \A g \in Flushers : \A n : g # f => (InHand(g, n)' <=> InHand(g, n))
    BY <2>3 DEF InHand
  <2>7. \A n : ~InHand(f, n)
    BY <1>2, EmptyHolds DEF InHand
  <2>8. sent \in [Msgs -> Nat] /\ sent' = sent
    BY <1>1 DEF LogInv, LogTypes
  <2>9. \A m \in Msgs : sent'[m] >= sent[m]
    BY <2>8
  <2>10. /\ Lists' /\ OneProcesses' /\ Acked' /\ \A e \in stash : Acking(e)' <=> Acking(e)
         /\ stage' \in [Flushers -> {"idle", "process", "ack", "take", "forward", "done"}]
    BY <1>1, <1>2, <2>1, <2>8, <2>9, CallsStay
  <2>11. LogTypes'
    BY <1>1, <2>1, <2>3, <2>10 DEF LogInv, LogTypes
  <2>12. HandsEmpty'
    <3>1. \A g \in Flushers : g # f => stage'[g] = stage[g]
      BY <2>1 DEF LogInv, LogTypes
    <3>2. stage'[f] = "forward"
      BY <2>1 DEF LogInv, LogTypes
    <3>3. QED
      BY <2>3, <3>1, <3>2 DEF LogInv, HandsEmpty
  <2>13. OnePlace'
    <3>1. \A m \in unlogged' : m \notin logging' /\ ~Buffered(m)'
      BY <1>1, <2>4 DEF LogInv, OnePlace
    <3>2. \A g \in Flushers : \A m \in Msgs :
             InHand(g, m)' => m \notin unlogged' /\ m \notin logging' /\ ~Buffered(m)'
      BY <1>1, <2>4, <2>5, <2>6 DEF LogInv, OnePlace
    <3>3. \A g \in Flushers : \A m \in Msgs :
             InHand(g, m)' /\ g # f => InHand(g, m) /\ ~Buffered(m)
      BY <2>6 DEF LogInv, OnePlace
    <3>4. \A g, k \in Flushers : \A m \in Msgs : InHand(g, m)' /\ InHand(k, m)' => g = k
      BY <2>5, <3>3 DEF LogInv, OnePlace
    <3>5. QED
      BY <2>4, <3>1, <3>2, <3>4 DEF OnePlace
  <2>14. NoRepeat(logBuffer)' /\ \A g \in Flushers : NoRepeat(logsToSend[g])'
    BY <2>1, <2>3, EmptyHolds DEF LogInv, NoCopies
  <2>15. /\ \A n \in unlogged' \cup logging' : Untouched(n)
         /\ \A n \in Msgs : Buffered(n)' => Untouched(n)
         /\ \A g \in Flushers : \A n \in Msgs : InHand(g, n)' => Untouched(n)
    BY <1>1, <2>4, <2>5, <2>6 DEF LogInv, Fresh
  <2>16. ASSUME NEW n \in Msgs PROVE Somewhere(n)'
    <3>1. Somewhere(n) /\ (Queued(n)' <=> Queued(n))
      BY <1>1 DEF LogInv, Queued
    <3>2. QED
      BY <1>1, <2>5, <2>6, <2>7, <3>1 DEF Somewhere
  <2>17. QED
    BY <1>1, <2>10, <2>11, <2>12, <2>13, <2>14, <2>15, <2>16, MemoryStep
<1>5. QED
  BY <1>3, <1>4

\* The head of the batch leaves the hands of a call that forwards.
LEMMA HandStep ==
    ASSUME LogInv, NEW f \in Flushers, logsToSend[f] # <<>>,
           logsToSend' = [logsToSend EXCEPT ![f] = Tail(logsToSend[f])],
           UNCHANGED <<unlogged, logging, logBuffer, stage>>
    PROVE  /\ Head(logsToSend[f]) \in Msgs /\ Untouched(Head(logsToSend[f]))
           /\ logsToSend' \in [Flushers -> Seq(Msgs)]
           /\ OnePlace' /\ HandsEmpty'
           /\ NoRepeat(logBuffer)' /\ \A g \in Flushers : NoRepeat(logsToSend[g])'
           /\ \A n \in unlogged' \cup logging' : Untouched(n) /\ n # Head(logsToSend[f])
           /\ \A n \in Msgs : Buffered(n)' => Untouched(n) /\ n # Head(logsToSend[f])
           /\ \A g \in Flushers : \A n \in Msgs :
                InHand(g, n)' => Untouched(n) /\ n # Head(logsToSend[f])
           /\ \A n : Buffered(n)' <=> Buffered(n)
           /\ \A g \in Flushers : \A n :
                InHand(g, n) => InHand(g, n)' \/ n = Head(logsToSend[f])
<1>1. logsToSend \in [Flushers -> Seq(Msgs)] /\ logsToSend[f] \in Seq(Msgs) /\ NoRepeat(logsToSend[f])
  BY DEF LogInv, LogTypes, NoCopies
<1>2. PICK h : h = Head(logsToSend[f])
  OBVIOUS
<1>3. PICK r : r = Tail(logsToSend[f])
  OBVIOUS
<1>4. /\ h \in Msgs /\ r \in Seq(Msgs) /\ NoRepeat(r) /\ ~Holds(r, h)
      /\ \A n : InHand(f, n) <=> n = h \/ Holds(r, n)
  BY <1>1, <1>2, <1>3, TailHolds DEF InHand
<1>5. /\ logsToSend' \in [Flushers -> Seq(Msgs)] /\ logsToSend'[f] = r
      /\ \A g \in Flushers : g # f => logsToSend'[g] = logsToSend[g]
  BY <1>1, <1>3, <1>4
<1>6. \A n : Buffered(n)' <=> Buffered(n)
  BY DEF Buffered
<1>7. \A n : InHand(f, n)' <=> Holds(r, n)
  BY <1>5 DEF InHand
<1>8. \A g \in Flushers : \A n : g # f => (InHand(g, n)' <=> InHand(g, n))
  BY <1>5 DEF InHand
<1>9. \A g \in Flushers : \A n : InHand(g, n)' => InHand(g, n)
  BY <1>4, <1>7, <1>8
<1>10. Untouched(h)
  BY <1>4 DEF LogInv, Fresh
<1>11. unlogged \subseteq Msgs /\ logging \subseteq Msgs
  BY DEF LogInv, LogTypes
<1>12. OnePlace'
  BY <1>6, <1>9 DEF LogInv, OnePlace
<1>13. HandsEmpty'
  BY <1>1, <1>4, <1>5 DEF LogInv, HandsEmpty
<1>14. NoRepeat(logBuffer)' /\ \A g \in Flushers : NoRepeat(logsToSend[g])'
  BY <1>4, <1>5 DEF LogInv, NoCopies
<1>15. InHand(f, h)
  BY <1>4
<1>16. /\ \A n \in unlogged' \cup logging' : Untouched(n) /\ n # h
       /\ \A n \in Msgs : Buffered(n)' => Untouched(n) /\ n # h
  BY <1>4, <1>6, <1>11, <1>15 DEF LogInv, OnePlace, Fresh
<1>17. \A g \in Flushers : \A n \in Msgs : InHand(g, n)' => Untouched(n) /\ n # h
  BY <1>4, <1>7, <1>8, <1>9, <1>15 DEF LogInv, OnePlace, Fresh
<1>18. \A g \in Flushers : \A n : InHand(g, n) => InHand(g, n)' \/ n = h
  BY <1>4, <1>7, <1>8
<1>19. QED
  BY <1>2, <1>4, <1>5, <1>6, <1>10, <1>12, <1>13, <1>14, <1>16, <1>17, <1>18

\* What remains of the invariant about the calls that process the queue while
\* another call adds to it or sends.
LEMMA CallsRest ==
    ASSUME LogInv, UNCHANGED <<isProcessing, todo, stage, crashes, refused>>, stash \subseteq stash',
           sent' \in [Msgs -> Nat], \A m \in Msgs : sent'[m] >= sent[m]
    PROVE  Lists' /\ OneProcesses' /\ Acked' /\ \A e \in stash : Acking(e)' <=> Acking(e)
<1>1. \A g \in Flushers : todo[g] \in Seq(stash')
  BY DEF LogInv, Lists
<1>2. Lists'
  BY <1>1 DEF LogInv, Lists, Busy
<1>3. OneProcesses'
  BY DEF LogInv, OneProcesses, Busy
<1>4. ASSUME NEW g \in Flushers, stage[g] = "ack"
      PROVE  todo[g] # <<>> /\ sent'[Head(todo[g]).msg] > 0
  <2>1. todo[g] # <<>> /\ sent[Head(todo[g]).msg] > 0 /\ todo[g] \in Seq(stash)
    BY <1>4 DEF LogInv, Acked, Lists
  <2>2. Head(todo[g]) \in stash
    BY <2>1
  <2>3. Head(todo[g]).msg \in Msgs
    BY <2>2 DEF LogInv, LogTypes
  <2>4. sent[Head(todo[g]).msg] \in Nat /\ sent'[Head(todo[g]).msg] \in Nat
    BY <2>3 DEF LogInv, LogTypes
  <2>5. QED
    BY <2>1, <2>3, <2>4
<1>5. Acked'
  BY <1>4 DEF Acked
<1>6. QED
  BY <1>2, <1>3, <1>5 DEF Acking

LEMMA ForwardSentKeeps ==
    ASSUME LogInv, NEW f \in Flushers, Log!ForwardSent(f)
    PROVE  LogInv'
<1>1. PICK h : h = Head(logsToSend[f])
  OBVIOUS
<1>2. /\ logsToSend[f] # <<>> /\ sent' = [sent EXCEPT ![h] = sent[h] + 1]
      /\ logsToSend' = [logsToSend EXCEPT ![f] = Tail(logsToSend[f])]
      /\ UNCHANGED <<unlogged, logging, logBuffer, isProcessing, stage, todo, stash, lost, crashes, refused>>
  BY <1>1 DEF Log!ForwardSent, Log!SendOk, Log!logs, Log!faults
<1>3. /\ h \in Msgs /\ Untouched(h)
      /\ logsToSend' \in [Flushers -> Seq(Msgs)]
      /\ OnePlace' /\ HandsEmpty'
      /\ NoRepeat(logBuffer)' /\ \A g \in Flushers : NoRepeat(logsToSend[g])'
      /\ \A n \in unlogged' \cup logging' : Untouched(n) /\ n # h
      /\ \A n \in Msgs : Buffered(n)' => Untouched(n) /\ n # h
      /\ \A g \in Flushers : \A n \in Msgs : InHand(g, n)' => Untouched(n) /\ n # h
      /\ \A n : Buffered(n)' <=> Buffered(n)
      /\ \A g \in Flushers : \A n : InHand(g, n) => InHand(g, n)' \/ n = h
  BY <1>1, <1>2, HandStep
<1>4. sent \in [Msgs -> Nat] /\ crashes \in Nat /\ refused \in Nat
  BY DEF LogInv, LogTypes
<1>5. /\ sent' \in [Msgs -> Nat] /\ sent'[h] = sent[h] + 1
      /\ \A n \in Msgs : n # h => sent'[n] = sent[n]
  BY <1>2, <1>3, <1>4
<1>6. \A n \in Msgs : sent'[n] >= sent[n]
  <2>1. \A n \in Msgs : sent[n] \in Nat
    BY <1>4
  <2>2. QED
    BY <1>5, <2>1
<1>7. Lists' /\ OneProcesses' /\ Acked' /\ \A e \in stash : Acking(e)' <=> Acking(e)
  BY <1>2, <1>5, <1>6, CallsRest
<1>8. LogTypes'
  BY <1>2, <1>3, <1>5 DEF LogInv, LogTypes
<1>9. \A n : Queued(n)' <=> Queued(n)
  BY <1>2 DEF Queued
<1>10. \A n \in Msgs : n # h => (Untouched(n) => Untouched(n)')
  BY <1>5, <1>9 DEF Untouched
<1>11. unlogged' \cup logging' \subseteq Msgs
  BY <1>8 DEF LogTypes
<1>12. Fresh'
  BY <1>3, <1>10, <1>11 DEF Fresh
<1>13. NoCopies'
  BY <1>2, <1>3 DEF LogInv, NoCopies
<1>14. \A e \in stash : e.msg \in Msgs /\ e.msg # h
  BY <1>3 DEF LogInv, LogTypes, Untouched, Queued
<1>15. Resent'
  BY <1>2, <1>5, <1>7, <1>14 DEF LogInv, Resent
<1>16. sent[h] = 0
  BY <1>3 DEF Untouched
<1>17. ASSUME NEW n \in Msgs PROVE sent'[n] <= 1 + crashes' + refused'
  <2>1. CASE n = h
    BY <1>2, <1>4, <1>5, <1>16, <2>1
  <2>2. CASE n # h
    BY <1>2, <1>5, <2>2 DEF LogInv
  <2>3. QED
    BY <2>1, <2>2
<1>18. ASSUME NEW n \in Msgs PROVE Somewhere(n)'
  <2>1. CASE n = h
    BY <1>5, <1>16, <2>1 DEF Somewhere
  <2>2. CASE n # h
    <3>1. Somewhere(n)
      BY DEF LogInv
    <3>2. QED
      BY <1>2, <1>3, <1>5, <1>9, <2>2, <3>1 DEF Somewhere
  <2>3. QED
    BY <2>1, <2>2
<1>19. QED
  BY <1>3, <1>7, <1>8, <1>12, <1>13, <1>15, <1>17, <1>18 DEF LogInv

\* Without a queue the message that could not be sent goes back to the buffer.
LEMMA ForwardBackKeeps ==
    ASSUME LogInv, NEW f \in Flushers, Log!ForwardFails(f), ~hasQueue
    PROVE  LogInv'
<1>1. PICK h : h = Head(logsToSend[f])
  OBVIOUS
<1>2. PICK r : r = Tail(logsToSend[f])
  OBVIOUS
<1>3. /\ logsToSend[f] # <<>> /\ logBuffer' = Append(logBuffer, h)
      /\ logsToSend' = [logsToSend EXCEPT ![f] = r]
      /\ UNCHANGED <<unlogged, logging, isProcessing, stage, todo, stash, sent, lost, crashes, refused>>
  BY <1>1, <1>2 DEF Log!ForwardFails, Log!Kept, Log!SendFails, Log!net, Log!faults
<1>4. logsToSend \in [Flushers -> Seq(Msgs)] /\ logsToSend[f] \in Seq(Msgs) /\ NoRepeat(logsToSend[f])
  BY DEF LogInv, LogTypes, NoCopies
<1>5. /\ h \in Msgs /\ r \in Seq(Msgs) /\ NoRepeat(r) /\ ~Holds(r, h)
      /\ \A n : InHand(f, n) <=> n = h \/ Holds(r, n)
  BY <1>1, <1>2, <1>3, <1>4, TailHolds DEF InHand
<1>6. InHand(f, h)
  BY <1>5
<1>7. h \notin unlogged /\ h \notin logging /\ ~Buffered(h) /\ Untouched(h)
  BY <1>5, <1>6 DEF LogInv, OnePlace, Fresh
<1>8. logBuffer \in Seq(Msgs) /\ NoRepeat(logBuffer)
  BY DEF LogInv, LogTypes, NoCopies
<1>9. /\ logBuffer' \in Seq(Msgs) /\ NoRepeat(logBuffer')
      /\ \A n : Buffered(n)' <=> n = h \/ Buffered(n)
  BY <1>3, <1>5, <1>7, <1>8, AppendHolds DEF Buffered
<1>10. /\ logsToSend' \in [Flushers -> Seq(Msgs)] /\ logsToSend'[f] = r
       /\ \A g \in Flushers : g # f => logsToSend'[g] = logsToSend[g]
  BY <1>3, <1>4, <1>5
<1>11. \A n : InHand(f, n)' <=> Holds(r, n)
  BY <1>10 DEF InHand
<1>12. \A g \in Flushers : \A n : g # f => (InHand(g, n)' <=> InHand(g, n))
  BY <1>10 DEF InHand
<1>13. \A g \in Flushers : \A n \in Msgs : InHand(g, n)' => InHand(g, n) /\ n # h
  BY <1>5, <1>6, <1>11, <1>12 DEF LogInv, OnePlace
<1>14. LogTypes'
  BY <1>3, <1>9, <1>10 DEF LogInv, LogTypes
<1>15. Lists' /\ OneProcesses' /\ Acked'
  BY <1>3 DEF LogInv, Lists, OneProcesses, Acked, Busy, NoRepeat
<1>16. HandsEmpty'
  BY <1>3, <1>4, <1>5, <1>10 DEF LogInv, HandsEmpty
<1>17. OnePlace'
  <2>1. unlogged \subseteq Msgs /\ logging \subseteq Msgs
    BY DEF LogInv, LogTypes
  <2>2. /\ \A m \in unlogged' : m \notin logging' /\ ~Buffered(m)'
        /\ \A m \in logging' : ~Buffered(m)'
    BY <1>3, <1>7, <1>9 DEF LogInv, OnePlace
  <2>3. \A g \in Flushers : \A m \in Msgs :
          InHand(g, m)' => m \notin unlogged' /\ m \notin logging' /\ ~Buffered(m)'
    BY <1>3, <1>9, <1>13 DEF LogInv, OnePlace
  <2>4. \A g, k \in Flushers : \A m \in Msgs : InHand(g, m)' /\ InHand(k, m)' => g = k
    BY <1>13 DEF LogInv, OnePlace
  <2>5. QED
    BY <2>2, <2>3, <2>4 DEF OnePlace
<1>18. NoRepeat(logBuffer)' /\ \A g \in Flushers : NoRepeat(logsToSend[g])'
  BY <1>5, <1>9, <1>10 DEF LogInv, NoCopies
<1>19. \A e \in stash : Acking(e)' <=> Acking(e)
  BY <1>3 DEF Acking
<1>20. /\ \A n \in unlogged' \cup logging' : Untouched(n)
       /\ \A n \in Msgs : Buffered(n)' => Untouched(n)
       /\ \A g \in Flushers : \A n \in Msgs : InHand(g, n)' => Untouched(n)
  BY <1>3, <1>7, <1>9, <1>13 DEF LogInv, Fresh
<1>21. ASSUME NEW n \in Msgs PROVE Somewhere(n)'
  <2>1. Somewhere(n) /\ (Queued(n)' <=> Queued(n))
    BY <1>3 DEF LogInv, Queued
  <2>2. CASE n = h
    BY <1>9, <2>2 DEF Somewhere
  <2>3. CASE n # h
    <3>1. \A g \in Flushers : InHand(g, n) => InHand(g, n)'
      BY <1>5, <1>11, <1>12, <2>3
    <3>2. QED
      BY <1>3, <1>9, <2>1, <3>1 DEF Somewhere
  <2>4. QED
    BY <2>2, <2>3
<1>22. QED
  BY <1>3, <1>14, <1>15, <1>16, <1>17, <1>18, <1>19, <1>20, <1>21, MemoryStep

LEMMA ForwardFailsKeeps ==
    ASSUME LogInv, NEW f \in Flushers, Log!ForwardFails(f), hasQueue
    PROVE  LogInv'
<1>1. PICK h : h = Head(logsToSend[f])
  OBVIOUS
<1>2. PICK new : new = Log!Entry(h, 0, FALSE)
  OBVIOUS
<1>3. /\ logsToSend[f] # <<>> /\ stash' = stash \cup {new}
      /\ logsToSend' = [logsToSend EXCEPT ![f] = Tail(logsToSend[f])]
      /\ UNCHANGED <<unlogged, logging, logBuffer, isProcessing, stage, todo, sent, lost, crashes, refused>>
  BY <1>1, <1>2 DEF Log!ForwardFails, Log!Kept, Log!SendFails, Log!net, Log!faults
<1>4. new.msg = h
  BY <1>2 DEF Log!Entry
<1>5. /\ h \in Msgs /\ Untouched(h)
      /\ logsToSend' \in [Flushers -> Seq(Msgs)]
      /\ OnePlace' /\ HandsEmpty'
      /\ NoRepeat(logBuffer)' /\ \A g \in Flushers : NoRepeat(logsToSend[g])'
      /\ \A n \in unlogged' \cup logging' : Untouched(n) /\ n # h
      /\ \A n \in Msgs : Buffered(n)' => Untouched(n) /\ n # h
      /\ \A g \in Flushers : \A n \in Msgs : InHand(g, n)' => Untouched(n) /\ n # h
      /\ \A n : Buffered(n)' <=> Buffered(n)
      /\ \A g \in Flushers : \A n : InHand(g, n) => InHand(g, n)' \/ n = h
  BY <1>1, <1>3, HandStep
<1>6. sent \in [Msgs -> Nat] /\ crashes \in Nat /\ refused \in Nat /\ IsFiniteSet(stash) /\ \A e \in stash : e.msg \in Msgs
  BY DEF LogInv, LogTypes
<1>7. sent' \in [Msgs -> Nat] /\ (\A n \in Msgs : sent'[n] >= sent[n]) /\ stash \subseteq stash'
  BY <1>3, <1>6
<1>8. Lists' /\ OneProcesses' /\ Acked' /\ \A e \in stash : Acking(e)' <=> Acking(e)
  BY <1>3, <1>7, CallsRest
<1>9. IsFiniteSet(stash')
  BY <1>3, <1>6, FS_AddElement
<1>10. LogTypes'
  BY <1>3, <1>4, <1>5, <1>6, <1>9 DEF LogInv, LogTypes
<1>11. \A n : Queued(n)' <=> Queued(n) \/ n = h
  BY <1>3, <1>4 DEF Queued
<1>12. \A n \in Msgs : n # h => (Untouched(n) => Untouched(n)')
  BY <1>3, <1>11 DEF Untouched
<1>13. unlogged' \cup logging' \subseteq Msgs
  BY <1>10 DEF LogTypes
<1>14. Fresh'
  BY <1>5, <1>12, <1>13 DEF Fresh
<1>15. \A e \in stash : e.msg # h
  BY <1>5 DEF Untouched, Queued
<1>16. NoCopies'
  BY <1>3, <1>4, <1>5, <1>15 DEF LogInv, NoCopies
<1>17. sent[h] = 0
  BY <1>5 DEF Untouched
<1>18. Resent'
  BY <1>3, <1>4, <1>6, <1>8, <1>17 DEF LogInv, Resent
<1>19. \A n \in Msgs : sent'[n] <= 1 + crashes' + refused'
  BY <1>3 DEF LogInv
<1>20. \A n \in Msgs : Somewhere(n)'
  BY <1>3, <1>5, <1>11 DEF LogInv, Somewhere
<1>21. QED
  BY <1>5, <1>8, <1>10, <1>14, <1>16, <1>18, <1>19, <1>20 DEF LogInv

\* What one read of the list returns: entries of the queue, each once.
LEMMA BatchHolds ==
    ASSUME IsFiniteSet(stash), NEW l \in Log!Batches
    PROVE  l \in Seq(stash) /\ NoRepeat(l)
<1>1. PICK t \in SUBSET stash : l \in Log!SetToSeqs(t)
  BY DEF Log!Batches
<1>2. IsFiniteSet(t)
  BY <1>1, FS_Subset
<1>3. Cardinality(t) \in Nat
  BY <1>2, FS_CardinalityType
<1>4. Log!Cardinality(t) = Cardinality(t)
  BY DEF Log!Cardinality, Cardinality
<1>5. PICK k \in Nat : k = Log!Cardinality(t)
  BY <1>3, <1>4
<1>6. l \in [1 .. k -> t] /\ \A i, j \in 1 .. k : i # j => l[i] # l[j]
  BY <1>1, <1>5 DEF Log!SetToSeqs
<1>7. l \in Seq(stash) /\ Len(l) = k
  BY <1>1, <1>6
<1>8. QED
  BY <1>6, <1>7 DEF NoRepeat

\* A step in the queue: no message moves in memory.
LEMMA QueueStep ==
    ASSUME LogInv, LogTypes', Lists', OneProcesses', Acked', HandsEmpty', Resent',
           \A d, e \in stash' : d.msg = e.msg => d = e,
           \A n \in Msgs : Untouched(n) => Untouched(n)',
           \A n \in Msgs : Queued(n) => Queued(n)' \/ sent'[n] > 0,
           \A n \in Msgs : sent[n] > 0 => sent'[n] > 0,
           \A n \in Msgs : sent'[n] <= 1 + crashes' + refused',
           UNCHANGED <<unlogged, logging, logBuffer, logsToSend, lost>>
    PROVE  LogInv'
<1>1. /\ OnePlace' /\ NoRepeat(logBuffer)' /\ \A g \in Flushers : NoRepeat(logsToSend[g])'
      /\ \A m \in Msgs : /\ Buffered(m)' <=> Buffered(m)
                         /\ \A g \in Flushers : InHand(g, m)' <=> InHand(g, m)
  BY PlacesStay
<1>2. NoCopies'
  BY <1>1 DEF NoCopies
<1>3. unlogged \cup logging \subseteq Msgs
  BY DEF LogInv, LogTypes
<1>4. Fresh'
  BY <1>1, <1>3 DEF LogInv, Fresh
<1>5. ASSUME NEW n \in Msgs PROVE Somewhere(n)'
  <2>1. Somewhere(n)
    BY DEF LogInv
  <2>2. QED
    BY <1>1, <2>1 DEF Somewhere
<1>6. QED
  BY <1>1, <1>2, <1>4, <1>5 DEF LogInv

LEMMA BeginKeeps ==
    ASSUME LogInv, NEW f \in Flushers, Log!FlushBegin(f)
    PROVE  LogInv'
<1>1. /\ stage[f] = "idle"
      /\ UNCHANGED <<unlogged, logging, logBuffer, logsToSend, stash, sent, lost, crashes, refused>>
  BY DEF Log!FlushBegin, Log!Called, Log!logs, Log!net, Log!faults
<1>2. ~Busy(f) /\ logsToSend[f] = <<>>
  BY <1>1 DEF Busy, LogInv, HandsEmpty
<1>3. CASE isProcessing
  <2>1. stage' = [stage EXCEPT ![f] = "take"] /\ UNCHANGED <<isProcessing, todo>>
    BY <1>3 DEF Log!FlushBegin
  <2>2. QED
    BY <1>1, <1>2, <2>1, IdleStep
<1>4. CASE ~isProcessing
  <2>1. PICK l \in Log!Batches : todo' = [todo EXCEPT ![f] = l]
    BY <1>4 DEF Log!FlushBegin
  <2>2. isProcessing' /\ stage' = [stage EXCEPT ![f] = "process"]
    BY <1>4 DEF Log!FlushBegin
  <2>3. l \in Seq(stash) /\ NoRepeat(l)
    BY BatchHolds DEF LogInv, LogTypes
  <2>4. /\ stage' \in [Flushers -> {"idle", "process", "ack", "take", "forward", "done"}]
        /\ stage'[f] = "process" /\ \A g \in Flushers : g # f => stage'[g] = stage[g]
    BY <2>2 DEF LogInv, LogTypes
  <2>5. /\ todo' = [g \in Flushers |-> todo'[g]] /\ todo'[f] = l
        /\ \A g \in Flushers : g # f => todo'[g] = todo[g]
    BY <2>1 DEF LogInv, Lists
  <2>6. \A g \in Flushers : ~Busy(g)
    BY <1>4 DEF LogInv, OneProcesses
  <2>7. Busy(f)' /\ \A g \in Flushers : g # f => ~Busy(g)'
    BY <2>4, <2>6 DEF Busy
  <2>8. LogTypes'
    BY <1>1, <2>4 DEF LogInv, LogTypes
  <2>9. Lists'
    BY <1>1, <2>3, <2>5, <2>6, <2>7 DEF LogInv, Lists
  <2>10. OneProcesses'
    BY <2>2, <2>7 DEF OneProcesses
  <2>11. \A g \in Flushers : stage[g] # "ack" /\ stage'[g] # "ack"
    BY <2>4, <2>6 DEF Busy
  <2>12. Acked'
    BY <2>11 DEF Acked
  <2>13. HandsEmpty'
    BY <1>1, <1>2, <2>4 DEF LogInv, HandsEmpty
  <2>14. Resent'
    BY <1>1, <2>11 DEF LogInv, Resent, Acking
  <2>15. /\ \A n \in Msgs : Untouched(n)' <=> Untouched(n)
         /\ \A d, e \in stash' : d.msg = e.msg => d = e
         /\ \A n \in Msgs : (Queued(n)' <=> Queued(n)) /\ sent'[n] = sent[n]
    BY <1>1, QueueStays
  <2>16. \A n \in Msgs : sent'[n] <= 1 + crashes' + refused'
    BY <1>1 DEF LogInv
  <2>17. QED
    BY <1>1, <2>8, <2>9, <2>10, <2>12, <2>13, <2>14, <2>15, <2>16, QueueStep
<1>5. QED
  BY <1>3, <1>4

LEMMA EndKeeps ==
    ASSUME LogInv, NEW f \in Flushers, Log!ProcessEnd(f)
    PROVE  LogInv'
<1>1. /\ stage[f] = "process" /\ todo[f] = <<>> /\ stage' = [stage EXCEPT ![f] = "take"]
      /\ UNCHANGED <<unlogged, logging, logBuffer, logsToSend, todo, stash, sent, lost, crashes, refused>>
  BY DEF Log!ProcessEnd, Log!logs, Log!net, Log!faults
<1>2. /\ stage' \in [Flushers -> {"idle", "process", "ack", "take", "forward", "done"}]
      /\ stage'[f] = "take" /\ \A g \in Flushers : g # f => stage'[g] = stage[g]
  BY <1>1 DEF LogInv, LogTypes
<1>3. Busy(f)
  BY <1>1 DEF Busy
<1>4. \A g \in Flushers : ~Busy(g)' /\ stage'[g] # "ack"
  <2>1. \A g \in Flushers : g # f => ~Busy(g)
    BY <1>3 DEF LogInv, OneProcesses
  <2>2. QED
    BY <1>2, <2>1 DEF Busy
<1>5. \A g \in Flushers : stage[g] # "ack"
  BY <1>1, <1>2, <1>4
<1>6. \A g \in Flushers : todo[g] = <<>>
  BY <1>1, <1>2, <1>4 DEF LogInv, Lists, Busy
<1>7. LogTypes'
  BY <1>1, <1>2 DEF LogInv, LogTypes
<1>8. Lists'
  BY <1>1, <1>6 DEF LogInv, Lists
<1>9. OneProcesses' /\ Acked'
  BY <1>4 DEF OneProcesses, Acked
<1>10. HandsEmpty'
  BY <1>1, <1>2 DEF LogInv, HandsEmpty
<1>11. Resent'
  BY <1>1, <1>5 DEF LogInv, Resent, Acking
<1>12. /\ \A n \in Msgs : Untouched(n)' <=> Untouched(n)
       /\ \A d, e \in stash' : d.msg = e.msg => d = e
       /\ \A n \in Msgs : (Queued(n)' <=> Queued(n)) /\ sent'[n] = sent[n]
  BY <1>1, QueueStays
<1>13. \A n \in Msgs : sent'[n] <= 1 + crashes' + refused'
  BY <1>1 DEF LogInv
<1>14. QED
  BY <1>1, <1>7, <1>8, <1>9, <1>10, <1>11, <1>12, <1>13, QueueStep

\* The one call that processes the queue is at the head of its list.
LEMMA ListHead ==
    ASSUME LogInv, NEW f \in Flushers, Busy(f), todo[f] # <<>>
    PROVE  /\ todo[f] \in Seq(stash) /\ Head(todo[f]) \in stash /\ Head(todo[f]).msg \in Msgs
           /\ \A g \in Flushers : g # f => ~Busy(g) /\ stage[g] # "ack" /\ todo[g] = <<>>
           /\ \A e \in stash : Acking(e) <=> stage[f] = "ack" /\ e = Head(todo[f])
<1>1. todo[f] \in Seq(stash) /\ Head(todo[f]) \in stash
  BY DEF LogInv, Lists
<1>2. Head(todo[f]).msg \in Msgs
  BY <1>1 DEF LogInv, LogTypes
<1>3. \A g \in Flushers : g # f => ~Busy(g) /\ todo[g] = <<>>
  BY DEF LogInv, OneProcesses, Lists
<1>4. \A g \in Flushers : g # f => stage[g] # "ack"
  BY <1>3 DEF Busy
<1>5. QED
  BY <1>1, <1>2, <1>3, <1>4 DEF Acking

\* It goes on to the next entry, and the head may be taken from the queue.
LEMMA ListTail ==
    ASSUME LogInv, NEW f \in Flushers, Busy(f), todo[f] # <<>>,
           stash \ {Head(todo[f])} \subseteq stash',
           todo' = [todo EXCEPT ![f] = Tail(todo[f])], stage'[f] = "process",
           \A g \in Flushers : g # f => stage'[g] = stage[g], isProcessing' = isProcessing
    PROVE  /\ Lists' /\ OneProcesses' /\ Acked' /\ \A g \in Flushers : stage'[g] # "ack"
<1>1. /\ todo[f] \in Seq(stash) /\ NoRepeat(todo[f])
      /\ \A g \in Flushers : g # f => ~Busy(g) /\ stage[g] # "ack" /\ todo[g] = <<>>
  BY ListHead DEF LogInv, Lists
<1>2. PICK h : h = Head(todo[f])
  OBVIOUS
<1>3. PICK r : r = Tail(todo[f])
  OBVIOUS
<1>4. r \in Seq(stash) /\ NoRepeat(r) /\ ~Holds(r, h)
  BY <1>1, <1>2, <1>3, TailHolds
<1>5. \A i \in 1 .. Len(r) : r[i] \in stash'
  <2>1. SUFFICES ASSUME NEW i \in 1 .. Len(r) PROVE r[i] \in stash'
    OBVIOUS
  <2>2. r[i] \in stash
    BY <1>4, <2>1
  <2>3. r[i] # h
    BY <1>4, <2>1 DEF Holds
  <2>4. QED
    BY <1>2, <2>2, <2>3
<1>6. r \in Seq(stash')
  BY <1>4, <1>5
<1>7. /\ todo' = [g \in Flushers |-> todo'[g]] /\ todo'[f] = r
      /\ \A g \in Flushers : g # f => todo'[g] = todo[g]
  BY <1>3 DEF LogInv, Lists
<1>8. Busy(f)' /\ \A g \in Flushers : (g # f => ~Busy(g)') /\ stage'[g] # "ack"
  BY <1>1 DEF Busy
<1>9. <<>> \in Seq(stash')
  OBVIOUS
<1>10. Lists'
  BY <1>1, <1>4, <1>6, <1>7, <1>8, <1>9, EmptyHolds DEF Lists
<1>11. OneProcesses'
  BY <1>8 DEF LogInv, OneProcesses
<1>12. Acked'
  BY <1>8 DEF Acked
<1>13. QED
  BY <1>8, <1>10, <1>11, <1>12

LEMMA EntrySentKeeps ==
    ASSUME LogInv, NEW f \in Flushers, Log!EntrySent(f)
    PROVE  LogInv'
<1>1. PICK h : h = Head(todo[f])
  OBVIOUS
<1>2. PICK m : m = h.msg
  OBVIOUS
<1>3. /\ stage[f] = "process" /\ todo[f] # <<>> /\ sent' = [sent EXCEPT ![m] = sent[m] + 1]
      /\ stage' = [stage EXCEPT ![f] = "ack"]
      /\ UNCHANGED <<unlogged, logging, logBuffer, logsToSend, isProcessing, todo, stash, lost, crashes, refused>>
  BY <1>1, <1>2 DEF Log!EntrySent, Log!SendOk, Log!logs, Log!faults
<1>4. Busy(f)
  BY <1>3 DEF Busy
<1>5. /\ h \in stash /\ m \in Msgs
      /\ \A g \in Flushers : g # f => ~Busy(g) /\ stage[g] # "ack" /\ todo[g] = <<>>
      /\ \A e \in stash : ~Acking(e)
  BY <1>1, <1>2, <1>3, <1>4, ListHead
<1>6. /\ stage' \in [Flushers -> {"idle", "process", "ack", "take", "forward", "done"}]
      /\ stage'[f] = "ack" /\ \A g \in Flushers : g # f => stage'[g] = stage[g]
  BY <1>3 DEF LogInv, LogTypes
<1>7. sent \in [Msgs -> Nat] /\ crashes \in Nat /\ refused \in Nat
  BY DEF LogInv, LogTypes
<1>8. /\ sent' \in [Msgs -> Nat] /\ sent'[m] = sent[m] + 1 /\ sent[m] \in Nat
      /\ \A n \in Msgs : n # m => sent'[n] = sent[n]
  BY <1>3, <1>5, <1>7
<1>9. \A e \in stash : sent[e.msg] <= crashes + refused
  BY <1>5 DEF LogInv, Resent
<1>10. LogTypes'
  BY <1>3, <1>6, <1>8 DEF LogInv, LogTypes
<1>11. \A g \in Flushers : Busy(g)' <=> Busy(g)
  BY <1>4, <1>6 DEF Busy
<1>12. Lists' /\ OneProcesses'
  BY <1>3, <1>11 DEF LogInv, Lists, OneProcesses
<1>13. sent'[m] > 0
  BY <1>8
<1>14. Acked'
  BY <1>1, <1>2, <1>3, <1>5, <1>6, <1>13 DEF Acked
<1>15. HandsEmpty'
  BY <1>3, <1>6 DEF LogInv, HandsEmpty
<1>16. Acking(h)'
  BY <1>1, <1>3, <1>6 DEF Acking
<1>17. ASSUME NEW e \in stash PROVE sent'[e.msg] <= crashes' + refused' \/ Acking(e)'
  <2>1. CASE e.msg = m
    <3>1. e = h
      BY <1>2, <1>5, <2>1 DEF LogInv, NoCopies
    <3>2. QED
      BY <1>16, <3>1
  <2>2. CASE e.msg # m
    <3>1. e.msg \in Msgs
      BY DEF LogInv, LogTypes
    <3>2. QED
      BY <1>3, <1>8, <1>9, <2>2, <3>1
  <2>3. QED
    BY <2>1, <2>2
<1>18. Resent'
  BY <1>3, <1>17 DEF Resent
<1>19. \A d, e \in stash' : d.msg = e.msg => d = e
  BY <1>3 DEF LogInv, NoCopies
<1>20. \A n : Queued(n)' <=> Queued(n)
  BY <1>3 DEF Queued
<1>21. Queued(m)
  BY <1>2, <1>5 DEF Queued
<1>22. \A n \in Msgs : Untouched(n) => Untouched(n)'
  BY <1>8, <1>20, <1>21 DEF Untouched
<1>23. \A n \in Msgs : sent[n] > 0 => sent'[n] > 0
  BY <1>8, <1>13
<1>24. ASSUME NEW n \in Msgs PROVE sent'[n] <= 1 + crashes' + refused'
  <2>1. CASE n = m
    <3>1. sent[m] <= crashes + refused
      BY <1>2, <1>5, <1>9
    <3>2. QED
      BY <1>3, <1>7, <1>8, <2>1, <3>1
  <2>2. CASE n # m
    BY <1>3, <1>8, <2>2 DEF LogInv
  <2>3. QED
    BY <2>1, <2>2
<1>25. QED
  BY <1>3, <1>10, <1>12, <1>14, <1>15, <1>18, <1>19, <1>20, <1>22, <1>23, <1>24, QueueStep

\* The entry at the head is deleted after it was sent, or written back.
LEMMA HeadStep ==
    ASSUME LogInv, NEW f \in Flushers, Busy(f), todo[f] # <<>>,
           stash \ {Head(todo[f])} \subseteq stash', IsFiniteSet(stash'),
           \A e \in stash' : \/ e \in stash /\ e # Head(todo[f])
                             \/ /\ e.msg = Head(todo[f]).msg
                                /\ stage[f] # "ack" \/ refused' = refused + 1,
           \A d, e \in stash' : d.msg = e.msg => d = e,
           stage[f] # "ack" => \E e \in stash' : e.msg = Head(todo[f]).msg,
           todo' = [todo EXCEPT ![f] = Tail(todo[f])], stage' = [stage EXCEPT ![f] = "process"],
           UNCHANGED <<unlogged, logging, logBuffer, logsToSend, isProcessing, sent, lost, crashes>>,
           refused' \in {refused, refused + 1}
    PROVE  LogInv'
<1>0. crashes \in Nat /\ refused \in Nat /\ refused' \in Nat /\ refused' >= refused
  BY DEF LogInv, LogTypes
<1>1. PICK h : h = Head(todo[f])
  OBVIOUS
<1>2. /\ h \in stash /\ h.msg \in Msgs
      /\ \A g \in Flushers : g # f => ~Busy(g) /\ stage[g] # "ack" /\ todo[g] = <<>>
      /\ \A e \in stash : Acking(e) <=> stage[f] = "ack" /\ e = h
  BY <1>1, ListHead
<1>3. /\ stage' \in [Flushers -> {"idle", "process", "ack", "take", "forward", "done"}]
      /\ stage'[f] = "process" /\ \A g \in Flushers : g # f => stage'[g] = stage[g]
  BY DEF LogInv, LogTypes
<1>4. /\ Lists' /\ OneProcesses' /\ Acked' /\ \A g \in Flushers : stage'[g] # "ack"
  BY <1>3, ListTail
<1>5. \A e \in stash' : e.msg \in Msgs
  BY <1>1, <1>2 DEF LogInv, LogTypes
<1>6. LogTypes'
  BY <1>0, <1>3, <1>5 DEF LogInv, LogTypes
<1>7. stage[f] # "forward"
  BY DEF Busy
<1>8. HandsEmpty'
  BY <1>3, <1>7 DEF LogInv, HandsEmpty
<1>9. ASSUME NEW e \in stash' PROVE sent[e.msg] <= crashes + refused'
  <2>1. CASE e \in stash /\ e # h
    <3>1. sent[e.msg] <= crashes + refused /\ sent[e.msg] \in Nat
      BY <1>2, <1>5, <1>9, <2>1 DEF LogInv, LogTypes, Resent
    <3>2. QED
      BY <1>0, <3>1
  <2>2. CASE e.msg = h.msg /\ stage[f] # "ack"
    <3>1. sent[h.msg] <= crashes + refused /\ sent[h.msg] \in Nat
      BY <1>2, <2>2 DEF LogInv, LogTypes, Resent
    <3>2. QED
      BY <1>0, <2>2, <3>1
  <2>3. CASE e.msg = h.msg /\ refused' = refused + 1
    <3>1. sent[h.msg] <= 1 + crashes + refused /\ sent[h.msg] \in Nat
      BY <1>2 DEF LogInv, LogTypes
    <3>2. QED
      BY <1>0, <2>3, <3>1
  <2>4. QED
    BY <1>1, <1>9, <2>1, <2>2, <2>3
<1>10. Resent'
  BY <1>9 DEF Resent
<1>11. \A n \in Msgs : Queued(n)' => Queued(n)
  BY <1>1, <1>2 DEF Queued
<1>12. \A n \in Msgs : Untouched(n) => Untouched(n)'
  BY <1>11 DEF Untouched
<1>13. ASSUME NEW n \in Msgs, Queued(n) PROVE Queued(n)' \/ sent'[n] > 0
  <2>1. PICK e \in stash : e.msg = n
    BY <1>13 DEF Queued
  <2>2. CASE e # h
    BY <1>1, <2>1, <2>2 DEF Queued
  <2>3. CASE e = h /\ stage[f] # "ack"
    BY <1>1, <2>1, <2>3 DEF Queued
  <2>4. CASE e = h /\ stage[f] = "ack"
    BY <1>1, <2>1, <2>4 DEF LogInv, Acked
  <2>5. QED
    BY <2>2, <2>3, <2>4
<1>14. \A n \in Msgs : sent'[n] <= 1 + crashes' + refused'
  <2>1. \A n \in Msgs : sent[n] <= 1 + crashes + refused /\ sent[n] \in Nat
    BY DEF LogInv, LogTypes
  <2>2. QED
    BY <1>0, <2>1
<1>15. \A n \in Msgs : sent[n] > 0 => sent'[n] > 0
  OBVIOUS
<1>16. QED
  BY <1>4, <1>6, <1>8, <1>10, <1>12, <1>13, <1>14, <1>15, QueueStep

LEMMA EntryKeeps ==
    ASSUME LogInv, NEW f \in Flushers, Log!EntryDelete(f) \/ Log!EntryFails(f)
    PROVE  LogInv'
<1>1. stage[f] \in {"ack", "process"} /\ todo[f] # <<>>
  BY DEF Log!EntryDelete, Log!EntryFails, LogInv, Acked
<1>2. Busy(f)
  BY <1>1 DEF Busy
<1>3. PICK h : h = Head(todo[f])
  OBVIOUS
<1>4. h \in stash /\ IsFiniteSet(stash) /\ IsFiniteSet(stash \ {h})
  BY <1>1, <1>2, <1>3, ListHead, FS_RemoveElement DEF LogInv, LogTypes
<1>5. \A d, e \in stash : d.msg = e.msg => d = e
  BY DEF LogInv, NoCopies
<1>6. CASE Log!EntryDelete(f) /\ refused' = refused /\ stash' = stash \ {h}
  <2>1. /\ stage[f] = "ack" /\ stash' = stash \ {h} /\ stage' = [stage EXCEPT ![f] = "process"]
        /\ todo' = [todo EXCEPT ![f] = Tail(todo[f])]
        /\ UNCHANGED <<unlogged, logging, logBuffer, logsToSend, isProcessing, sent, lost, crashes>>
    BY <1>3, <1>6 DEF Log!EntryDelete, Log!logs, Log!net
  <2>2. IsFiniteSet(stash') /\ \A d, e \in stash' : d.msg = e.msg => d = e
    BY <1>4, <1>5, <2>1
  <2>3. QED
    BY <1>1, <1>2, <1>3, <1>6, <2>1, <2>2, HeadStep
<1>7. CASE Log!EntryFails(f) \/ (Log!EntryDelete(f) /\ refused' = refused + 1 /\ stash' = Log!HandleFailure(h))
  <2>1. /\ stash' = Log!HandleFailure(h) /\ refused' \in {refused, refused + 1}
        /\ stage[f] # "ack" \/ refused' = refused + 1
        /\ todo' = [todo EXCEPT ![f] = Tail(todo[f])]
        /\ UNCHANGED <<unlogged, logging, logBuffer, logsToSend, isProcessing, sent, lost, crashes>>
    BY <1>3, <1>7 DEF Log!EntryFails, Log!EntryDelete, Log!SendFails, Log!logs, Log!net, Log!faults
  <2>2. stage' = [stage EXCEPT ![f] = "process"]
    BY <1>7 DEF LogInv, LogTypes, Log!EntryFails, Log!EntryDelete
  <2>3. PICK new : stash' = (stash \ {h}) \cup {new} /\ new.msg = h.msg
    <3>1. PICK n, d : stash' = (stash \ {h}) \cup {[msg |-> h.msg, attempts |-> n, dlq |-> d]}
      <4>1. CASE h.attempts + 1 >= MaxAttempts
        BY <2>1, <4>1 DEF Log!HandleFailure, Log!Entry
      <4>2. CASE ~(h.attempts + 1 >= MaxAttempts)
        BY <2>1, <4>2 DEF Log!HandleFailure, Log!Entry
      <4>3. QED
        BY <4>1, <4>2
    <3>2. [msg |-> h.msg, attempts |-> n, dlq |-> d].msg = h.msg
      OBVIOUS
    <3>3. QED
      BY <3>1, <3>2
  <2>4. IsFiniteSet(stash')
    BY <1>4, <2>3, FS_AddElement
  <2>5. \A d, e \in stash' : d.msg = e.msg => d = e
    BY <1>4, <1>5, <2>3
  <2>6. \E e \in stash' : e.msg = h.msg
    BY <2>3
  <2>7. \A e \in stash' : \/ e \in stash /\ e # h
                          \/ e.msg = h.msg /\ (stage[f] # "ack" \/ refused' = refused + 1)
    BY <2>1, <2>3
  <2>8. QED
    BY <1>1, <1>2, <1>3, <2>1, <2>2, <2>3, <2>4, <2>5, <2>6, <2>7, HeadStep
<1>8. QED
  BY <1>3, <1>6, <1>7 DEF Log!EntryDelete

\* What is in memory is lost, and an entry that was sent but not deleted will
\* be sent again.
LEMMA LogCrashKeeps ==
    ASSUME LogInv, Log!Crash
    PROVE  LogInv'
<1>1. /\ crashes' = crashes + 1 /\ lost' = lost \cup Log!InMemory
      /\ logging' = {} /\ logBuffer' = <<>>
      /\ stage' = [f \in Flushers |-> "idle"] /\ todo' = [f \in Flushers |-> <<>>]
      /\ logsToSend' = [f \in Flushers |-> <<>>] /\ UNCHANGED <<unlogged, stash, sent, refused>>
  BY DEF Log!Crash
<1>2. \A n : ~Buffered(n)' /\ \A f \in Flushers : ~InHand(f, n)'
  BY <1>1, EmptyHolds DEF Buffered, InHand
<1>3. \A f \in Flushers : ~Busy(f)' /\ todo'[f] = <<>> /\ stage'[f] # "ack" /\ logsToSend'[f] = <<>>
  BY <1>1 DEF Busy
<1>4. <<>> \in Seq(stash') /\ <<>> \in Seq(Msgs)
  OBVIOUS
<1>5. sent \in [Msgs -> Nat] /\ crashes \in Nat /\ refused \in Nat /\ \A e \in stash : e.msg \in Msgs
  BY DEF LogInv, LogTypes
<1>6. LogTypes'
  BY <1>1, <1>4 DEF LogInv, LogTypes
<1>7. Lists'
  BY <1>1, <1>3, <1>4, EmptyHolds DEF Lists
<1>8. OneProcesses' /\ Acked' /\ HandsEmpty'
  BY <1>3 DEF OneProcesses, Acked, HandsEmpty
<1>9. OnePlace'
  BY <1>1, <1>2 DEF OnePlace
<1>10. \A m \in Msgs : Untouched(m)' <=> Untouched(m)
  BY <1>1, QueueStays
<1>11. unlogged \subseteq Msgs
  BY DEF LogInv, LogTypes
<1>12. Fresh'
  BY <1>1, <1>2, <1>10, <1>11 DEF LogInv, Fresh
<1>13. NoCopies'
  BY <1>1, <1>3, EmptyHolds DEF LogInv, NoCopies
<1>14. \A m \in Msgs : sent[m] <= 1 + crashes + refused
  BY DEF LogInv
<1>15. \A m \in Msgs : sent'[m] <= crashes' + refused' /\ sent'[m] <= 1 + crashes' + refused'
  BY <1>1, <1>5, <1>14
<1>16. Resent'
  BY <1>1, <1>5, <1>15 DEF Resent
<1>17. ASSUME NEW m \in Msgs PROVE Somewhere(m)'
  <2>1. Somewhere(m) /\ (Queued(m)' <=> Queued(m))
    BY <1>1 DEF LogInv, Queued
  <2>2. logBuffer \in Seq(Msgs) /\ logsToSend \in [Flushers -> Seq(Msgs)]
    BY DEF LogInv, LogTypes
  <2>3. Buffered(m) => m \in Log!ToSet(logBuffer)
    BY <2>2 DEF Buffered, Holds, Log!ToSet
  <2>4. \A f \in Flushers : InHand(f, m) => m \in Log!ToSet(logsToSend[f])
    BY <2>2 DEF InHand, Holds, Log!ToSet
  <2>5. m \in logging \/ Buffered(m) \/ (\E f \in Flushers : InHand(f, m)) => m \in lost'
    BY <1>1, <2>3, <2>4 DEF Log!InMemory
  <2>6. m \in lost => m \in lost'
    BY <1>1
  <2>7. QED
    BY <1>1, <2>1, <2>5, <2>6 DEF Somewhere
<1>18. QED
  BY <1>6, <1>7, <1>8, <1>9, <1>12, <1>13, <1>15, <1>16, <1>17 DEF LogInv

LEMMA CallKeeps ==
    ASSUME LogInv, NEW f \in Flushers, Log!ForwardEnd(f) \/ Log!Rearm(f) \/ Log!Shutdown(f)
    PROVE  LogInv'
<1>1. UNCHANGED <<unlogged, logging, logBuffer, isProcessing, todo, logsToSend, stash, sent,
                  lost, crashes, refused>>
  BY DEF Log!ForwardEnd, Log!Rearm, Log!Shutdown, Log!logs, Log!net, Log!faults
<1>2. ~Busy(f) /\ logsToSend[f] = <<>>
  BY DEF Log!ForwardEnd, Log!Rearm, Log!Shutdown, Busy, LogInv, HandsEmpty
<1>3. PICK p \in {"idle", "done"} : stage' = [stage EXCEPT ![f] = p]
  BY DEF Log!ForwardEnd, Log!Rearm, Log!Shutdown
<1>4. QED
  BY <1>1, <1>2, <1>3, IdleStep

LEMMA LogStep == LogInv /\ [Log!Next]_Log!vars => LogInv'
<1>1. SUFFICES ASSUME LogInv, [Log!Next]_Log!vars PROVE LogInv'
  OBVIOUS
<1>2. ASSUME NEW m \in Msgs, Log!Log(m) PROVE LogInv'
  BY <1>1, <1>2, LogKeeps
<1>3. CASE Log!LogDone
  BY <1>1, <1>3, LogDoneKeeps
<1>4. CASE Log!Crash
  BY <1>1, <1>4, LogCrashKeeps
<1>5. CASE Log!SetKv \/ Log!Close \/ Log!Outage \/ Log!Back \/ UNCHANGED Log!vars
  <2>1. UNCHANGED <<unlogged, logging, logBuffer, isProcessing, stage, todo, logsToSend,
                    stash, sent, lost, crashes, refused>>
    BY <1>5 DEF Log!SetKv, Log!Close, Log!Outage, Log!Back, Log!vars, Log!logs, Log!net, Log!faults
  <2>2. QED
    BY <1>1, <2>1, LogStutter
<1>6. ASSUME NEW f \in Flushers, Log!FlushStep(f) \/ Log!Shutdown(f) PROVE LogInv'
  <2>1. CASE Log!FlushBegin(f) \/ Log!EntrySent(f) \/ Log!ProcessEnd(f)
    BY <1>1, <2>1, BeginKeeps, EntrySentKeeps, EndKeeps
  <2>2. CASE Log!EntryDelete(f) \/ Log!EntryFails(f)
    BY <1>1, <2>2, EntryKeeps
  <2>3. CASE Log!TakeBuffer(f) \/ Log!ForwardSent(f) \/ Log!ForwardFails(f)
    BY <1>1, <2>3, TakeKeeps, ForwardSentKeeps, ForwardFailsKeeps, ForwardBackKeeps
  <2>4. CASE Log!ForwardEnd(f) \/ Log!Rearm(f) \/ Log!Shutdown(f)
    BY <1>1, <2>4, CallKeeps
  <2>5. QED
    BY <1>6, <2>1, <2>2, <2>3, <2>4 DEF Log!FlushStep
<1>7. QED
  BY <1>1, <1>2, <1>3, <1>4, <1>5, <1>6 DEF Log!Next

\* No message that log() took is lost without a trace: it is in memory, in the
\* persistent queue or at the server, unless the buffer's limit or a crash took
\* it, with any number of overlapping flushes and outages (bufferLog, flushLogs,
\* PersistentQueue.process).
THEOREM MessagesAccounted == Log!Spec => []Accounted
  BY LogInit, LogStep, LogSuffices, PTL DEF Log!Spec, Accounted

\* The server sees a message once, and once more for every crash between a send
\* and the deletion of its entry and for every deletion that the KV store
\* refused: overlapping flushes and retries never repeat one (isProcessing of PersistentQueue, the swap of logBuffer in flushLogs).
THEOREM MessagesSentOnce == Log!Spec => []SentOnce
  BY LogInit, LogStep, LogSuffices, PTL DEF Log!Spec, SentOnce
=============================================================================
