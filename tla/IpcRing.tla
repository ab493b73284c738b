------------------------------- MODULE IpcRing -------------------------------
(***************************************************************************)
(* The shared-memory telemetry ring between a Rust sidecar and the Deno    *)
(* orchestrator.                                                           *)
(*                                                                         *)
(* Producer: IpcManager::emit_event and IpcRingBuffer::push                *)
(* (agents/cts_ipc).  A mutex inside the agent serialises its threads, so  *)
(* there is one producer, and the mutex is held until the SHMEM_UPDATE     *)
(* line has been printed.                                                  *)
(*                                                                         *)
(* Consumer: shmem_ring_pull and shmem_ring_commit (agents/cts_sec) called *)
(* by IpcFfiBridge.pullRingEvent, itself called in a loop by               *)
(* SidecarManager.startResponseReader for every SHMEM_UPDATE line.         *)
(*                                                                         *)
(* Only the two atomics head and tail order the two sides; the data bytes  *)
(* are plain memory.  The model keeps every byte: a byte remembers which   *)
(* word or payload it was written for, and a word that is not made of four *)
(* bytes of the same write reads as any value at all.                      *)
(***************************************************************************)
EXTENDS Integers, Sequences

CONSTANTS
    Cap,        \* capacity of the data section in bytes
    Lens,       \* the lengths of serialised events
    MaxMsgs     \* bound: number of events the agent emits

\* IpcRingBuffer::new refuses a segment of less than 32 bytes, 16 of which
\* are the header.  A serialised event is never empty.
ASSUME CapAssumption == Cap \in Nat /\ Cap >= 16
ASSUME LensAssumption == Lens \subseteq Nat \ {0}
ASSUME MaxMsgsAssumption == MaxMsgs \in Nat

VARIABLES
    mem,        \* the data section, one cell per byte
    head,       \* AtomicU32, stored by the producer only
    tail,       \* AtomicU32, stored by the consumer only
    ppc,        \* where the producer is in emit_event
    pmsg,       \* the event being pushed
    pat,        \* the offset it is written at
    nextId,     \* the agent's next event
    updates,    \* SHMEM_UPDATE lines in the stdout pipe
    mapped,     \* mappedShmem has a pointer for this sidecar
    cpc,        \* where the consumer is in the drain loop
    cmsg,       \* what the consumer copied out of the mapping
    out,        \* what handleIpcLine has been given
    log,        \* history: events published, with the offset of each
    rd,         \* history: how many of them the consumer has committed
    missed      \* history: SHMEM_UPDATE lines that started no drain

prodVars == <<ppc, pmsg, pat, nextId>>
consVars == <<cpc, cmsg, out>>
vars == <<mem, head, tail, ppc, pmsg, pat, nextId, updates, mapped,
          cpc, cmsg, out, log, rd, missed>>

-----------------------------------------------------------------------------
(* The bytes *)

Addr == 0 .. Cap - 1

\* An event: its number, its length, and whether the orchestrator will find
\* its signature valid and its payload decodable.
Msg == [id : 1 .. MaxMsgs, len : Lens, good : BOOLEAN]
NoMsg == [id |-> 0, len |-> 0, good |-> FALSE]

\* The word 0xFFFFFFFF; as an i32 it is -1.
Skip == -1

Byte(kind, val, off) == [kind |-> kind, val |-> val, off |-> off]
Zero == Byte("zero", 0, 0)
Cell == [kind : {"zero", "word", "data"}, val : Int, off : Nat]

\* What sets the payload of an event apart from those of other events.
Tag(msg) == IF msg.good THEN msg.id ELSE -msg.id

\* Four bytes at p become the little-endian word w.
WriteWord(m, p, w) ==
    [i \in Addr |-> IF i \in p .. p + 3 THEN Byte("word", w, i - p) ELSE m[i]]

\* The payload of an event follows its length word.
WriteData(m, p, msg) ==
    [i \in Addr |-> IF i \in p + 4 .. p + 3 + msg.len
                      THEN Byte("data", Tag(msg), i - p - 4) ELSE m[i]]

WordAt(m, p, w) == \A k \in 0 .. 3 : m[p + k] = Byte("word", w, k)
DataAt(m, p, msg) ==
    \A k \in 0 .. msg.len - 1 : m[p + 4 + k] = Byte("data", Tag(msg), k)

\* What loading a u32 at p may return: the word written there or, when the
\* four bytes are of different writes, anything.
U32 == Lens \cup {0, Skip}
Load(m, p) == IF \E w \in U32 : WordAt(m, p, w)
                THEN {w \in U32 : WordAt(m, p, w)} ELSE U32

\* The event whose intact payload of l bytes follows p, if there is one.
Copy(m, p, l) == IF \E x \in Msg : x.len = l /\ DataAt(m, p, x)
                   THEN {x \in Msg : x.len = l /\ DataAt(m, p, x)}
                   ELSE {[NoMsg EXCEPT !.len = l]}

Init ==
    /\ mem = [i \in Addr |-> Zero]
    /\ head = 0 /\ tail = 0
    /\ ppc = "idle" /\ pmsg = NoMsg /\ pat = 0 /\ nextId = 1
    /\ updates = 0
    /\ mapped = FALSE
    /\ cpc = "idle" /\ cmsg = NoMsg /\ out = << >>
    /\ log = << >> /\ rd = 0 /\ missed = 0

-----------------------------------------------------------------------------
(* Producer: IpcRingBuffer::push *)

Used(h, t) == IF h >= t THEN h - t ELSE Cap - (t - h)

\* One byte stays free to tell a full ring from an empty one.
Fits(h, t, n) == n <= Cap - 4 /\ Cap - Used(h, t) - 1 >= n

\* The event and a skip marker after it do not fit before the end.
Wraps(h, n) == h + n + 4 > Cap

\* Mutant: the event wraps without looking where the tail is.
CanPushBlindWrap(h, t, n) == Fits(h, t, n)

\* Does push accept an event of n bytes, length word included?
CanPush(h, t, n) == Fits(h, t, n) /\ (Wraps(h, n) => t > n)

\* push loads head and tail and decides; from here on the tail it works
\* with may be stale.
PushBegin(msg) ==
    /\ ppc = "idle" /\ nextId <= MaxMsgs /\ msg.id = nextId
    /\ CanPush(head, tail, 4 + msg.len)
    /\ nextId' = nextId + 1
    /\ pmsg' = msg
    /\ IF Wraps(head, 4 + msg.len)
         THEN ppc' = "skip" /\ pat' = 0
         ELSE ppc' = "len" /\ pat' = head
    /\ UNCHANGED <<mem, head, tail, updates, mapped, consVars, log, rd, missed>>

\* push returns false and emit_event drops the event.
PushRefuse(msg) ==
    /\ ppc = "idle" /\ nextId <= MaxMsgs /\ msg.id = nextId
    /\ ~CanPush(head, tail, 4 + msg.len)
    /\ nextId' = nextId + 1
    /\ UNCHANGED <<mem, head, tail, ppc, pmsg, pat, updates, mapped, consVars,
                   log, rd, missed>>

\* The skip marker that sends the consumer back to offset 0.
PushSkip ==
    /\ ppc = "skip"
    /\ mem' = WriteWord(mem, head, Skip)
    /\ ppc' = "len"
    /\ UNCHANGED <<head, tail, pmsg, pat, nextId, updates, mapped, consVars,
                   log, rd, missed>>

PushLen ==
    /\ ppc = "len"
    /\ mem' = WriteWord(mem, pat, pmsg.len)
    /\ ppc' = "data"
    /\ UNCHANGED <<head, tail, pmsg, pat, nextId, updates, mapped, consVars,
                   log, rd, missed>>

PushData ==
    /\ ppc = "data"
    /\ mem' = WriteData(mem, pat, pmsg)
    /\ ppc' = "publish"
    /\ UNCHANGED <<head, tail, pmsg, pat, nextId, updates, mapped, consVars,
                   log, rd, missed>>

\* The release store of head makes the event visible.
PushPublish ==
    /\ ppc = "publish"
    /\ head' = pat + 4 + pmsg.len
    /\ log' = Append(log, [at |-> pat, msg |-> pmsg])
    /\ ppc' = "notify"
    /\ UNCHANGED <<mem, tail, pmsg, pat, nextId, updates, mapped, consVars,
                   rd, missed>>

\* println!("SHMEM_UPDATE:...")
Notify ==
    /\ ppc = "notify"
    /\ updates' = updates + 1
    /\ ppc' = "idle"
    /\ UNCHANGED <<mem, head, tail, pmsg, pat, nextId, mapped, consVars,
                   log, rd, missed>>

-----------------------------------------------------------------------------
(* Consumer: startResponseReader, pullRingEvent, pull and commit *)

\* setupSharedMemory runs beside the response reader and may lose the race
\* against the first SHMEM_UPDATE lines.
MapShmem ==
    /\ ~mapped
    /\ mapped' = TRUE
    /\ UNCHANGED <<mem, head, tail, prodVars, updates, consVars, log, rd, missed>>

\* Mutant: all the lines of one chunk count as one.
ReadUpdateCoalesced ==
    /\ cpc = "idle" /\ updates > 0
    /\ updates' = 0
    /\ IF mapped
         THEN cpc' = "pull" /\ missed' = missed
         ELSE cpc' = "idle" /\ missed' = missed + updates
    /\ UNCHANGED <<mem, head, tail, prodVars, mapped, cmsg, out, log, rd>>

\* The reader takes a SHMEM_UPDATE line: it drains, if the segment is mapped.
ReadUpdate ==
    /\ cpc = "idle" /\ updates > 0
    /\ updates' = updates - 1
    /\ IF mapped
         THEN cpc' = "pull" /\ missed' = missed
         ELSE cpc' = "idle" /\ missed' = missed + 1
    /\ UNCHANGED <<mem, head, tail, prodVars, mapped, cmsg, out, log, rd>>

\* shmem_ring_pull loads head and tail; pullRingEvent returns null on an
\* empty ring and the drain loop ends.
PullLoad ==
    /\ cpc = "pull"
    /\ cpc' = IF head = tail \/ tail + 4 > Cap THEN "idle" ELSE "copy"
    /\ UNCHANGED <<mem, head, tail, prodVars, updates, mapped, cmsg, out,
                   log, rd, missed>>

\* shmem_ring_pull finds the length word, at tail or behind a skip marker at
\* offset 0, and pullRingEvent copies the payload.  A length that is no
\* length makes pull return null: nothing is consumed and the drain ends.
PullCopy ==
    /\ cpc = "copy"
    /\ \E w \in Load(mem, tail) :
       \E l \in IF w = Skip THEN Load(mem, 0) ELSE {w} :
         LET e == IF w = Skip THEN 0 ELSE tail
         IN  IF l <= 0 \/ l > Cap - 4 \/ e + 4 + l > Cap
               THEN cpc' = "idle" /\ cmsg' = cmsg
               ELSE cpc' = "commit" /\ cmsg' \in Copy(mem, e, l)
    /\ UNCHANGED <<mem, head, tail, prodVars, updates, mapped, out, log, rd,
                   missed>>

\* Mutant: commit follows the skip marker but not the message behind it.
CommitToMarkerOnly(w, l) ==
    CASE w = Skip                              -> 0
      [] w # Skip /\ tail + 4 + w <= Cap       -> tail + 4 + w
      [] OTHER                                 -> tail

\* The tail shmem_ring_commit leaves, given the words it reads again.
CommitTo(w, l) ==
    CASE w = Skip /\ l > 0 /\ 4 + l <= Cap     -> 4 + l
      [] w # Skip /\ tail + 4 + w <= Cap       -> tail + 4 + w
      [] OTHER                                 -> tail

\* shmem_ring_commit moves tail past the message.  A good message is handed
\* to handleIpcLine and the loop goes on; a message that does not verify or
\* decode makes pullRingEvent return null, as an empty ring does.
PullCommit ==
    /\ cpc = "commit"
    /\ \E w \in Load(mem, tail) :
       \E l \in IF w = Skip THEN Load(mem, 0) ELSE {w} :
         tail' = CommitTo(w, l)
    /\ rd' = rd + 1
    /\ IF cmsg.good
         THEN out' = Append(out, cmsg) /\ cpc' = "pull"
         ELSE out' = out /\ cpc' = "idle"
    /\ cmsg' = NoMsg
    /\ UNCHANGED <<mem, head, prodVars, updates, mapped, log, missed>>

\* Both processes die and new ones attach to the segment left behind:
\* nothing of the segment is reset, everything else is.
Restart ==
    /\ ppc' = "idle" /\ pmsg' = NoMsg /\ pat' = 0
    /\ cpc' = "idle" /\ cmsg' = NoMsg
    /\ updates' = 0 /\ mapped' = FALSE
    /\ missed' = missed + updates + (IF ppc = "notify" THEN 1 ELSE 0)
                        + (IF cpc # "idle" THEN 1 ELSE 0)
    /\ UNCHANGED <<mem, head, tail, nextId, out, log, rd>>

-----------------------------------------------------------------------------

Producer == \/ \E msg \in Msg : PushBegin(msg) \/ PushRefuse(msg)
            \/ PushSkip \/ PushLen \/ PushData \/ PushPublish \/ Notify

Consumer == ReadUpdate \/ PullLoad \/ PullCopy \/ PullCommit

Next == Producer \/ Consumer \/ MapShmem \/ Restart

\* The agent finishes an emit_event it has begun and the event loop of the
\* orchestrator keeps reading the pipe.  The agent need not emit anything
\* and the segment need not ever be mapped.
Fairness == /\ WF_vars(PushSkip \/ PushLen \/ PushData \/ PushPublish \/ Notify)
            /\ WF_vars(Consumer)

Spec == Init /\ [][Next]_vars /\ Fairness
-----------------------------------------------------------------------------
(* Properties *)

\* Published and not yet committed by the consumer.
Unread == rd + 1 .. Len(log)

Entry == [at : Addr, msg : Msg]
End(e) == e.at + 4 + e.msg.len

\* Types; head and tail stay inside the data section.
TypeOK ==
    /\ mem \in [Addr -> Cell]
    /\ head \in 0 .. Cap /\ tail \in 0 .. Cap
    /\ ppc \in {"idle", "skip", "len", "data", "publish", "notify"}
    /\ pmsg \in Msg \cup {NoMsg} /\ pat \in 0 .. Cap
    /\ nextId \in 1 .. MaxMsgs + 1
    /\ updates \in Nat /\ mapped \in BOOLEAN /\ missed \in Nat
    /\ cpc \in {"idle", "pull", "copy", "commit"}
    /\ cmsg \in Msg \cup {NoMsg} \cup [id : {0}, len : Lens, good : {FALSE}]
    /\ out \in Seq(Msg)
    /\ log \in Seq(Entry) /\ rd \in 0 .. Len(log)

\* Whatever the producer is in the middle of writing, with a tail that may
\* be stale, the length word and the payload of every event published and
\* not yet committed are as they were written: push never overwrites unread
\* data and never leaves half a skip marker over it.
UnreadIntact ==
    \A i \in Unread : /\ WordAt(mem, log[i].at, log[i].msg.len)
                      /\ DataAt(mem, log[i].at, log[i].msg)

\* head and tail always leave room for a word: the skip marker and every
\* length word lie inside the data section, so neither push nor pull indexes
\* past it and pull's own bounds checks never turn a message away.
RoomForWord == head + 4 <= Cap /\ tail + 4 <= Cap

\* push may refuse an event on an empty ring, depending on where head and
\* tail met; it never does when the event and its framing take at most half
\* of the capacity, so such an event is refused only for lack of space.
EmptyRingAccepts ==
    head = tail => \A l \in Lens : 2 * (4 + l) + 4 <= Cap
                                     => CanPush(head, tail, 4 + l)

\* A drain stops early at a message it discards, leaving messages in the
\* ring; but every unread event is still covered by a SHMEM_UPDATE line on
\* its way or by the drain in progress, except for lines that came before
\* the segment was mapped or died with a process.
UnreadCovered ==
    Len(log) - rd <= updates + missed
                     + (IF ppc = "notify" THEN 1 ELSE 0)
                     + (IF cpc # "idle" THEN 1 ELSE 0)

\* As long as no SHMEM_UPDATE line was lost, every published event leaves
\* the ring: the drain loop cannot strand it.
EventuallyTaken ==
    \A n \in 1 .. MaxMsgs :
        (Len(log) >= n /\ missed = 0) ~> (rd >= n \/ missed > 0)

\* What the consumer takes out of the bytes is a FIFO channel.
Channel == INSTANCE IpcChannel WITH
    sent <- [i \in DOMAIN log |-> log[i].msg], taken <- rd, out <- out

ImplementsChannel == Channel!ChanSpec
=============================================================================
