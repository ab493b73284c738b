---------------------------- MODULE IpcRingProofs ----------------------------
(***************************************************************************)
(* Proofs about IpcRing for every capacity, every set of lengths and every *)
(* number of events.                                                       *)
(*                                                                         *)
(* The inductive invariant describes where the unread events lie: one      *)
(* behind the other from tail to head, or from tail to a skip marker and   *)
(* from offset 0 to head.  What the producer is writing lies outside.      *)
(***************************************************************************)
EXTENDS IpcRing, TLAPS

-----------------------------------------------------------------------------
(* The inductive invariant *)

\* head is the end of the last event; tail is the start of the first unread
\* one, or of the skip marker in front of it.
Ends ==
    /\ rd = Len(log) => head = tail
    /\ rd < Len(log) =>
         /\ End(log[Len(log)]) = head
         /\ \/ log[rd + 1].at = tail
            \/ log[rd + 1].at = 0 /\ head < tail /\ WordAt(mem, tail, Skip)

\* Each unread event starts where the one before ends, or at 0 with a skip
\* marker where the one before ends.
Links ==
    \A i \in Unread : i + 1 \in Unread =>
        \/ log[i + 1].at = End(log[i])
        \/ /\ log[i + 1].at = 0 /\ head < tail /\ tail <= log[i].at
           /\ WordAt(mem, End(log[i]), Skip)

\* The unread events lie in the part of the ring that is in use.
Region ==
    \A i \in Unread :
        \/ head >= tail /\ tail <= log[i].at /\ End(log[i]) <= head
        \/ head < tail /\ tail <= log[i].at /\ End(log[i]) + 4 <= Cap
        \/ head < tail /\ End(log[i]) <= head

\* Of two unread events the later one lies behind the earlier one, or the
\* earlier one lies behind tail and the later one in front of head.  Once an
\* event has wrapped, all later ones have.
Order ==
    \A i, j \in Unread : i < j =>
        /\ \/ End(log[i]) <= log[j].at
           \/ head < tail /\ tail <= log[i].at /\ End(log[j]) <= head
        /\ head < tail /\ End(log[i]) <= head => End(log[j]) <= head

\* The bytes push is about to write are free, and those it has written are
\* still as it wrote them.
Straight ==
    /\ pat = head /\ head + 4 + pmsg.len + 4 <= Cap
    /\ head < tail => head + 4 + pmsg.len < tail

Wrapping ==
    /\ pat = 0 /\ tail <= head /\ 4 + pmsg.len < tail
    /\ ppc # "skip" => WordAt(mem, head, Skip)

Pushing ==
    /\ ppc \in {"skip", "len", "data", "publish"} => pmsg \in Msg
    /\ ppc = "skip" => Wrapping
    /\ ppc \in {"len", "data", "publish"} => Straight \/ Wrapping
    /\ ppc \in {"data", "publish"} => WordAt(mem, pat, pmsg.len)
    /\ ppc = "publish" => DataAt(mem, pat, pmsg)

\* A drain that has seen a non-empty ring finds the first unread event.
Pulling ==
    /\ cpc \in {"copy", "commit"} => rd < Len(log)
    /\ cpc = "commit" => cmsg = log[rd + 1].msg

Layout == RoomForWord /\ Ends /\ Links /\ Region /\ Order /\ UnreadIntact

Inv == TypeOK /\ Layout /\ Pushing /\ Pulling

-----------------------------------------------------------------------------
(* The bytes *)

\* What an event looks like.
LEMMA MsgFacts ==
    ASSUME NEW x \in Msg
    PROVE  /\ x.len \in Nat /\ x.len >= 1 /\ x.len \in Lens
           /\ x.id \in Nat /\ x.id >= 1 /\ x.good \in BOOLEAN
           /\ Tag(x) \in Int
<1>1. x.len \in Lens /\ x.id \in 1 .. MaxMsgs /\ x.good \in BOOLEAN
  BY DEF Msg
<1>2. x.id \in Nat /\ x.id >= 1
  BY <1>1, MaxMsgsAssumption
<1>3. Tag(x) \in Int
  BY <1>2 DEF Tag
<1>4. x.len \in Nat \ {0}
  BY <1>1, LensAssumption
<1>5. x.len \in Nat /\ x.len >= 1
  BY <1>4
<1>6. QED
  BY <1>1, <1>2, <1>3, <1>5, Zenon

\* A byte tells which word or payload it was written for.
LEMMA ByteInjective ==
    ASSUME NEW k1, NEW v1, NEW o1, NEW k2, NEW v2, NEW o2,
           Byte(k1, v1, o1) = Byte(k2, v2, o2)
    PROVE  k1 = k2 /\ v1 = v2 /\ o1 = o2
<1>1. Byte(k1, v1, o1).kind = Byte(k2, v2, o2).kind
  OBVIOUS
<1>2. Byte(k1, v1, o1).val = Byte(k2, v2, o2).val
  OBVIOUS
<1>3. Byte(k1, v1, o1).off = Byte(k2, v2, o2).off
  OBVIOUS
<1>4. QED
  BY <1>1, <1>2, <1>3 DEF Byte

\* Writing a word inside the data section keeps the section well typed and
\* leaves the word in place.
LEMMA WriteWordSelf ==
    ASSUME NEW m \in [Addr -> Cell], NEW p \in Nat, p + 4 <= Cap, NEW w \in Int
    PROVE  /\ WriteWord(m, p, w) \in [Addr -> Cell]
           /\ WordAt(WriteWord(m, p, w), p, w)
<1>1. \A k \in 0 .. 3 : Byte("word", w, k) \in Cell
  BY DEF Byte, Cell
<1>2. \A k \in 0 .. 3 : p + k \in Addr /\ (p + k) - p = k
  BY CapAssumption DEF Addr
<1>3. \A i \in Addr : i \in p .. p + 3 => i - p \in 0 .. 3
  BY CapAssumption DEF Addr
<1>4. QED
  BY <1>1, <1>2, <1>3 DEF WriteWord, WordAt, Addr

\* It leaves alone a word that does not overlap it.
LEMMA WriteWordKeepsWord ==
    ASSUME NEW m \in [Addr -> Cell], NEW p \in Nat, NEW w, NEW q \in Nat, NEW v,
           q + 4 <= Cap, q + 4 <= p \/ p + 4 <= q, WordAt(m, q, v)
    PROVE  WordAt(WriteWord(m, p, w), q, v)
<1>1. \A k \in 0 .. 3 : q + k \in Addr /\ q + k \notin p .. p + 3
  BY CapAssumption DEF Addr
<1>2. QED
  BY <1>1 DEF WriteWord, WordAt

\* It leaves alone a payload that does not overlap it.
LEMMA WriteWordKeepsData ==
    ASSUME NEW m \in [Addr -> Cell], NEW p \in Nat, NEW w, NEW q \in Nat,
           NEW x \in Msg, q + 4 + x.len <= Cap,
           q + 4 + x.len <= p \/ p + 4 <= q, DataAt(m, q, x)
    PROVE  DataAt(WriteWord(m, p, w), q, x)
<1>0. x.len \in Nat
  BY MsgFacts
<1>1. \A k \in 0 .. x.len - 1 : q + 4 + k \in Addr /\ q + 4 + k \notin p .. p + 3
  BY <1>0, CapAssumption DEF Addr
<1>2. QED
  BY <1>1 DEF WriteWord, DataAt

\* The same three facts about writing a payload behind the word at p.
LEMMA WriteDataSelf ==
    ASSUME NEW m \in [Addr -> Cell], NEW p \in Nat, NEW x \in Msg,
           p + 4 + x.len <= Cap
    PROVE  /\ WriteData(m, p, x) \in [Addr -> Cell]
           /\ DataAt(WriteData(m, p, x), p, x)
<1>0. x.len \in Nat /\ Tag(x) \in Int
  BY MsgFacts
<1>1. \A k \in 0 .. x.len - 1 : Byte("data", Tag(x), k) \in Cell
  BY <1>0 DEF Byte, Cell
<1>2. \A k \in 0 .. x.len - 1 : /\ p + 4 + k \in Addr
                                /\ p + 4 + k \in p + 4 .. p + 3 + x.len
                                /\ (p + 4 + k) - p - 4 = k
  BY <1>0, CapAssumption DEF Addr
<1>3. \A i \in Addr : i \in p + 4 .. p + 3 + x.len => i - p - 4 \in 0 .. x.len - 1
  BY <1>0, CapAssumption DEF Addr
<1>4. QED
  BY <1>1, <1>2, <1>3 DEF WriteData, DataAt, Addr

\* A payload leaves alone a word that does not overlap it.
LEMMA WriteDataKeepsWord ==
    ASSUME NEW m \in [Addr -> Cell], NEW p \in Nat, NEW y \in Msg,
           NEW q \in Nat, NEW v, q + 4 <= Cap,
           q <= p \/ p + 4 + y.len <= q, WordAt(m, q, v)
    PROVE  WordAt(WriteData(m, p, y), q, v)
<1>0. y.len \in Nat
  BY MsgFacts
<1>1. \A k \in 0 .. 3 : q + k \in Addr /\ q + k \notin p + 4 .. p + 3 + y.len
  BY <1>0, CapAssumption DEF Addr
<1>2. QED
  BY <1>1 DEF WriteData, WordAt

\* A payload leaves alone another payload that does not overlap it.
LEMMA WriteDataKeepsData ==
    ASSUME NEW m \in [Addr -> Cell], NEW p \in Nat, NEW y \in Msg,
           NEW q \in Nat, NEW x \in Msg, q + 4 + x.len <= Cap,
           q + 4 + x.len <= p \/ p + 4 + y.len <= q, DataAt(m, q, x)
    PROVE  DataAt(WriteData(m, p, y), q, x)
<1>0. x.len \in Nat /\ y.len \in Nat
  BY MsgFacts
<1>1. \A k \in 0 .. x.len - 1 : /\ q + 4 + k \in Addr
                                /\ q + 4 + k \notin p + 4 .. p + 3 + y.len
  BY <1>0, CapAssumption DEF Addr
<1>2. QED
  BY <1>1 DEF WriteData, DataAt

\* An intact word is the only thing a load can return.
LEMMA LoadIntact ==
    ASSUME NEW m, NEW p \in Nat, NEW w \in U32, WordAt(m, p, w)
    PROVE  Load(m, p) = {w}
<1>1. ASSUME NEW v \in U32, WordAt(m, p, v)
      PROVE  v = w
  <2>1. Byte("word", v, 0) = Byte("word", w, 0)
    BY <1>1 DEF WordAt
  <2>2. QED
    BY <2>1, ByteInjective
<1>2. QED
  BY <1>1 DEF Load

\* An intact payload is decoded to the event it was written for.
LEMMA CopyIntact ==
    ASSUME NEW m, NEW p \in Nat, NEW x \in Msg, DataAt(m, p, x)
    PROVE  Copy(m, p, x.len) = {x}
<1>1. ASSUME NEW y \in Msg, y.len = x.len, DataAt(m, p, y)
      PROVE  y = x
  <2>1. 0 \in 0 .. x.len - 1
    BY MsgFacts
  <2>2. Byte("data", Tag(y), 0) = Byte("data", Tag(x), 0)
    BY <1>1, <2>1 DEF DataAt
  <2>3. Tag(y) = Tag(x)
    BY <2>2, ByteInjective
  <2>4. y.id = x.id /\ y.good = x.good
    BY <2>3, MsgFacts DEF Tag
  <2>5. QED
    BY <1>1, <2>4 DEF Msg
<1>2. QED
  BY <1>1 DEF Copy

-----------------------------------------------------------------------------
(* The layout *)

\* What an unread entry of the log looks like and where it can lie.
LEMMA EntryFacts ==
    ASSUME TypeOK, NEW i \in Unread
    PROVE  /\ i \in 1 .. Len(log) /\ log[i].at \in Nat /\ log[i].msg \in Msg
           /\ log[i].msg.len \in Nat /\ log[i].msg.len >= 1
           /\ End(log[i]) = log[i].at + 4 + log[i].msg.len /\ End(log[i]) \in Nat
<1>1. i \in 1 .. Len(log)
  BY DEF TypeOK, Unread
<1>2. log[i] \in Entry
  <2>1. log \in Seq(Entry)
    BY DEF TypeOK
  <2>2. QED
    BY <1>1, <2>1
<1>3. log[i].at \in Nat /\ log[i].msg \in Msg
  BY <1>2, CapAssumption DEF Addr, Entry
<1>4. log[i].msg.len \in Nat /\ log[i].msg.len >= 1
  BY <1>3, MsgFacts
<1>5. QED
  BY <1>1, <1>3, <1>4 DEF End

\* No unread event ends beyond the room of a skip marker.
LEMMA EndsInside ==
    ASSUME TypeOK, RoomForWord, Region, NEW i \in Unread
    PROVE  End(log[i]) + 4 <= Cap
<1>1. /\ head \in Nat /\ tail \in Nat /\ Cap \in Nat
  BY CapAssumption DEF TypeOK
<1>2. QED
  BY <1>1, EntryFacts DEF RoomForWord, Region

\* A step that leaves the ring alone leaves the layout alone.
LEMMA LayoutUnchanged ==
    ASSUME Layout, UNCHANGED <<mem, head, tail, log, rd>>
    PROVE  Layout'
  BY DEF Layout, RoomForWord, Ends, Links, Region, Order, UnreadIntact, Unread

\* The bytes from lo to hi belong to no unread event and to no skip marker.
Clear(lo, hi) ==
    /\ \A i \in Unread : End(log[i]) <= lo \/ hi <= log[i].at
    /\ head < tail => hi <= tail
    /\ \A i \in Unread : head < tail /\ tail <= log[i].at => hi <= End(log[i])

\* A step writes no byte outside lo .. hi - 1.
WritesOnly(lo, hi) ==
    /\ \A q \in Nat, v \in Int :
         q + 4 <= Cap /\ (q + 4 <= lo \/ hi <= q) /\ WordAt(mem, q, v)
           => WordAt(mem', q, v)
    /\ \A q \in Nat, x \in Msg :
         q + 4 + x.len <= Cap /\ (q + 4 + x.len <= lo \/ hi <= q)
           /\ DataAt(mem, q, x) => DataAt(mem', q, x)

\* Writing to clear bytes leaves the layout alone.
LEMMA LayoutAfterWrite ==
    ASSUME TypeOK, Layout, NEW lo \in Nat, NEW hi \in Nat, Clear(lo, hi),
           WritesOnly(lo, hi), UNCHANGED <<head, tail, log, rd>>
    PROVE  Layout'
<1>0. /\ head \in Nat /\ tail \in Nat /\ Cap \in Nat /\ Skip \in Int
      /\ Unread' = Unread
  BY CapAssumption DEF TypeOK, Skip, Unread
<1>1. RoomForWord' /\ Region' /\ Order'
  BY <1>0 DEF Layout, RoomForWord, Region, Order
<1>2. UnreadIntact'
  <2> SUFFICES ASSUME NEW i \in Unread
               PROVE  /\ WordAt(mem', log[i].at, log[i].msg.len)
                      /\ DataAt(mem', log[i].at, log[i].msg)
    BY <1>0 DEF UnreadIntact
  <2>1. /\ WordAt(mem, log[i].at, log[i].msg.len)
        /\ DataAt(mem, log[i].at, log[i].msg)
    BY DEF Layout, UnreadIntact
  <2>2. End(log[i]) + 4 <= Cap
    BY EndsInside DEF Layout
  <2>3. End(log[i]) <= lo \/ hi <= log[i].at
    BY DEF Clear
  <2>4. /\ log[i].at \in Nat /\ log[i].msg \in Msg
        /\ log[i].msg.len \in Nat /\ log[i].msg.len \in Int
        /\ End(log[i]) = log[i].at + 4 + log[i].msg.len
    BY EntryFacts
  <2>5. WordAt(mem', log[i].at, log[i].msg.len)
    <3>1. /\ log[i].at + 4 <= Cap
          /\ log[i].at + 4 <= lo \/ hi <= log[i].at
      BY <1>0, <2>2, <2>3, <2>4
    <3>2. QED
      BY <2>1, <2>4, <3>1 DEF WritesOnly
  <2>6. DataAt(mem', log[i].at, log[i].msg)
    <3>1. /\ log[i].at + 4 + log[i].msg.len <= Cap
          /\ log[i].at + 4 + log[i].msg.len <= lo \/ hi <= log[i].at
      BY <1>0, <2>2, <2>3, <2>4
    <3>2. QED
      BY <2>1, <2>4, <3>1 DEF WritesOnly
  <2>7. QED
    BY <2>5, <2>6
<1>3. Ends'
  <2>1. head < tail /\ WordAt(mem, tail, Skip) => WordAt(mem', tail, Skip)
    <3>1. head < tail => tail + 4 <= Cap /\ hi <= tail
      BY DEF Layout, RoomForWord, Clear
    <3>2. QED
      BY <1>0, <3>1 DEF WritesOnly
  <2>2. QED
    BY <2>1 DEF Layout, Ends
<1>4. Links'
  <2>1. ASSUME NEW i \in Unread, head < tail, tail <= log[i].at,
               WordAt(mem, End(log[i]), Skip)
        PROVE  WordAt(mem', End(log[i]), Skip)
    <3>1. End(log[i]) + 4 <= Cap
      BY EndsInside DEF Layout
    <3>2. hi <= End(log[i]) /\ End(log[i]) \in Nat
      BY <2>1, EntryFacts DEF Clear
    <3>3. QED
      BY <1>0, <2>1, <3>1, <3>2 DEF WritesOnly
  <2>2. QED
    BY <1>0, <2>1 DEF Layout, Links
<1>5. QED
  BY <1>1, <1>2, <1>3, <1>4 DEF Layout

\* The two places push writes at are clear.
LEMMA StraightIsClear ==
    ASSUME TypeOK, Layout, NEW hi \in Nat, head < tail => hi <= tail
    PROVE  Clear(head, hi)
<1>1. /\ head \in Nat /\ tail \in Nat /\ Cap \in Nat
  BY CapAssumption DEF TypeOK
<1>2. ASSUME NEW i \in Unread
      PROVE  /\ End(log[i]) <= head \/ hi <= log[i].at
             /\ head < tail /\ tail <= log[i].at => hi <= End(log[i])
  <2>1. /\ log[i].at \in Nat /\ End(log[i]) \in Nat
        /\ log[i].at <= End(log[i])
    BY EntryFacts
  <2>2. QED
    BY <1>1, <2>1 DEF Layout, Region
<1>3. QED
  BY <1>2 DEF Clear

\* A push that wraps writes in front of tail, where nothing is unread.
LEMMA WrappingIsClear ==
    ASSUME TypeOK, Layout, NEW hi \in Nat, tail <= head, hi <= tail
    PROVE  Clear(0, hi)
<1>1. /\ head \in Nat /\ tail \in Nat /\ Cap \in Nat
  BY CapAssumption DEF TypeOK
<1>2. ASSUME NEW i \in Unread
      PROVE  /\ End(log[i]) <= 0 \/ hi <= log[i].at
             /\ head < tail /\ tail <= log[i].at => hi <= End(log[i])
  <2>1. /\ log[i].at \in Nat /\ End(log[i]) \in Nat
        /\ log[i].at <= End(log[i])
    BY EntryFacts
  <2>2. QED
    BY <1>1, <2>1 DEF Layout, Region
<1>3. QED
  BY <1>2 DEF Clear

-----------------------------------------------------------------------------
(* One lemma for each action *)

\* The empty ring has the layout.
LEMMA InitInv == Init => Inv
<1> SUFFICES ASSUME Init PROVE Inv
  OBVIOUS
<1>1. Unread = {} /\ rd = 0 /\ Len(log) = 0
  BY DEF Init, Unread
<1>2. TypeOK
  <2>1. Zero \in Cell
    BY DEF Zero, Byte, Cell
  <2>2. 0 \in 0 .. Cap /\ 1 \in 1 .. MaxMsgs + 1
    BY CapAssumption, MaxMsgsAssumption
  <2>3. mem \in [Addr -> Cell]
    BY <2>1 DEF Init
  <2>4. log \in Seq(Entry) /\ out \in Seq(Msg) /\ rd \in 0 .. Len(log)
    BY <1>1 DEF Init
  <2>5. mapped \in BOOLEAN /\ cmsg \in {NoMsg} /\ pmsg \in {NoMsg}
    BY DEF Init
  <2>6. /\ head \in 0 .. Cap /\ tail \in 0 .. Cap /\ pat \in 0 .. Cap
        /\ nextId \in 1 .. MaxMsgs + 1 /\ updates \in Nat /\ missed \in Nat
    BY <2>2 DEF Init
  <2>7. ppc = "idle" /\ cpc = "idle"
    BY DEF Init
  <2>8. QED
    BY <2>3, <2>4, <2>5, <2>6, <2>7, Zenon DEF TypeOK
<1>3. Layout
  BY <1>1, CapAssumption DEF Init, Layout, RoomForWord, Ends, Links, Region, Order,
                             UnreadIntact
<1>4. Pushing /\ Pulling
  BY DEF Init, Pushing, Pulling
<1>5. QED
  BY <1>2, <1>3, <1>4 DEF Inv

\* push chooses a place that is free (the checks of its first lines).
LEMMA PushBeginInv ==
    ASSUME Inv, NEW msg \in Msg, PushBegin(msg)
    PROVE  Inv'
<1>0. /\ head \in Nat /\ tail \in Nat /\ Cap \in Nat /\ head + 4 <= Cap /\ tail + 4 <= Cap
      /\ msg.len \in Nat /\ msg.len >= 1
  BY CapAssumption, MsgFacts DEF Inv, TypeOK, Layout, RoomForWord
<1>1. TypeOK'
  <2>1. nextId' \in 1 .. MaxMsgs + 1
    BY MaxMsgsAssumption DEF Inv, TypeOK, PushBegin
  <2>2. pat' \in 0 .. Cap
    BY <1>0 DEF PushBegin
  <2>3. QED
    BY <2>1, <2>2 DEF Inv, TypeOK, PushBegin, consVars
<1>2. Layout'
  BY LayoutUnchanged DEF Inv, PushBegin
<1>3. Pushing'
  <2>1. Fits(head, tail, 4 + msg.len) /\ (Wraps(head, 4 + msg.len) => tail > 4 + msg.len)
    BY DEF PushBegin, CanPush
  <2>2. CASE Wraps(head, 4 + msg.len)
    <3>1. ppc' = "skip" /\ pat' = 0 /\ pmsg' = msg /\ head' = head /\ tail' = tail
      BY <2>2 DEF PushBegin
    <3>2. tail <= head /\ 4 + msg.len < tail
      BY <1>0, <2>1, <2>2 DEF Fits, Used, Wraps
    <3>3. QED
      BY <3>1, <3>2 DEF Pushing, Wrapping
  <2>3. CASE ~Wraps(head, 4 + msg.len)
    <3>1. ppc' = "len" /\ pat' = head /\ pmsg' = msg /\ head' = head /\ tail' = tail
      BY <2>3 DEF PushBegin
    <3>2. /\ head + 4 + msg.len + 4 <= Cap
          /\ head < tail => head + 4 + msg.len < tail
      BY <1>0, <2>1, <2>3 DEF Fits, Used, Wraps
    <3>3. QED
      BY <3>1, <3>2 DEF Pushing, Straight
  <2>4. QED
    BY <2>2, <2>3
<1>4. Pulling'
  BY DEF Inv, Pulling, PushBegin, consVars
<1>5. QED
  BY <1>1, <1>2, <1>3, <1>4 DEF Inv

\* Writing the skip marker at head keeps the layout.
LEMMA PushSkipInv ==
    ASSUME Inv, PushSkip
    PROVE  Inv'
<1>0. /\ mem \in [Addr -> Cell] /\ head \in Nat /\ head + 4 <= Cap /\ tail \in Nat
      /\ Skip \in Int /\ Cap \in Nat
  BY CapAssumption DEF Inv, TypeOK, Layout, RoomForWord, Skip
<1>1. pmsg \in Msg /\ pat = 0 /\ tail <= head /\ 4 + pmsg.len < tail
  BY DEF Inv, Pushing, Wrapping, PushSkip
<1>2. mem' = WriteWord(mem, head, Skip)
  BY DEF PushSkip
<1>3. mem' \in [Addr -> Cell] /\ WordAt(mem', head, Skip)
  BY <1>0, <1>2, WriteWordSelf
<1>4. TypeOK'
  BY <1>3 DEF Inv, TypeOK, PushSkip, consVars
<1>5. Layout'
  <2>1. Clear(head, head + 4)
    BY <1>0, <1>1, StraightIsClear DEF Inv
  <2>2. WritesOnly(head, head + 4)
    BY <1>0, <1>2, WriteWordKeepsWord, WriteWordKeepsData DEF WritesOnly
  <2>3. QED
    BY <1>0, <2>1, <2>2, LayoutAfterWrite DEF Inv, PushSkip
<1>6. Pushing'
  BY <1>1, <1>3 DEF PushSkip, Pushing, Wrapping
<1>7. Pulling'
  BY DEF Inv, Pulling, PushSkip, consVars
<1>8. QED
  BY <1>4, <1>5, <1>6, <1>7 DEF Inv

\* Writing the length word keeps the layout.
LEMMA PushLenInv ==
    ASSUME Inv, PushLen
    PROVE  Inv'
<1>0. /\ mem \in [Addr -> Cell] /\ head \in Nat /\ head + 4 <= Cap /\ tail \in Nat
      /\ Skip \in Int /\ Cap \in Nat /\ tail + 4 <= Cap
  BY CapAssumption DEF Inv, TypeOK, Layout, RoomForWord, Skip
<1>1. pmsg \in Msg /\ (Straight \/ Wrapping)
  BY DEF Inv, Pushing, PushLen
<1>2. pmsg.len \in Nat /\ pmsg.len >= 1 /\ pmsg.len \in Int
  BY <1>1, MsgFacts
<1>3. pat \in Nat /\ pat + 4 + pmsg.len + 4 <= Cap
  BY <1>0, <1>1, <1>2 DEF Straight, Wrapping
<1>4. mem' = WriteWord(mem, pat, pmsg.len)
  BY DEF PushLen
<1>5. mem' \in [Addr -> Cell] /\ WordAt(mem', pat, pmsg.len)
  BY <1>0, <1>2, <1>3, <1>4, WriteWordSelf
<1>6. TypeOK'
  BY <1>5 DEF Inv, TypeOK, PushLen, consVars
<1>7. Layout'
  <2>1. Clear(pat, pat + 4)
    <3>1. CASE Straight
      BY <1>0, <1>2, <3>1, StraightIsClear DEF Inv, Straight
    <3>2. CASE Wrapping
      BY <1>0, <1>2, <3>2, WrappingIsClear DEF Inv, Wrapping
    <3>3. QED
      BY <1>1, <3>1, <3>2
  <2>2. WritesOnly(pat, pat + 4)
    BY <1>0, <1>2, <1>3, <1>4, WriteWordKeepsWord, WriteWordKeepsData DEF WritesOnly
  <2>3. QED
    BY <1>3, <2>1, <2>2, LayoutAfterWrite DEF Inv, PushLen
<1>8. Pushing'
  <2>1. Straight => Straight'
    BY DEF Straight, PushLen
  <2>2. Wrapping => Wrapping'
    <3> SUFFICES ASSUME Wrapping PROVE Wrapping'
      OBVIOUS
    <3>1. WordAt(mem, head, Skip) /\ pat + 4 <= head
      BY <1>0, <1>2 DEF Wrapping, PushLen
    <3>2. WordAt(mem', head, Skip)
      BY <1>0, <1>2, <1>3, <1>4, <3>1, WriteWordKeepsWord
    <3>3. QED
      BY <3>2 DEF Wrapping, PushLen
  <2>3. QED
    BY <1>1, <1>5, <2>1, <2>2 DEF PushLen, Pushing
<1>9. Pulling'
  BY DEF Inv, Pulling, PushLen, consVars
<1>10. QED
  BY <1>6, <1>7, <1>8, <1>9 DEF Inv

\* Writing the payload keeps the layout.
LEMMA PushDataInv ==
    ASSUME Inv, PushData
    PROVE  Inv'
<1>0. /\ mem \in [Addr -> Cell] /\ head \in Nat /\ head + 4 <= Cap /\ tail \in Nat
      /\ Skip \in Int /\ Cap \in Nat /\ tail + 4 <= Cap
  BY CapAssumption DEF Inv, TypeOK, Layout, RoomForWord, Skip
<1>1. pmsg \in Msg /\ (Straight \/ Wrapping) /\ WordAt(mem, pat, pmsg.len)
  BY DEF Inv, Pushing, PushData
<1>2. pmsg.len \in Nat /\ pmsg.len >= 1 /\ pmsg.len \in Int
  BY <1>1, MsgFacts
<1>3. /\ pat \in Nat /\ pat + 4 + pmsg.len <= Cap /\ pat + 4 <= Cap
      /\ pat + 4 + pmsg.len \in Nat
  BY <1>0, <1>1, <1>2 DEF Straight, Wrapping
<1>4. mem' = WriteData(mem, pat, pmsg)
  BY DEF PushData
<1>5. /\ mem' \in [Addr -> Cell] /\ DataAt(mem', pat, pmsg)
      /\ WordAt(mem', pat, pmsg.len)
  BY <1>0, <1>1, <1>2, <1>3, <1>4, WriteDataSelf, WriteDataKeepsWord
<1>6. TypeOK'
  BY <1>5 DEF Inv, TypeOK, PushData, consVars
<1>7. Layout'
  <2>1. Clear(pat, pat + 4 + pmsg.len)
    <3>1. CASE Straight
      BY <1>0, <1>2, <1>3, <3>1, StraightIsClear DEF Inv, Straight
    <3>2. CASE Wrapping
      BY <1>0, <1>2, <1>3, <3>2, WrappingIsClear DEF Inv, Wrapping
    <3>3. QED
      BY <1>1, <3>1, <3>2
  <2>2. WritesOnly(pat, pat + 4 + pmsg.len)
    <3>1. ASSUME NEW q \in Nat, NEW v \in Int, q + 4 <= Cap,
                 q + 4 <= pat \/ pat + 4 + pmsg.len <= q, WordAt(mem, q, v)
          PROVE  WordAt(mem', q, v)
      BY <1>0, <1>1, <1>3, <1>4, <3>1, WriteDataKeepsWord
    <3>2. ASSUME NEW q \in Nat, NEW x \in Msg, q + 4 + x.len <= Cap,
                 q + 4 + x.len <= pat \/ pat + 4 + pmsg.len <= q, DataAt(mem, q, x)
          PROVE  DataAt(mem', q, x)
      BY <1>0, <1>1, <1>3, <1>4, <3>2, WriteDataKeepsData
    <3>3. QED
      BY <3>1, <3>2 DEF WritesOnly
  <2>3. QED
    BY <1>3, <2>1, <2>2, LayoutAfterWrite DEF Inv, PushData
<1>8. Pushing'
  <2>1. Straight => Straight'
    BY DEF Straight, PushData
  <2>2. Wrapping => Wrapping'
    <3> SUFFICES ASSUME Wrapping PROVE Wrapping'
      OBVIOUS
    <3>1. WordAt(mem, head, Skip) /\ pat + 4 + pmsg.len <= head
      BY <1>0, <1>2 DEF Wrapping, PushData
    <3>2. WordAt(mem', head, Skip)
      BY <1>0, <1>1, <1>3, <1>4, <3>1, WriteDataKeepsWord
    <3>3. QED
      BY <3>2 DEF Wrapping, PushData
  <2>3. QED
    BY <1>1, <1>5, <2>1, <2>2 DEF PushData, Pushing
<1>9. Pulling'
  BY DEF Inv, Pulling, PushData, consVars
<1>10. QED
  BY <1>6, <1>7, <1>8, <1>9 DEF Inv

\* Storing the new head makes the event the last one of the layout.
LEMMA PushPublishInv ==
    ASSUME Inv, PushPublish
    PROVE  Inv'
<1>0. /\ head \in Nat /\ head + 4 <= Cap /\ tail \in Nat /\ Cap \in Nat
      /\ tail + 4 <= Cap /\ log \in Seq(Entry) /\ Len(log) \in Nat /\ rd \in Nat
      /\ rd <= Len(log)
  BY CapAssumption DEF Inv, TypeOK, Layout, RoomForWord
<1>1. /\ pmsg \in Msg /\ (Straight \/ Wrapping)
      /\ WordAt(mem, pat, pmsg.len) /\ DataAt(mem, pat, pmsg)
  BY DEF Inv, Pushing, PushPublish
<1>2. pmsg.len \in Nat /\ pmsg.len >= 1
  BY <1>1, MsgFacts
<1>3. pat \in Nat /\ pat + 4 + pmsg.len + 4 <= Cap /\ pat \in Addr
  BY <1>0, <1>1, <1>2 DEF Straight, Wrapping, Addr
<1> DEFINE e == [at |-> pat, msg |-> pmsg]
           n == Len(log) + 1
<1>4. /\ log' = Append(log, e) /\ head' = pat + 4 + pmsg.len
      /\ UNCHANGED <<mem, tail, rd, pmsg, pat, cpc, cmsg, out>> /\ ppc' = "notify"
  BY DEF PushPublish, consVars
<1>5. e \in Entry /\ e.at = pat /\ e.msg = pmsg /\ End(e) = pat + 4 + pmsg.len
  BY <1>1, <1>3 DEF Entry, End
<1> HIDE DEF e
<1>6. /\ Len(log') = n /\ log'[n] = e
      /\ \A i \in 1 .. Len(log) : log'[i] = log[i]
      /\ log' \in Seq(Entry)
  BY <1>0, <1>4, <1>5
<1>7. /\ \A i \in Unread' : i = n \/ i \in Unread
      /\ \A i \in Unread : i \in 1 .. Len(log) /\ i < n /\ log'[i] = log[i]
  BY <1>0, <1>4, <1>6 DEF Unread
<1>8. TypeOK'
  <2>1. head' \in 0 .. Cap /\ rd' \in 0 .. Len(log')
    BY <1>0, <1>2, <1>3, <1>4, <1>6
  <2>2. QED
    BY <1>6, <2>1 DEF Inv, TypeOK, PushPublish, consVars
<1>9. \A i \in Unread :
        /\ log[i].at \in Nat /\ End(log[i]) \in Nat /\ log[i].at <= End(log[i])
        /\ End(log[i]) + 4 <= Cap
  BY EntryFacts, EndsInside DEF Inv, Layout
\* The old unread events lie behind tail when the new one wraps.
<1>10. ASSUME Wrapping
       PROVE  /\ head' < tail /\ tail <= head /\ pat = 0 /\ WordAt(mem, head, Skip)
              /\ \A i \in Unread : tail <= log[i].at
  <2>1. /\ tail <= head /\ pat = 0 /\ 4 + pmsg.len < tail /\ WordAt(mem, head, Skip)
    BY <1>10 DEF Wrapping, PushPublish
  <2>2. QED
    BY <1>0, <1>4, <2>1 DEF Inv, Layout, Region
<1>11. ASSUME Straight
       PROVE  /\ pat = head /\ head < head'
              /\ head < tail => head' < tail
              /\ head >= tail => head' >= tail
  BY <1>0, <1>2, <1>4, <1>11 DEF Straight
<1>12. RoomForWord'
  BY <1>3, <1>4, <1>0 DEF RoomForWord
<1>13. Ends'
  <2>1. rd' < Len(log') /\ End(log'[Len(log')]) = head'
    BY <1>0, <1>4, <1>5, <1>6
  <2>2. CASE rd = Len(log)
    <3>1. head = tail /\ log'[rd' + 1] = e
      BY <1>4, <1>6, <2>2 DEF Inv, Layout, Ends
    <3>2. QED
      BY <1>1, <1>4, <1>5, <1>10, <1>11, <2>1, <3>1 DEF Ends
  <2>3. CASE rd < Len(log)
    <3>1. rd + 1 \in Unread /\ log'[rd' + 1] = log[rd + 1]
      BY <1>0, <1>4, <1>6, <2>3 DEF Unread
    <3>2. \/ log[rd + 1].at = tail
          \/ log[rd + 1].at = 0 /\ head < tail /\ WordAt(mem, tail, Skip)
      BY <2>3 DEF Inv, Layout, Ends
    <3>3. head < tail => head' < tail'
      BY <1>0, <1>1, <1>4, <1>10, <1>11
    <3>4. QED
      BY <1>4, <2>1, <3>1, <3>2, <3>3 DEF Ends
  <2>4. QED
    BY <1>0, <2>2, <2>3
<1>14. Links'
  <2> SUFFICES ASSUME NEW i \in Unread', i + 1 \in Unread'
               PROVE  \/ log'[i + 1].at = End(log'[i])
                      \/ /\ log'[i + 1].at = 0 /\ head' < tail' /\ tail' <= log'[i].at
                         /\ WordAt(mem', End(log'[i]), Skip)
    BY DEF Links
  <2>0. i \in Nat /\ i + 1 <= n
    BY <1>0, <1>4, <1>6 DEF Unread
  <2>1. i \in Unread /\ log'[i] = log[i]
    BY <1>7, <2>0
  <2>2. CASE i + 1 \in Unread
    <3>1. log'[i + 1] = log[i + 1]
      BY <1>7, <2>2
    <3>2. head < tail => head' < tail'
      BY <1>0, <1>1, <1>4, <1>10, <1>11
    <3>3. QED
      BY <1>4, <2>1, <2>2, <3>1, <3>2 DEF Inv, Layout, Links
  <2>3. CASE i + 1 = n
    <3>1. log'[i + 1] = e /\ i = Len(log) /\ End(log[i]) = head
      BY <1>0, <1>6, <2>0, <2>1, <2>3 DEF Inv, Layout, Ends, Unread
    <3>2. QED
      BY <1>1, <1>4, <1>5, <1>10, <1>11, <2>1, <3>1
  <2>4. QED
    BY <1>7, <2>2, <2>3
<1>15. Region'
  <2> SUFFICES ASSUME NEW i \in Unread'
               PROVE  \/ head' >= tail' /\ tail' <= log'[i].at /\ End(log'[i]) <= head'
                      \/ head' < tail' /\ tail' <= log'[i].at /\ End(log'[i]) + 4 <= Cap
                      \/ head' < tail' /\ End(log'[i]) <= head'
    BY DEF Region
  <2>1. CASE i = n
    <3>1. log'[i].at = pat /\ End(log'[i]) = head'
      BY <1>4, <1>5, <1>6, <2>1
    <3>2. QED
      BY <1>0, <1>1, <1>2, <1>3, <1>4, <1>10, <1>11, <3>1
  <2>2. CASE i \in Unread
    <3>1. log'[i] = log[i]
      BY <1>7, <2>2
    <3>2. \/ head >= tail /\ tail <= log[i].at /\ End(log[i]) <= head
          \/ head < tail /\ tail <= log[i].at /\ End(log[i]) + 4 <= Cap
          \/ head < tail /\ End(log[i]) <= head
      BY <2>2 DEF Inv, Layout, Region
    <3>3. /\ log[i].at \in Nat /\ End(log[i]) \in Nat /\ End(log[i]) + 4 <= Cap
      BY <1>9, <2>2
    <3>4. head' \in Nat
      BY <1>2, <1>3, <1>4
    <3>5. QED
      BY <1>0, <1>1, <1>4, <1>10, <1>11, <2>2, <3>1, <3>2, <3>3, <3>4
  <2>3. QED
    BY <1>7, <2>1, <2>2
<1>16. Order'
  <2> SUFFICES ASSUME NEW i \in Unread', NEW j \in Unread', i < j
               PROVE  /\ \/ End(log'[i]) <= log'[j].at
                         \/ head' < tail' /\ tail' <= log'[i].at /\ End(log'[j]) <= head'
                      /\ head' < tail' /\ End(log'[i]) <= head' => End(log'[j]) <= head'
    BY DEF Order
  <2>0. i \in Nat /\ j \in Nat /\ j <= n /\ head' \in Nat
    BY <1>0, <1>2, <1>3, <1>4, <1>6 DEF Unread
  <2>1. i \in Unread /\ log'[i] = log[i]
    BY <1>0, <1>7, <2>0
  <2>2. /\ log[i].at \in Nat /\ End(log[i]) \in Nat
    BY <1>9, <2>1
  <2>3. CASE j = n
    <3>1. log'[j].at = pat /\ End(log'[j]) = head'
      BY <1>4, <1>5, <1>6, <2>3
    <3>2. CASE Wrapping
      BY <1>0, <1>4, <1>10, <2>0, <2>1, <3>1, <3>2
    <3>3. CASE Straight
      <4>1. \/ End(log[i]) <= head
            \/ head < tail /\ tail <= log[i].at
        BY <2>1 DEF Inv, Layout, Region
      <4>2. QED
        BY <1>0, <1>4, <1>11, <2>0, <2>1, <2>2, <3>1, <3>3, <4>1
    <3>4. QED
      BY <1>1, <3>2, <3>3
  <2>4. CASE j \in Unread
    <3>1. log'[j] = log[j] /\ log[j].at \in Nat /\ End(log[j]) \in Nat
      BY <1>7, <1>9, <2>4
    <3>2. /\ \/ End(log[i]) <= log[j].at
             \/ head < tail /\ tail <= log[i].at /\ End(log[j]) <= head
          /\ head < tail /\ End(log[i]) <= head => End(log[j]) <= head
      BY <2>1, <2>4 DEF Inv, Layout, Order
    <3>3. /\ log[i].at < End(log[i])
          /\ \/ tail <= log[i].at
             \/ head < tail /\ End(log[i]) <= head
      BY <2>1, EntryFacts DEF Inv, Layout, Region
    <3>4. CASE Wrapping
      BY <1>0, <1>4, <1>10, <2>0, <2>1, <2>2, <3>1, <3>2, <3>3, <3>4
    <3>5. CASE Straight
      <4>1. /\ head < head' /\ tail' = tail
            /\ head < tail => head' < tail
            /\ head >= tail => head' >= tail
        BY <1>4, <1>11, <3>5
      <4>2. head < tail /\ End(log[i]) <= head' => End(log[i]) <= head
        BY <1>0, <2>0, <2>2, <3>3, <4>1
      <4>3. head' < tail' /\ End(log[i]) <= head' => End(log[j]) <= head'
        BY <1>0, <2>0, <2>2, <3>1, <3>2, <4>1, <4>2
      <4>4. \/ End(log[i]) <= log[j].at
            \/ head' < tail' /\ tail' <= log[i].at /\ End(log[j]) <= head'
        BY <1>0, <2>0, <2>2, <3>1, <3>2, <4>1
      <4>5. QED
        BY <2>1, <3>1, <4>3, <4>4
    <3>6. QED
      BY <1>1, <3>4, <3>5
  <2>5. QED
    BY <1>7, <2>3, <2>4
<1>17. UnreadIntact'
  <2> SUFFICES ASSUME NEW i \in Unread'
               PROVE  /\ WordAt(mem', log'[i].at, log'[i].msg.len)
                      /\ DataAt(mem', log'[i].at, log'[i].msg)
    BY DEF UnreadIntact
  <2>1. CASE i = n
    BY <1>1, <1>4, <1>5, <1>6, <2>1
  <2>2. CASE i \in Unread
    BY <1>4, <1>7, <2>2 DEF Inv, Layout, UnreadIntact
  <2>3. QED
    BY <1>7, <2>1, <2>2
<1>18. Pushing'
  BY <1>4 DEF Pushing
<1>19. Pulling'
  <2>1. rd < Len(log) => rd' < Len(log') /\ log'[rd' + 1] = log[rd + 1]
    BY <1>0, <1>4, <1>6
  <2>2. QED
    BY <1>4, <2>1 DEF Inv, Pulling
<1>20. QED
  BY <1>8, <1>12, <1>13, <1>14, <1>15, <1>16, <1>17, <1>18, <1>19 DEF Inv, Layout

\* A pull or a commit that starts with a non-empty ring reads the words of the
\* first unread event.
LEMMA FirstUnread ==
    ASSUME Inv, rd < Len(log), NEW f, f = log[rd + 1]
    PROVE  /\ rd + 1 \in Unread /\ f.msg \in Msg /\ f.at \in Nat
           /\ f.msg.len \in Nat /\ f.msg.len >= 1 /\ f.msg.len \in U32
           /\ End(f) = f.at + 4 + f.msg.len /\ End(f) + 4 <= Cap
           /\ DataAt(mem, f.at, f.msg)
           /\ \/ f.at = tail /\ Load(mem, tail) = {f.msg.len}
              \/ /\ f.at = 0 /\ head < tail
                 /\ Load(mem, tail) = {Skip} /\ Load(mem, 0) = {f.msg.len}
<1>1. rd + 1 \in Unread
  BY DEF Inv, TypeOK, Unread
<1>2. /\ f.msg \in Msg /\ f.at \in Nat /\ f.msg.len \in Nat /\ f.msg.len >= 1
      /\ End(f) = f.at + 4 + f.msg.len
  BY <1>1, EntryFacts DEF Inv
<1>3. End(f) + 4 <= Cap
  BY <1>1, EndsInside DEF Inv, Layout
<1>4. f.msg.len \in U32 /\ Skip \in U32
  BY <1>2, MsgFacts DEF U32
<1>5. WordAt(mem, f.at, f.msg.len) /\ DataAt(mem, f.at, f.msg)
  BY <1>1 DEF Inv, Layout, UnreadIntact
<1>6. \/ f.at = tail
      \/ f.at = 0 /\ head < tail /\ WordAt(mem, tail, Skip)
  BY DEF Inv, Layout, Ends
<1>7. Load(mem, f.at) = {f.msg.len}
  BY <1>2, <1>4, <1>5, LoadIntact
<1>8. tail \in Nat
  BY CapAssumption DEF Inv, TypeOK
<1>9. WordAt(mem, tail, Skip) => Load(mem, tail) = {Skip}
  BY <1>4, <1>8, LoadIntact
<1>10. QED
  BY <1>1, <1>2, <1>3, <1>4, <1>5, <1>6, <1>7, <1>9

\* A pull that has seen a non-empty ring never fails, and copies that event.
LEMMA CopyTakesFirst ==
    ASSUME Inv, PullCopy
    PROVE  /\ rd < Len(log) /\ log[rd + 1].msg \in Msg
           /\ cpc' = "commit" /\ cmsg' = log[rd + 1].msg
<1> DEFINE f == log[rd + 1]
<1>1. rd < Len(log)
  BY DEF Inv, Pulling, PullCopy
<1>2. /\ rd + 1 \in Unread /\ f.msg \in Msg /\ f.at \in Nat
      /\ f.msg.len \in Nat /\ f.msg.len >= 1
      /\ End(f) = f.at + 4 + f.msg.len /\ End(f) + 4 <= Cap
      /\ DataAt(mem, f.at, f.msg)
      /\ \/ f.at = tail /\ Load(mem, tail) = {f.msg.len}
         \/ /\ f.at = 0 /\ head < tail
            /\ Load(mem, tail) = {Skip} /\ Load(mem, 0) = {f.msg.len}
  BY <1>1, FirstUnread
<1> HIDE DEF f
<1>3. Copy(mem, f.at, f.msg.len) = {f.msg}
  <2>1. f.msg \in Msg /\ f.at \in Nat /\ DataAt(mem, f.at, f.msg)
    BY <1>2
  <2>2. QED
    BY <2>1, CopyIntact
<1>4. /\ ~(f.msg.len <= 0 \/ f.msg.len > Cap - 4 \/ f.at + 4 + f.msg.len > Cap)
      /\ f.msg.len # Skip
  BY <1>2, CapAssumption DEF Skip
<1>5. cpc' = "commit" /\ cmsg' = f.msg
  BY <1>2, <1>3, <1>4 DEF PullCopy
<1>6. QED
  BY <1>1, <1>2, <1>5 DEF f

\* Copying an event out of the ring leaves the layout alone.
LEMMA PullCopyInv ==
    ASSUME Inv, PullCopy
    PROVE  Inv'
<1>1. /\ rd < Len(log) /\ log[rd + 1].msg \in Msg
      /\ cpc' = "commit" /\ cmsg' = log[rd + 1].msg
  BY CopyTakesFirst
<1>2. TypeOK'
  BY <1>1 DEF Inv, TypeOK, PullCopy, prodVars
<1>3. Layout'
  BY LayoutUnchanged DEF Inv, PullCopy
<1>4. Pushing'
  BY DEF Inv, Pushing, Straight, Wrapping, PullCopy, prodVars
<1>5. Pulling'
  BY <1>1 DEF Pulling, PullCopy
<1>6. QED
  BY <1>2, <1>3, <1>4, <1>5 DEF Inv

\* commit moves tail to the end of the first unread event, and what was
\* pulled is that event.
LEMMA CommitTakesFirst ==
    ASSUME Inv, PullCommit
    PROVE  /\ rd < Len(log) /\ rd' = rd + 1
           /\ tail' = End(log[rd + 1]) /\ cmsg = log[rd + 1].msg
<1> DEFINE f == log[rd + 1]
<1>1. rd < Len(log) /\ cmsg = f.msg /\ rd' = rd + 1
  BY DEF Inv, Pulling, PullCommit
<1>2. /\ f.msg.len \in Nat /\ f.msg.len >= 1
      /\ End(f) = f.at + 4 + f.msg.len /\ End(f) + 4 <= Cap
      /\ \/ f.at = tail /\ Load(mem, tail) = {f.msg.len}
         \/ /\ f.at = 0 /\ head < tail
            /\ Load(mem, tail) = {Skip} /\ Load(mem, 0) = {f.msg.len}
  BY <1>1, FirstUnread
<1>3. f.at \in Nat
  BY <1>1, FirstUnread
<1> HIDE DEF f
<1>4. PICK w \in Load(mem, tail) :
        \E l \in IF w = Skip THEN Load(mem, 0) ELSE {w} : tail' = CommitTo(w, l)
  BY DEF PullCommit
<1>5. PICK l \in IF w = Skip THEN Load(mem, 0) ELSE {w} : tail' = CommitTo(w, l)
  BY <1>4
<1>6. CASE f.at = tail /\ Load(mem, tail) = {f.msg.len}
  <2>1. w = f.msg.len /\ w # Skip /\ tail + 4 + w <= Cap
    BY <1>2, <1>3, <1>4, <1>6, CapAssumption DEF Skip
  <2>2. CommitTo(w, l) = tail + 4 + w
    BY <2>1 DEF CommitTo
  <2>3. QED
    BY <1>1, <1>2, <1>5, <1>6, <2>1, <2>2 DEF f
<1>7. CASE /\ f.at = 0 /\ Load(mem, tail) = {Skip} /\ Load(mem, 0) = {f.msg.len}
  <2>1. w = Skip /\ l = f.msg.len /\ l > 0 /\ 4 + l <= Cap
    BY <1>2, <1>4, <1>5, <1>7, CapAssumption
  <2>2. CommitTo(w, l) = 4 + l
    BY <2>1 DEF CommitTo
  <2>3. QED
    BY <1>1, <1>2, <1>5, <1>7, <2>1, <2>2 DEF f
<1>8. QED
  BY <1>2, <1>6, <1>7

\* Storing the new tail drops the first event from the layout.
LEMMA PullCommitInv ==
    ASSUME Inv, PullCommit
    PROVE  Inv'
<1> DEFINE f == log[rd + 1]
<1>0. /\ head \in Nat /\ head + 4 <= Cap /\ tail \in Nat /\ Cap \in Nat
      /\ tail + 4 <= Cap /\ Len(log) \in Nat /\ rd \in Nat
  BY CapAssumption DEF Inv, TypeOK, Layout, RoomForWord
<1>1. rd < Len(log) /\ rd' = rd + 1 /\ tail' = End(f) /\ cmsg = f.msg
  BY CommitTakesFirst
<1>2. /\ rd + 1 \in Unread /\ f.at \in Nat /\ f.at < End(f)
      /\ End(f) \in Nat /\ End(f) + 4 <= Cap /\ f.msg \in Msg
      /\ f.at = tail \/ (f.at = 0 /\ head < tail)
  BY <1>1, FirstUnread
<1>3. UNCHANGED <<mem, head, log, ppc, pmsg, pat, nextId, updates, mapped, missed>>
  BY DEF PullCommit, prodVars
<1>4. \A i \in Unread' : i \in Unread /\ i \in Nat /\ rd + 1 < i
  BY <1>0, <1>1, <1>3 DEF Unread
\* Is the first unread event behind tail, or has it wrapped?
<1>5. \/ head >= tail /\ tail <= f.at /\ End(f) <= head
      \/ head < tail /\ tail <= f.at
      \/ head < tail /\ End(f) <= head
  BY <1>2 DEF Inv, Layout, Region
<1>6. \A i \in Unread' :
        /\ log[i].at \in Nat /\ End(log[i]) \in Nat
        /\ log[i].at < End(log[i]) /\ End(log[i]) + 4 <= Cap
  BY <1>4, EntryFacts, EndsInside DEF Inv, Layout
<1>7. \A i \in Unread' :
        /\ \/ End(f) <= log[i].at
           \/ head < tail /\ tail <= f.at /\ End(log[i]) <= head
        /\ head < tail /\ End(f) <= head => End(log[i]) <= head
  BY <1>0, <1>2, <1>4 DEF Inv, Layout, Order
<1>8. \A i \in Unread' :
        \/ head >= tail /\ tail <= log[i].at /\ End(log[i]) <= head
        \/ head < tail /\ tail <= log[i].at /\ End(log[i]) + 4 <= Cap
        \/ head < tail /\ End(log[i]) <= head
  BY <1>4 DEF Inv, Layout, Region
<1> HIDE DEF f
\* An event that still lies behind the old tail lies behind the new one.
<1>9. ASSUME NEW i \in Unread', head < tail, tail <= log[i].at
      PROVE  head < tail' /\ tail' <= log[i].at
  <2>1. /\ log[i].at \in Nat /\ End(log[i]) \in Nat /\ log[i].at < End(log[i])
    BY <1>6
  <2>2. ~(End(log[i]) <= head)
    BY <1>0, <1>9, <2>1
  <2>3. End(f) <= log[i].at /\ ~(End(f) <= head)
    BY <1>7, <1>9, <2>2
  <2>4. QED
    BY <1>0, <1>1, <1>2, <2>3
<1>10. TypeOK'
  <2>1. tail' \in 0 .. Cap /\ rd' \in 0 .. Len(log')
    BY <1>0, <1>1, <1>2, <1>3
  <2>2. out' \in Seq(Msg)
    <3>1. out \in Seq(Msg)
      BY DEF Inv, TypeOK
    <3>2. out' = out \/ out' = Append(out, cmsg)
      BY DEF PullCommit
    <3>3. QED
      BY <1>1, <1>2, <3>1, <3>2
  <2>3. cpc' \in {"pull", "idle"} /\ cmsg' = NoMsg
    BY DEF PullCommit
  <2>4. QED
    BY <1>3, <2>1, <2>2, <2>3 DEF Inv, TypeOK
<1>11. RoomForWord'
  BY <1>0, <1>1, <1>2, <1>3 DEF RoomForWord
<1>12. Ends'
  <2>1. End(log[Len(log)]) = head
    BY <1>1 DEF Inv, Layout, Ends
  <2>2. CASE rd + 1 = Len(log)
    BY <1>0, <1>1, <1>3, <2>1, <2>2 DEF Ends, f
  <2>3. CASE rd + 1 < Len(log)
    <3>1. rd + 1 \in Unread /\ (rd + 1) + 1 \in Unread /\ rd' + 1 = (rd + 1) + 1
      BY <1>0, <1>1, <2>3 DEF Unread
    <3>2. \/ log[(rd + 1) + 1].at = End(log[rd + 1])
          \/ /\ log[(rd + 1) + 1].at = 0 /\ head < tail /\ tail <= log[rd + 1].at
             /\ WordAt(mem, End(log[rd + 1]), Skip)
      BY <3>1 DEF Inv, Layout, Links
    <3>3. \/ log[rd' + 1].at = tail'
          \/ log[rd' + 1].at = 0 /\ head < tail' /\ WordAt(mem, tail', Skip)
      BY <1>0, <1>1, <1>2, <3>1, <3>2 DEF f
    <3>4. QED
      BY <1>0, <1>1, <1>3, <2>1, <2>3, <3>3 DEF Ends
  <2>4. QED
    BY <1>0, <1>1, <2>2, <2>3
<1>13. Links'
  <2> SUFFICES ASSUME NEW i \in Unread', i + 1 \in Unread'
               PROVE  \/ log[i + 1].at = End(log[i])
                      \/ /\ log[i + 1].at = 0 /\ head < tail' /\ tail' <= log[i].at
                         /\ WordAt(mem, End(log[i]), Skip)
    BY <1>3 DEF Links
  <2>1. \/ log[i + 1].at = End(log[i])
        \/ /\ log[i + 1].at = 0 /\ head < tail /\ tail <= log[i].at
           /\ WordAt(mem, End(log[i]), Skip)
    BY <1>4 DEF Inv, Layout, Links
  <2>2. QED
    BY <1>9, <2>1
<1>14. Region'
  <2> SUFFICES ASSUME NEW i \in Unread'
               PROVE  \/ head >= tail' /\ tail' <= log[i].at /\ End(log[i]) <= head
                      \/ head < tail' /\ tail' <= log[i].at /\ End(log[i]) + 4 <= Cap
                      \/ head < tail' /\ End(log[i]) <= head
    BY <1>3 DEF Region
  <2>1. /\ log[i].at \in Nat /\ End(log[i]) \in Nat
        /\ log[i].at < End(log[i]) /\ End(log[i]) + 4 <= Cap
    BY <1>6
  <2>2. /\ \/ End(f) <= log[i].at
           \/ head < tail /\ tail <= f.at /\ End(log[i]) <= head
        /\ head < tail /\ End(f) <= head => End(log[i]) <= head
    BY <1>7
  <2>3. \/ head >= tail /\ tail <= log[i].at /\ End(log[i]) <= head
        \/ head < tail /\ tail <= log[i].at /\ End(log[i]) + 4 <= Cap
        \/ head < tail /\ End(log[i]) <= head
    BY <1>8
  <2>4. QED
    BY <1>0, <1>1, <1>2, <1>5, <2>1, <2>2, <2>3
<1>15. Order'
  <2> SUFFICES ASSUME NEW i \in Unread', NEW j \in Unread', i < j
               PROVE  /\ \/ End(log[i]) <= log[j].at
                         \/ head < tail' /\ tail' <= log[i].at /\ End(log[j]) <= head
                      /\ head < tail' /\ End(log[i]) <= head => End(log[j]) <= head
    BY <1>3 DEF Order
  <2>1. /\ \/ End(log[i]) <= log[j].at
           \/ head < tail /\ tail <= log[i].at /\ End(log[j]) <= head
        /\ head < tail /\ End(log[i]) <= head => End(log[j]) <= head
    BY <1>4 DEF Inv, Layout, Order
  <2>2. head < tail' => head < tail
    BY <1>0, <1>1, <1>2, <1>5
  <2>3. QED
    BY <1>9, <2>1, <2>2
<1>16. UnreadIntact'
  BY <1>3, <1>4 DEF Inv, Layout, UnreadIntact
<1>17. Pushing'
  <2>1. ASSUME Straight, pmsg \in Msg PROVE Straight'
    <3>1. pmsg.len \in Nat
      BY <2>1, MsgFacts
    <3>2. head < tail' => head + 4 + pmsg.len < tail'
      BY <1>0, <1>1, <1>2, <1>5, <2>1, <3>1 DEF Straight
    <3>3. QED
      BY <1>3, <2>1, <3>2 DEF Straight
  <2>2. ASSUME Wrapping, pmsg \in Msg PROVE Wrapping'
    <3>1. pmsg.len \in Nat
      BY <2>2, MsgFacts
    <3>2. tail' <= head /\ 4 + pmsg.len < tail'
      BY <1>0, <1>1, <1>2, <1>5, <2>2, <3>1 DEF Wrapping
    <3>3. QED
      BY <1>3, <2>2, <3>2 DEF Wrapping
  <2>3. QED
    BY <1>3, <2>1, <2>2 DEF Inv, Pushing
<1>18. Pulling'
  BY DEF Pulling, PullCommit
<1>19. QED
  BY <1>10, <1>11, <1>12, <1>13, <1>14, <1>15, <1>16, <1>17, <1>18 DEF Inv, Layout

\* The steps that touch neither the ring nor the history of it.
LEMMA OtherInv ==
    ASSUME Inv,
           \/ \E msg \in Msg : PushRefuse(msg)
           \/ Notify \/ MapShmem \/ ReadUpdate \/ PullLoad \/ Restart
           \/ UNCHANGED vars
    PROVE  Inv'
<1>1. UNCHANGED <<mem, head, tail, log, rd>>
  BY DEF PushRefuse, Notify, MapShmem, ReadUpdate, PullLoad, Restart, vars
<1>2. Layout'
  BY <1>1, LayoutUnchanged DEF Inv
<1>3. Pushing'
  <2>1. \/ UNCHANGED <<ppc, pmsg, pat>> \/ ppc' = "idle"
    BY DEF PushRefuse, Notify, MapShmem, ReadUpdate, PullLoad, Restart, vars, prodVars
  <2>2. CASE UNCHANGED <<ppc, pmsg, pat>>
    BY <1>1, <2>2 DEF Inv, Pushing, Straight, Wrapping
  <2>3. CASE ppc' = "idle"
    BY <2>3 DEF Pushing
  <2>4. QED
    BY <2>1, <2>2, <2>3
<1>4. Pulling'
  <2>1. CASE PullLoad
    <3>1. cpc' = "copy" => head # tail
      BY <2>1 DEF PullLoad
    <3>2. head # tail => rd < Len(log)
      BY DEF Inv, TypeOK, Layout, Ends
    <3>3. cpc' # "commit"
      BY <2>1 DEF PullLoad
    <3>4. QED
      BY <1>1, <3>1, <3>2, <3>3 DEF Pulling
  <2>2. CASE ReadUpdate \/ Restart
    <3>1. cpc' \in {"pull", "idle"}
      BY <2>2 DEF ReadUpdate, Restart
    <3>2. QED
      BY <3>1 DEF Pulling
  <2>3. CASE \/ \E msg \in Msg : PushRefuse(msg)
             \/ Notify \/ MapShmem \/ UNCHANGED vars
    <3>1. UNCHANGED <<cpc, cmsg>>
      BY <2>3 DEF PushRefuse, Notify, MapShmem, vars, consVars
    <3>2. QED
      BY <1>1, <3>1 DEF Inv, Pulling
  <2>4. QED
    BY <2>1, <2>2, <2>3
<1>5. TypeOK'
  <2>0. TypeOK
    BY DEF Inv
  <2>1. CASE \E msg \in Msg : PushRefuse(msg)
    <3>1. nextId' \in 1 .. MaxMsgs + 1
      BY <2>0, <2>1, MaxMsgsAssumption DEF TypeOK, PushRefuse
    <3>2. QED
      BY <2>0, <2>1, <3>1 DEF TypeOK, PushRefuse, consVars
  <2>2. CASE Notify
    <3>1. updates' \in Nat
      BY <2>0, <2>2 DEF TypeOK, Notify
    <3>2. QED
      BY <2>0, <2>2, <3>1 DEF TypeOK, Notify, consVars
  <2>3. CASE MapShmem
    BY <2>0, <2>3 DEF TypeOK, MapShmem, consVars, prodVars
  <2>4. CASE ReadUpdate
    <3>1. updates' \in Nat /\ missed' \in Nat
      BY <2>0, <2>4 DEF TypeOK, ReadUpdate
    <3>2. cpc' \in {"idle", "pull"}
      BY <2>4 DEF ReadUpdate
    <3>3. QED
      BY <2>0, <2>4, <3>1, <3>2 DEF TypeOK, ReadUpdate, prodVars
  <2>5. CASE PullLoad
    BY <2>0, <2>5 DEF TypeOK, PullLoad, prodVars
  <2>6. CASE Restart
    <3>1. missed' \in Nat /\ 0 \in 0 .. Cap
      BY <2>0, <2>6, CapAssumption DEF TypeOK, Restart
    <3>2. mapped' \in BOOLEAN
      BY <2>6 DEF Restart
    <3>3. QED
      BY <2>0, <2>6, <3>1, <3>2 DEF TypeOK, Restart
  <2>7. CASE UNCHANGED vars
    BY <2>0, <2>7 DEF TypeOK, vars
  <2>8. QED
    BY <2>1, <2>2, <2>3, <2>4, <2>5, <2>6, <2>7
<1>6. QED
  BY <1>2, <1>3, <1>4, <1>5 DEF Inv

\* Every step of the producer, the consumer and the notices keeps the layout.
LEMMA NextInv == Inv /\ [Next]_vars => Inv'
<1> SUFFICES ASSUME Inv, [Next]_vars PROVE Inv'
  OBVIOUS
<1>1. CASE \E msg \in Msg : PushBegin(msg)
  BY <1>1, PushBeginInv
<1>2. CASE PushSkip
  BY <1>2, PushSkipInv
<1>3. CASE PushLen
  BY <1>3, PushLenInv
<1>4. CASE PushData
  BY <1>4, PushDataInv
<1>5. CASE PushPublish
  BY <1>5, PushPublishInv
<1>6. CASE PullCopy
  BY <1>6, PullCopyInv
<1>7. CASE PullCommit
  BY <1>7, PullCommitInv
<1>8. CASE \/ \E msg \in Msg : PushRefuse(msg)
           \/ Notify \/ MapShmem \/ ReadUpdate \/ PullLoad \/ Restart
           \/ UNCHANGED vars
  BY <1>8, OtherInv
<1>9. QED
  BY <1>1, <1>2, <1>3, <1>4, <1>5, <1>6, <1>7, <1>8 DEF Next, Producer, Consumer

-----------------------------------------------------------------------------
(* The theorems *)

\* The layout of the ring is an invariant of push, pull and commit.
THEOREM RingInvariant == Spec => []Inv
  BY InitInv, NextInv, PTL DEF Spec

\* head, tail and the rest of the state always have their types.
THEOREM RingTypeOK == Spec => []TypeOK
<1>1. Inv => TypeOK
  BY DEF Inv
<1>2. QED
  BY <1>1, RingInvariant, PTL

\* push never overwrites an event that the consumer has not committed.
THEOREM RingUnreadIntact == Spec => []UnreadIntact
<1>1. Inv => UnreadIntact
  BY DEF Inv, Layout
<1>2. QED
  BY <1>1, RingInvariant, PTL

\* head and tail always leave room for a length word or a skip marker.
THEOREM RingRoomForWord == Spec => []RoomForWord
<1>1. Inv => RoomForWord
  BY DEF Inv, Layout
<1>2. QED
  BY <1>1, RingInvariant, PTL

\* An empty ring accepts every event of at most half its capacity.
THEOREM RingEmptyAccepts == Spec => []EmptyRingAccepts
<1>1. Inv => EmptyRingAccepts
  <2> SUFFICES ASSUME Inv, head = tail, NEW l \in Lens, 2 * (4 + l) + 4 <= Cap
               PROVE  CanPush(head, tail, 4 + l)
    BY DEF EmptyRingAccepts
  <2>1. l \in Nat /\ l >= 1 /\ head \in Nat /\ head + 4 <= Cap /\ Cap \in Nat
    BY LensAssumption, CapAssumption DEF Inv, TypeOK, Layout, RoomForWord
  <2>2. QED
    BY <2>1 DEF CanPush, Fits, Used, Wraps
<1>2. QED
  BY <1>1, RingInvariant, PTL

\* head = tail exactly when nothing is unread, so a pull that sees an empty
\* ring has seen everything that was published.
LEMMA EmptyMeansRead ==
    ASSUME Inv, head = tail
    PROVE  rd = Len(log)
<1>1. rd \in Nat /\ Len(log) \in Nat /\ rd <= Len(log) /\ head \in Nat /\ Cap \in Nat
  BY CapAssumption DEF Inv, TypeOK
<1>2. ASSUME rd < Len(log) PROVE FALSE
  <2>1. rd + 1 \in Unread
    BY <1>1, <1>2 DEF Unread
  <2>2. tail <= log[rd + 1].at /\ End(log[rd + 1]) <= head
    BY <1>1, <2>1 DEF Inv, Layout, Region
  <2>3. /\ log[rd + 1].at \in Nat /\ log[rd + 1].msg.len \in Nat
        /\ End(log[rd + 1]) = log[rd + 1].at + 4 + log[rd + 1].msg.len
    BY <2>1, EntryFacts DEF Inv
  <2>4. QED
    BY <1>1, <2>2, <2>3
<1>3. QED
  BY <1>1, <1>2

\* The counting argument behind the drain loop: every event brings one
\* SHMEM_UPDATE line, and every line that starts a drain takes at least one
\* event unless the ring is empty.
LEMMA CoveredNext ==
    ASSUME Inv, Inv', UnreadCovered, [Next]_vars
    PROVE  UnreadCovered'
<1>0. /\ rd \in Nat /\ Len(log) \in Nat /\ rd <= Len(log) /\ updates \in Nat
      /\ missed \in Nat
  BY DEF Inv, TypeOK
<1>1. CASE PushPublish
  <2>1. /\ Len(log') = Len(log) + 1 /\ rd' = rd /\ updates' = updates
        /\ missed' = missed /\ cpc' = cpc /\ ppc = "publish" /\ ppc' = "notify"
    BY <1>1 DEF PushPublish, consVars, Inv, TypeOK
  <2>2. QED
    BY <1>0, <2>1 DEF UnreadCovered
<1>2. CASE Notify
  BY <1>0, <1>2 DEF Notify, consVars, UnreadCovered
<1>3. CASE ReadUpdate
  <2>1. CASE mapped
    BY <1>0, <1>3, <2>1 DEF ReadUpdate, prodVars, UnreadCovered
  <2>2. CASE ~mapped
    BY <1>0, <1>3, <2>2 DEF ReadUpdate, prodVars, UnreadCovered
  <2>3. QED
    BY <2>1, <2>2
<1>4. CASE PullLoad
  <2>1. UNCHANGED <<rd, log, updates, missed, ppc>> /\ cpc # "idle"
    BY <1>4 DEF PullLoad, prodVars
  <2>2. cpc' = "idle" => rd = Len(log)
    <3>1. ~(tail + 4 > Cap)
      BY CapAssumption DEF Inv, TypeOK, Layout, RoomForWord
    <3>2. QED
      BY <1>4, <3>1, EmptyMeansRead DEF PullLoad
  <2>3. QED
    BY <1>0, <2>1, <2>2 DEF UnreadCovered
<1>5. CASE PullCopy
  <2>1. UNCHANGED <<rd, log, updates, missed, ppc>> /\ cpc # "idle" /\ cpc' # "idle"
    BY <1>5, CopyTakesFirst DEF PullCopy, prodVars
  <2>2. QED
    BY <1>0, <2>1 DEF UnreadCovered
<1>6. CASE PullCommit
  <2>1. UNCHANGED <<log, updates, missed, ppc>> /\ cpc # "idle" /\ rd' = rd + 1
    BY <1>6 DEF PullCommit, prodVars
  <2>2. QED
    BY <1>0, <2>1 DEF UnreadCovered
<1>7. CASE Restart
  <2>1. UNCHANGED <<rd, log>> /\ updates' = 0 /\ ppc' = "idle" /\ cpc' = "idle"
    BY <1>7 DEF Restart
  <2>2. missed' = missed + updates + (IF ppc = "notify" THEN 1 ELSE 0)
                         + (IF cpc # "idle" THEN 1 ELSE 0)
    BY <1>7 DEF Restart
  <2>3. QED
    BY <1>0, <2>1, <2>2 DEF UnreadCovered
<1>8. CASE \/ \E msg \in Msg : PushBegin(msg) \/ PushRefuse(msg)
           \/ PushSkip \/ PushLen \/ PushData \/ MapShmem \/ UNCHANGED vars
  <2>1. UNCHANGED <<rd, log, updates, missed, cpc>> /\ (ppc = "notify" => ppc' = "notify")
    BY <1>8 DEF PushBegin, PushRefuse, PushSkip, PushLen, PushData, MapShmem, vars,
                consVars, prodVars
  <2>2. QED
    BY <1>0, <2>1 DEF UnreadCovered
<1>9. QED
  BY <1>1, <1>2, <1>3, <1>4, <1>5, <1>6, <1>7, <1>8 DEF Next, Producer, Consumer

\* Every unread event is covered by a SHMEM_UPDATE line still to come, by the
\* drain in progress, or by a line that was lost before the segment was mapped.
THEOREM RingUnreadCovered == Spec => []UnreadCovered
<1>1. Init => UnreadCovered
  BY DEF Init, UnreadCovered
<1>2. Inv /\ Inv' /\ UnreadCovered /\ [Next]_vars => UnreadCovered'
  BY CoveredNext
<1>3. QED
  BY <1>1, <1>2, RingInvariant, PTL DEF Spec

\* What the orchestrator takes out of the shared bytes is a FIFO channel: no
\* event is lost, duplicated, reordered or torn between push and commit.
THEOREM RingImplementsChannel == Spec => ImplementsChannel
<1> DEFINE msgs == [i \in DOMAIN log |-> log[i].msg]
<1>1. Init => Channel!ChanInit
  BY DEF Init, Channel!ChanInit
<1>2. Inv /\ [Next]_vars => [Channel!ChanNext]_(Channel!chanVars)
  <2> SUFFICES ASSUME Inv, [Next]_vars
               PROVE  Channel!ChanNext \/ UNCHANGED Channel!chanVars
    OBVIOUS
  <2>0. log \in Seq(Entry) /\ rd \in Nat /\ Len(log) \in Nat
    BY DEF Inv, TypeOK
  <2>1. CASE PushPublish
    <3>1. /\ log' = Append(log, [at |-> pat, msg |-> pmsg]) /\ UNCHANGED <<rd, out>>
          /\ pmsg \in Msg
      BY <2>1 DEF PushPublish, consVars, Inv, Pushing
    <3>2. msgs' = Append(msgs, pmsg)
      BY <2>0, <3>1
    <3>3. \E m \in Msg : Channel!Publish(m)
      BY <3>1, <3>2 DEF Channel!Publish
    <3>4. QED
      BY <3>3 DEF Channel!ChanNext
  <2>2. CASE PullCommit
    <3>1. rd < Len(log) /\ rd' = rd + 1 /\ cmsg = log[rd + 1].msg /\ log' = log
      BY <2>2, CommitTakesFirst DEF PullCommit
    <3>2. rd + 1 \in DOMAIN log /\ msgs[rd + 1] = cmsg /\ Len(msgs) = Len(log)
      BY <2>0, <3>1
    <3>3. out' = IF cmsg.good THEN Append(out, cmsg) ELSE out
      BY <2>2 DEF PullCommit
    <3>4. Channel!Consume
      BY <3>1, <3>2, <3>3 DEF Channel!Consume
    <3>5. QED
      BY <3>4 DEF Channel!ChanNext
  <2>3. CASE \/ \E msg \in Msg : PushBegin(msg) \/ PushRefuse(msg)
             \/ PushSkip \/ PushLen \/ PushData \/ Notify \/ MapShmem
             \/ ReadUpdate \/ PullLoad \/ PullCopy \/ Restart \/ UNCHANGED vars
    <3>1. UNCHANGED <<log, rd, out>>
      BY <2>3 DEF PushBegin, PushRefuse, PushSkip, PushLen, PushData, Notify, MapShmem,
                  ReadUpdate, PullLoad, PullCopy, Restart, vars, consVars
    <3>2. QED
      BY <3>1 DEF Channel!chanVars
  <2>4. QED
    BY <2>1, <2>2, <2>3 DEF Next, Producer, Consumer
<1>3. QED
  BY <1>1, <1>2, RingInvariant, PTL DEF Spec, ImplementsChannel, Channel!ChanSpec
=============================================================================
