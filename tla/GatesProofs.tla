----------------------------- MODULE GatesProofs -----------------------------
(***************************************************************************)
(* Proofs about the two gates of the web interface, for any set of         *)
(* requests, any limit and any number of windows.                          *)
(*                                                                         *)
(* A revoked key and an ended session are refused because what is void     *)
(* stays void: no validation that is under way brings back the entry the   *)
(* next validation starts from (KeyGone, SessionGone).                     *)
(***************************************************************************)
EXTENDS MCGates, SumLemmas, TLAPS

-----------------------------------------------------------------------------
(* The check of credentials.                                               *)

USE DEF Access!vars, Access!keyVars, Access!ended, Access!Go

\* Revocation ends with the entry of the id: no request gets past it any more.
KeyGone ==
  /\ life = "revoked" => idRec = FALSE
  /\ \A r \in Requests : "revocation" \in late[r] => life = "revoked" /\ pc[r] \notin {"hash", "key"}

\* A session that was logged out stays absent, and no later request is about to
\* save it, until a request from before the logout saves it; a request that came
\* after it has expired is never about to save it.
SessionGone ==
  /\ over = TRUE /\ revived = FALSE =>
       session = "absent" /\ \A r \in Requests : pc[r] = "save" => "logout" \notin late[r]
  /\ \A r \in Requests :
       /\ "expiry" \in late[r] => expired = TRUE /\ pc[r] \notin {"save", "session"}
       /\ "logout" \in late[r] => over = TRUE /\ (pc[r] = "session" => revived = TRUE)

AccessInv == Access!TypeOK /\ KeyGone /\ SessionGone

LEMMA AccessInit == Access!Init => AccessInv
  BY DEF Access!Init, AccessInv, Access!TypeOK, KeyGone, SessionGone, Access!Places, Access!Ends

\* Every step of the gate keeps the invariant.
LEMMA AccessStep == AccessInv /\ [Access!Next]_accessVars => AccessInv'
<1> USE DEF Access!TypeOK, Access!Places, Access!Ends, Access!Void
<1>1. SUFFICES ASSUME AccessInv, [Access!Next]_accessVars PROVE AccessInv'
  OBVIOUS
<1>2. Access!TypeOK /\ KeyGone /\ SessionGone
  BY <1>1 DEF AccessInv
<1>3. ASSUME NEW r \in Requests, Access!Arrive(r) PROVE AccessInv'
  <2>1. Access!TypeOK'
    BY <1>2, <1>3 DEF Access!Arrive
  <2>2. KeyGone'
    BY <1>2, <1>3 DEF Access!Arrive, KeyGone
  <2>3. SessionGone'
    BY <1>2, <1>3 DEF Access!Arrive, SessionGone
  <2>4. QED
    BY <2>1, <2>2, <2>3 DEF AccessInv
<1>4. ASSUME NEW r \in Requests, Access!SessionRead(r) PROVE AccessInv'
  <2>1. Access!TypeOK'
    BY <1>2, <1>4 DEF Access!SessionRead
  <2>2. KeyGone'
    BY <1>2, <1>4 DEF Access!SessionRead, KeyGone
  <2>3. SessionGone'
    BY <1>2, <1>4 DEF Access!SessionRead, SessionGone
  <2>4. QED
    BY <2>1, <2>2, <2>3 DEF AccessInv
<1>5. ASSUME NEW r \in Requests, Access!SessionDrop(r) PROVE AccessInv'
  <2>1. Access!TypeOK'
    BY <1>2, <1>5 DEF Access!SessionDrop
  <2>2. KeyGone'
    BY <1>2, <1>5 DEF Access!SessionDrop, KeyGone
  <2>3. SessionGone'
    BY <1>2, <1>5 DEF Access!SessionDrop, SessionGone
  <2>4. QED
    BY <2>1, <2>2, <2>3 DEF AccessInv
<1>6. ASSUME NEW r \in Requests, Access!SessionSave(r) PROVE AccessInv'
  <2>1. Access!TypeOK'
    BY <1>2, <1>6 DEF Access!SessionSave
  <2>2. KeyGone'
    BY <1>2, <1>6 DEF Access!SessionSave, KeyGone
  <2>3. SessionGone'
    BY <1>2, <1>6 DEF Access!SessionSave, SessionGone
  <2>4. QED
    BY <2>1, <2>2, <2>3 DEF AccessInv
<1>7. ASSUME NEW r \in Requests, Access!TokenCheck(r) PROVE AccessInv'
  <2>1. Access!TypeOK'
    BY <1>2, <1>7 DEF Access!TokenCheck
  <2>2. KeyGone'
    BY <1>2, <1>7 DEF Access!TokenCheck, KeyGone
  <2>3. SessionGone'
    BY <1>2, <1>7 DEF Access!TokenCheck, SessionGone
  <2>4. QED
    BY <2>1, <2>2, <2>3 DEF AccessInv
<1>8. ASSUME NEW r \in Requests, Access!KeyIdRead(r) PROVE AccessInv'
  <2>1. Access!TypeOK'
    BY <1>2, <1>8 DEF Access!KeyIdRead
  <2>2. KeyGone'
    BY <1>2, <1>8 DEF Access!KeyIdRead, KeyGone
  <2>3. SessionGone'
    BY <1>2, <1>8 DEF Access!KeyIdRead, SessionGone
  <2>4. QED
    BY <2>1, <2>2, <2>3 DEF AccessInv
<1>9. ASSUME NEW r \in Requests, Access!KeyHashRead(r) PROVE AccessInv'
  <2>1. Access!TypeOK'
    BY <1>2, <1>9 DEF Access!KeyHashRead
  <2>2. KeyGone'
    BY <1>2, <1>9 DEF Access!KeyHashRead, KeyGone
  <2>3. SessionGone'
    BY <1>2, <1>9 DEF Access!KeyHashRead, SessionGone
  <2>4. QED
    BY <2>1, <2>2, <2>3 DEF AccessInv
<1>10. ASSUME NEW r \in Requests, Access!KeyTouch(r) PROVE AccessInv'
  <2>1. Access!TypeOK'
    BY <1>2, <1>10 DEF Access!KeyTouch
  <2>2. KeyGone'
    BY <1>2, <1>10 DEF Access!KeyTouch, KeyGone
  <2>3. SessionGone'
    BY <1>2, <1>10 DEF Access!KeyTouch, SessionGone
  <2>4. QED
    BY <2>1, <2>2, <2>3 DEF AccessInv
<1>11. CASE Access!Login
  <2>1. Access!TypeOK'
    BY <1>2, <1>11 DEF Access!Login
  <2>2. KeyGone'
    BY <1>2, <1>11 DEF Access!Login, KeyGone
  <2>3. SessionGone'
    BY <1>2, <1>11 DEF Access!Login, SessionGone
  <2>4. QED
    BY <2>1, <2>2, <2>3 DEF AccessInv
<1>12. CASE Access!Logout
  <2>1. Access!TypeOK'
    BY <1>2, <1>12 DEF Access!Logout
  <2>2. KeyGone'
    BY <1>2, <1>12 DEF Access!Logout, KeyGone
  <2>3. SessionGone'
    BY <1>2, <1>12 DEF Access!Logout, SessionGone
  <2>4. QED
    BY <2>1, <2>2, <2>3 DEF AccessInv
<1>13. CASE Access!Expire
  <2>1. Access!TypeOK'
    BY <1>2, <1>13 DEF Access!Expire
  <2>2. KeyGone'
    BY <1>2, <1>13 DEF Access!Expire, KeyGone
  <2>3. SessionGone'
    BY <1>2, <1>13 DEF Access!Expire, SessionGone
  <2>4. QED
    BY <2>1, <2>2, <2>3 DEF AccessInv
<1>14. CASE Access!CleanupExpired
  <2>1. Access!TypeOK'
    BY <1>2, <1>14 DEF Access!CleanupExpired
  <2>2. KeyGone'
    BY <1>2, <1>14 DEF Access!CleanupExpired, KeyGone
  <2>3. SessionGone'
    BY <1>2, <1>14 DEF Access!CleanupExpired, SessionGone
  <2>4. QED
    BY <2>1, <2>2, <2>3 DEF AccessInv
<1>15. CASE Access!KeyStoreId
  <2>1. Access!TypeOK'
    BY <1>2, <1>15 DEF Access!KeyStoreId
  <2>2. KeyGone'
    BY <1>2, <1>15 DEF Access!KeyStoreId, KeyGone
  <2>3. SessionGone'
    BY <1>2, <1>15 DEF Access!KeyStoreId, SessionGone
  <2>4. QED
    BY <2>1, <2>2, <2>3 DEF AccessInv
<1>16. CASE Access!KeyStoreHash
  <2>1. Access!TypeOK'
    BY <1>2, <1>16 DEF Access!KeyStoreHash
  <2>2. KeyGone'
    BY <1>2, <1>16 DEF Access!KeyStoreHash, KeyGone
  <2>3. SessionGone'
    BY <1>2, <1>16 DEF Access!KeyStoreHash, SessionGone
  <2>4. QED
    BY <2>1, <2>2, <2>3 DEF AccessInv
<1>17. CASE Access!RevokeBegin
  <2>1. Access!TypeOK'
    BY <1>2, <1>17 DEF Access!RevokeBegin
  <2>2. KeyGone'
    BY <1>2, <1>17 DEF Access!RevokeBegin, KeyGone
  <2>3. SessionGone'
    BY <1>2, <1>17 DEF Access!RevokeBegin, SessionGone
  <2>4. QED
    BY <2>1, <2>2, <2>3 DEF AccessInv
<1>18. CASE Access!RevokeHash
  <2>1. Access!TypeOK'
    BY <1>2, <1>18 DEF Access!RevokeHash
  <2>2. KeyGone'
    BY <1>2, <1>18 DEF Access!RevokeHash, KeyGone
  <2>3. SessionGone'
    BY <1>2, <1>18 DEF Access!RevokeHash, SessionGone
  <2>4. QED
    BY <2>1, <2>2, <2>3 DEF AccessInv
<1>19. CASE Access!RevokeId
  <2>1. Access!TypeOK'
    BY <1>2, <1>19 DEF Access!RevokeId
  <2>2. KeyGone'
    BY <1>2, <1>19 DEF Access!RevokeId, KeyGone
  <2>3. SessionGone'
    BY <1>2, <1>19 DEF Access!RevokeId, SessionGone
  <2>4. QED
    BY <2>1, <2>2, <2>3 DEF AccessInv
<1>20. CASE UNCHANGED accessVars
  BY <1>2, <1>20 DEF AccessInv, KeyGone, SessionGone, accessVars
<1>21. QED
  BY <1>1, <1>3, <1>4, <1>5, <1>6, <1>7, <1>8, <1>9, <1>10, <1>11, <1>12, <1>13, <1>14, <1>15, <1>16, <1>17, <1>18, <1>19, <1>20 DEF Access!Next, Access!RequestStep

LEMMA AccessInvHolds == Access!Spec => []AccessInv
<1>1. AccessInv /\ [Access!Next]_(Access!vars) => AccessInv'
  BY AccessStep DEF accessVars
<1>2. QED
  BY AccessInit, <1>1, PTL DEF Access!Spec

\* A request that arrived after revokeApiKey had deleted the entry of the id is
\* not admitted by that key, although a save of lastUsed that was under way
\* writes the record of the hash back.
THEOREM RevokedKeysRefused == Access!Spec => []RevokedKeyRefused
<1>1. AccessInv => RevokedKeyRefused
  BY DEF AccessInv, KeyGone, RevokedKeyRefused, Access!RevokedKeyRefused
<1>2. QED
  BY <1>1, AccessInvHolds, PTL

\* A request that arrived after the session had expired is not admitted by it,
\* and one that arrived after the logout only if a request from before it saved
\* the session with a new lastSeen after it (validateSession, revokeSession).
THEOREM EndedSessionsRefused == Access!Spec => []EndedSessionRefused
<1>1. AccessInv => EndedSessionRefused
  BY DEF AccessInv, SessionGone, EndedSessionRefused, Access!EndedSessionRefused
<1>2. QED
  BY <1>1, AccessInvHolds, PTL

-----------------------------------------------------------------------------
(* The rate limit.                                                         *)

\* A window object that has no transaction under way owes nothing, and what was
\* pushed or is being pushed was counted.
Settled ==
  \A w \in Windows :
    /\ write[w].tries = 0 => write[w].delta = 0 /\ write[w].read = FALSE
    /\ write[w].delta <= synced[w] /\ synced[w] <= count[w] /\ mark[w] <= count[w]

\* What the last flush has seen to, by where it is: a write that starts while it
\* is about to push covers what the shutdown found, and so does the one it awaits.
Draining ==
  \A w \in Windows : flush["shutdown"].win = w =>
    /\ flush["shutdown"].at = "ready" /\ Busy(w) => synced[w] >= mark[w]
    /\ flush["shutdown"].at = "push" => Busy(w) /\ synced[w] >= mark[w]
    /\ flush["shutdown"].at \in {"done", "ended"} => synced[w] - write[w].delta >= mark[w]

\* A flush task that has work to do holds a window object.
Holding ==
  \A f \in Flushers : flush[f].at \in {"await", "ready", "push"} => flush[f].win # NoWindow

Writes == [delta : Nat, tries : 0 .. Attempts, read : BOOLEAN, fresh : BOOLEAN, over : BOOLEAN]
Tasks == [at : {"idle", "await", "ready", "push", "done", "ended"},
          win : Windows \cup {NoWindow}]

CounterTypes ==
  /\ now \in Windows /\ tier \in Windows \cup {NoWindow}
  /\ count \in [Windows -> Nat] /\ synced \in [Windows -> Nat] /\ mark \in [Windows -> Nat]
  /\ kv \in [count : Nat, win : Windows \cup {NoWindow}]
  /\ faults \in 0 .. MaxFaults

\* The types of the state, but for the histories.
RateTypes == CounterTypes /\ write \in [Windows -> Writes] /\ flush \in [Flushers -> Tasks]

RateInv == RateTypes /\ Settled /\ Draining /\ Holding /\ NeverOvercounted

LEMMA RateParts ==
    RateTypes <=> CounterTypes /\ write \in [Windows -> Writes] /\ flush \in [Flushers -> Tasks]
  BY DEF RateTypes

LEMMA RatePartsNext ==
    RateTypes' <=> CounterTypes' /\ write' \in [Windows -> Writes] /\ flush' \in [Flushers -> Tasks]
  BY DEF RateTypes

LEMMA NoWriteType == NoWrite \in Writes
  BY DEF NoWrite, Write, Writes, Attempts

LEMMA IdleType == Idle \in Tasks
  BY DEF Idle, Tasks

\* What of each window has been pushed, or given up, for good.
PushedOf(sy, wr) == [w \in Windows |-> sy[w] - wr[w].delta]

LEMMA PushedType ==
    ASSUME NEW sy \in [Windows -> Nat], NEW wr \in [Windows -> Writes],
           \A w \in Windows : wr[w].delta <= sy[w]
    PROVE  /\ IsFiniteSet(Windows)
           /\ \A w \in Windows : /\ PushedOf(sy, wr)[w] = sy[w] - wr[w].delta
                                 /\ PushedOf(sy, wr)[w] \in Nat
           /\ SumOver(PushedOf(sy, wr), Windows) \in Nat
<1>1. \A w \in Windows : sy[w] \in Nat /\ wr[w].delta \in Nat
  BY DEF Writes
<1>2. \A w \in Windows : /\ PushedOf(sy, wr)[w] = sy[w] - wr[w].delta
                         /\ PushedOf(sy, wr)[w] \in Nat
  BY <1>1 DEF PushedOf
<1>3. IsFiniteSet(Windows)
  BY RateAssumption, FS_Interval DEF Windows
<1>4. QED
  BY <1>2, <1>3, SumType

LEMMA TotalSum == ASSUME NEW f PROVE Total(f) = SumOver(f, Windows)
  BY DEF Total, SumOver

LEMMA TotalIsSum ==
    /\ NeverOvercounted <=> kv.count <= SumOver(PushedOf(synced, write), Windows)
    /\ NeverOvercounted' <=> kv'.count <= SumOver(PushedOf(synced', write'), Windows)
  BY TotalSum DEF NeverOvercounted, PushedOf

LEMMA PushedTypes ==
    ASSUME RateTypes, Settled, RateTypes', Settled'
    PROVE  /\ synced \in [Windows -> Nat] /\ write \in [Windows -> Writes]
           /\ synced' \in [Windows -> Nat] /\ write' \in [Windows -> Writes]
           /\ \A w \in Windows : write[w].delta <= synced[w] /\ write'[w].delta <= synced'[w]
           /\ kv.count \in Nat /\ kv'.count \in Nat
<1>1. CounterTypes /\ CounterTypes' /\ write \in [Windows -> Writes] /\ write' \in [Windows -> Writes]
  BY RateParts, RatePartsNext
<1>2. QED
  BY <1>1 DEF CounterTypes, Settled

\* A step that takes nothing back of what was pushed and adds nothing to KV.
LEMMA PushedKept ==
    ASSUME RateTypes, Settled, NeverOvercounted, RateTypes', Settled', UNCHANGED kv,
           \A w \in Windows : synced[w] - write[w].delta <= synced'[w] - write'[w].delta
    PROVE  NeverOvercounted'
<1>1. PICK f, g : f = PushedOf(synced, write) /\ g = PushedOf(synced', write')
  OBVIOUS
<1>2. /\ IsFiniteSet(Windows) /\ SumOver(f, Windows) \in Nat /\ SumOver(g, Windows) \in Nat
      /\ \A w \in Windows : f[w] \in Nat /\ g[w] \in Nat /\ f[w] <= g[w]
  BY <1>1, PushedTypes, PushedType
<1>3. SumOver(f, Windows) <= SumOver(g, Windows)
  BY <1>2, SumMonotone
<1>4. kv.count \in Nat /\ kv.count <= SumOver(f, Windows)
  BY <1>1, PushedTypes, TotalIsSum
<1>5. kv'.count <= SumOver(g, Windows)
  BY <1>2, <1>3, <1>4
<1>6. QED
  BY <1>1, <1>5, TotalIsSum

\* A commit adds a delta to KV that is on its way no longer.
LEMMA PushedGrows ==
    ASSUME RateTypes, Settled, NeverOvercounted, RateTypes', Settled', NEW w \in Windows,
           kv'.count <= kv.count + write[w].delta,
           UNCHANGED synced, write'[w].delta = 0,
           \A v \in Windows : v # w => write'[v].delta = write[v].delta
    PROVE  NeverOvercounted'
<1>1. PICK f, g : f = PushedOf(synced, write) /\ g = PushedOf(synced', write')
  OBVIOUS
<1>2. /\ IsFiniteSet(Windows) /\ SumOver(f, Windows) \in Nat /\ SumOver(g, Windows) \in Nat
      /\ \A v \in Windows : /\ f[v] \in Nat /\ g[v] \in Nat
                            /\ f[v] = synced[v] - write[v].delta
                            /\ g[v] = synced'[v] - write'[v].delta
  BY <1>1, PushedTypes, PushedType
<1>3. write[w].delta \in Nat /\ \A v \in Windows : synced[v] \in Nat /\ write[v].delta \in Nat
  BY PushedTypes DEF Writes
<1>4. g[w] = f[w] + write[w].delta /\ \A v \in Windows : f[v] <= g[v]
  BY <1>2, <1>3
<1>5. SumOver(f, Windows) + write[w].delta <= SumOver(g, Windows)
  BY <1>2, <1>3, <1>4, SumGrows
<1>6. kv.count \in Nat /\ kv'.count \in Nat /\ kv.count <= SumOver(f, Windows)
  BY <1>1, PushedTypes, TotalIsSum
<1>7. kv'.count <= SumOver(g, Windows)
  BY <1>2, <1>3, <1>5, <1>6
<1>8. QED
  BY <1>1, <1>7, TotalIsSum

\* syncKey starts a write of what was not pushed yet, if there is such and no
\* write is under way.
LEMMA SyncKeyEffect ==
    ASSUME RateTypes, Settled, NEW w \in Windows, NEW c \in Nat, SyncKey(w, c)
    PROVE  /\ synced' \in [Windows -> Nat] /\ write' \in [Windows -> Writes]
           /\ \A v \in Windows : v # w => synced'[v] = synced[v] /\ write'[v] = write[v]
           /\ \/ /\ Busy(w) \/ c <= synced[w]
                 /\ synced'[w] = synced[w] /\ write'[w] = write[w]
              \/ /\ ~Busy(w) /\ synced[w] < c /\ synced'[w] = c
                 /\ write'[w].tries = 1 /\ write'[w].delta = c - synced[w]
                 /\ write[w].delta = 0
<1>1. synced \in [Windows -> Nat] /\ write \in [Windows -> Writes]
  BY RateParts DEF CounterTypes
<1>2. CASE Busy(w) \/ c <= synced[w]
  BY <1>1, <1>2 DEF SyncKey
<1>3. CASE ~(Busy(w) \/ c <= synced[w])
  <2>1. synced[w] \in Nat /\ write[w] \in Writes /\ synced[w] < c /\ ~Busy(w)
    BY <1>1, <1>3
  <2>2. write[w].tries \in 0 .. Attempts
    BY <2>1 DEF Writes
  <2>3. write[w].tries = 0
    BY <2>1, <2>2 DEF Busy, Attempts
  <2>4. write[w].delta = 0
    BY <2>3 DEF Settled, NoWrite, Write
  <2>5. PICK x : x = Write(c - synced[w], 1)
    OBVIOUS
  <2>6. x \in Writes /\ x.tries = 1 /\ x.delta = c - synced[w]
    BY <2>1, <2>5 DEF Write, Writes, Attempts
  <2>7. synced' = [synced EXCEPT ![w] = c] /\ write' = [write EXCEPT ![w] = x]
    BY <1>3, <2>5 DEF SyncKey
  <2>8. QED
    BY <1>1, <2>1, <2>4, <2>6, <2>7
<1>4. QED
  BY <1>2, <1>3

\* A write that syncKey starts keeps the bounds between the counters, and what
\* was pushed for good.
LEMMA SyncKeySettled ==
    ASSUME RateTypes, Settled, NEW w \in Windows, NEW c \in Nat, SyncKey(w, c),
           count' \in [Windows -> Nat], c <= count'[w],
           \A v \in Windows : count[v] <= count'[v], UNCHANGED mark
    PROVE  /\ Settled'
           /\ \A v \in Windows : synced[v] - write[v].delta <= synced'[v] - write'[v].delta
           /\ \A v \in Windows : synced[v] <= synced'[v]
<1>1. /\ synced \in [Windows -> Nat] /\ write \in [Windows -> Writes]
      /\ count \in [Windows -> Nat] /\ mark \in [Windows -> Nat]
  BY RateParts DEF CounterTypes
<1>2. \A v \in Windows : /\ synced[v] \in Nat /\ count[v] \in Nat /\ mark[v] \in Nat
                         /\ count'[v] \in Nat
                         /\ write[v].delta \in Nat /\ write[v].tries \in Nat
  BY <1>1 DEF Writes, Attempts
<1>3. SUFFICES ASSUME NEW v \in Windows
               PROVE  /\ write'[v].tries = 0 => write'[v].delta = 0 /\ write'[v].read = FALSE
                      /\ write'[v].delta <= synced'[v] /\ synced'[v] <= count'[v]
                      /\ mark'[v] <= count'[v]
                      /\ synced[v] - write[v].delta <= synced'[v] - write'[v].delta
                      /\ synced[v] <= synced'[v]
  BY DEF Settled
<1>4. CASE synced'[v] = synced[v] /\ write'[v] = write[v]
  BY <1>2, <1>4 DEF Settled
<1>5. CASE /\ v = w /\ synced[w] < c /\ synced'[w] = c
           /\ write'[w].tries = 1 /\ write'[w].delta = c - synced[w] /\ write[w].delta = 0
  BY <1>2, <1>5 DEF Settled
<1>6. QED
  BY <1>4, <1>5, SyncKeyEffect

\* A flush task that awaited the write goes on, and no other one.
LEMMA WokenEffect ==
    ASSUME flush \in [Flushers -> Tasks], NEW w \in Windows, flush' = Woken(w)
    PROVE  /\ flush' \in [Flushers -> Tasks]
           /\ \A f \in Flushers :
                /\ flush'[f].win = flush[f].win
                /\ flush'[f].at = IF flush[f].win # w THEN flush[f].at
                                  ELSE IF flush[f].at = "await" THEN "ready"
                                  ELSE IF flush[f].at = "push" THEN "done"
                                  ELSE flush[f].at
<1>1. SUFFICES ASSUME NEW f \in Flushers
               PROVE  /\ Woken(w)[f] \in Tasks
                      /\ Woken(w)[f].win = flush[f].win
                      /\ Woken(w)[f].at = IF flush[f].win # w THEN flush[f].at
                                  ELSE IF flush[f].at = "await" THEN "ready"
                                  ELSE IF flush[f].at = "push" THEN "done"
                                  ELSE flush[f].at
  BY DEF Woken
<1>2. flush[f] \in Tasks
  OBVIOUS
<1>3. CASE flush[f] = [at |-> "await", win |-> w]
  <2>1. Woken(w)[f] = [at |-> "ready", win |-> w]
    BY <1>3 DEF Woken
  <2>2. QED
    BY <1>3, <2>1 DEF Tasks
<1>4. CASE flush[f] = [at |-> "push", win |-> w]
  <2>1. Woken(w)[f] = [at |-> "done", win |-> w]
    BY <1>4 DEF Woken
  <2>2. QED
    BY <1>4, <2>1 DEF Tasks
<1>5. CASE flush[f] # [at |-> "await", win |-> w] /\ flush[f] # [at |-> "push", win |-> w]
  <2>1. Woken(w)[f] = flush[f]
    BY <1>5 DEF Woken
  <2>2. QED
    BY <1>2, <1>5, <2>1 DEF Tasks
<1>6. QED
  BY <1>3, <1>4, <1>5

\* The numbers of each window.
LEMMA WindowTypes ==
    ASSUME RateTypes
    PROVE  \A v \in Windows : /\ synced[v] \in Nat /\ count[v] \in Nat /\ mark[v] \in Nat
                              /\ write[v] \in Writes /\ write[v].delta \in Nat
                              /\ write[v].tries \in Nat /\ write[v].tries <= Attempts
<1>1. CounterTypes /\ write \in [Windows -> Writes]
  BY RateParts
<1>2. \A x \in Writes : x.delta \in Nat /\ x.tries \in Nat /\ x.tries <= Attempts
  BY DEF Writes, Attempts
<1>3. QED
  BY <1>1, <1>2 DEF CounterTypes

\* The last flush goes on from a write that has ended, committed or given up.
LEMMA WriteEnds ==
    ASSUME RateTypes, Settled, Draining, NEW w \in Windows,
           write' \in [Windows -> Writes], write'[w] = NoWrite,
           \A v \in Windows : v # w =>
              /\ write'[v].tries = write[v].tries
              /\ write'[v].delta = write[v].delta
              /\ write'[v].read = write[v].read,
           flush' = Woken(w), UNCHANGED <<synced, count, mark>>
    PROVE  Settled' /\ Draining' /\ flush' \in [Flushers -> Tasks]
<1>1. NoWrite.tries = 0 /\ NoWrite.delta = 0 /\ NoWrite.read = FALSE
  BY DEF NoWrite, Write
<1>2. \A v \in Windows : synced[v] \in Nat /\ count[v] \in Nat /\ mark[v] \in Nat
  BY WindowTypes
<1>3. Settled'
  BY <1>1, <1>2 DEF Settled
<1>4. flush \in [Flushers -> Tasks] /\ "shutdown" \in Flushers
  BY RateParts DEF Flushers
<1>5. /\ flush' \in [Flushers -> Tasks]
      /\ flush'["shutdown"].win = flush["shutdown"].win
      /\ flush'["shutdown"].at = IF flush["shutdown"].win # w THEN flush["shutdown"].at
                                  ELSE IF flush["shutdown"].at = "await" THEN "ready"
                                  ELSE IF flush["shutdown"].at = "push" THEN "done"
                                  ELSE flush["shutdown"].at
  BY <1>4, WokenEffect
<1>6. Draining'
  <2>1. SUFFICES ASSUME NEW v \in Windows, flush'["shutdown"].win = v
                 PROVE  /\ flush'["shutdown"].at = "ready" /\ Busy(v)' => synced'[v] >= mark'[v]
                        /\ flush'["shutdown"].at = "push" => Busy(v)' /\ synced'[v] >= mark'[v]
                        /\ flush'["shutdown"].at \in {"done", "ended"} =>
                              synced'[v] - write'[v].delta >= mark'[v]
    BY DEF Draining
  <2>2. CASE v # w
    BY <1>5, <2>1, <2>2 DEF Draining, Busy
  <2>3. CASE v = w
    <3>1. ~Busy(v)'
      BY <1>1, <2>3 DEF Busy
    <3>2. synced'[v] - write'[v].delta = synced[v]
      BY <1>1, <1>2, <2>3
    <3>3. write[v].delta <= synced[v] /\ write[v].delta \in Nat
      BY WindowTypes DEF Settled
    <3>4. QED
      BY <1>2, <1>5, <2>1, <2>3, <3>1, <3>2, <3>3 DEF Draining
  <2>4. QED
    BY <2>2, <2>3
<1>7. QED
  BY <1>3, <1>5, <1>6

\* retry(): the attempt is repeated, or was the last one.
LEMMA RetryEffect ==
    ASSUME RateTypes, Settled, Draining, NEW w \in Windows, Busy(w), Retry(w),
           UNCHANGED <<synced, count, mark>>
    PROVE  /\ Settled' /\ Draining' /\ write' \in [Windows -> Writes]
           /\ flush' \in [Flushers -> Tasks]
           /\ \A v \in Windows : synced[v] - write[v].delta <= synced'[v] - write'[v].delta
<1>1. write \in [Windows -> Writes] /\ flush \in [Flushers -> Tasks]
  BY RateParts
<1>2. \A v \in Windows : /\ synced[v] \in Nat /\ count[v] \in Nat /\ mark[v] \in Nat
                         /\ write[v].delta \in Nat /\ write[v].tries \in Nat
                         /\ write[v].tries <= Attempts
  BY WindowTypes
<1>3. CASE write[w].tries = Attempts
  <2>1. write' = [write EXCEPT ![w] = NoWrite] /\ flush' = Woken(w)
    BY <1>3 DEF Retry
  <2>2. /\ write' \in [Windows -> Writes] /\ write'[w] = NoWrite
        /\ \A v \in Windows : v # w => write'[v] = write[v]
    BY <1>1, <2>1, NoWriteType
  <2>3. Settled' /\ Draining' /\ flush' \in [Flushers -> Tasks]
    BY <2>1, <2>2, WriteEnds
  <2>4. \A v \in Windows : synced[v] - write[v].delta <= synced'[v] - write'[v].delta
    BY <1>2, <2>2 DEF NoWrite, Write
  <2>5. QED
    BY <2>2, <2>3, <2>4
<1>4. CASE write[w].tries # Attempts
  <2>1. /\ write' = [write EXCEPT ![w] = Write(write[w].delta, write[w].tries + 1)]
        /\ UNCHANGED flush
    BY <1>4 DEF Retry
  <2>2. write[w] \in Writes /\ write[w].tries + 1 \in 0 .. Attempts
    BY <1>1, <1>2, <1>4 DEF Attempts
  <2>3. write' \in [Windows -> Writes]
    BY <1>1, <1>2, <2>1, <2>2 DEF Write, Writes
  <2>4. /\ write'[w].tries = write[w].tries + 1 /\ write'[w].delta = write[w].delta
        /\ \A v \in Windows : v # w => write'[v] = write[v]
    BY <1>1, <1>2, <2>1, <2>2 DEF Write, Writes
  <2>5. write'[w].tries # 0
    BY <1>2, <2>4
  <2>6. \A v \in Windows : write'[v].delta = write[v].delta /\ (Busy(v)' <=> Busy(v))
    BY <1>2, <2>4 DEF Busy
  <2>7. Settled'
    BY <1>2, <2>4, <2>5 DEF Settled
  <2>8. Draining'
    BY <2>1, <2>6 DEF Draining
  <2>9. QED
    BY <1>1, <1>2, <2>1, <2>3, <2>6, <2>7, <2>8
<1>5. QED
  BY <1>3, <1>4

\* Only the last flush matters to Draining.
LEMMA DrainingKept ==
    ASSUME RateTypes, Draining, UNCHANGED mark, flush'["shutdown"] = flush["shutdown"],
           \A v \in Windows : /\ Busy(v)' <=> Busy(v)
                              /\ synced'[v] = synced[v] /\ write'[v].delta = write[v].delta
    PROVE  Draining'
  BY DEF Draining

\* A write that starts beside the last flush.
LEMMA SyncKeyDraining ==
    ASSUME RateTypes, Settled, Draining, NEW w \in Windows, NEW c \in Nat, SyncKey(w, c),
           UNCHANGED mark, flush'["shutdown"] = flush["shutdown"], mark[w] <= c
    PROVE  Draining'
<1>1. \A v \in Windows : /\ synced[v] \in Nat /\ mark[v] \in Nat
                         /\ write[v].delta \in Nat /\ write[v].tries \in Nat
  BY WindowTypes
<1>2. SUFFICES ASSUME NEW v \in Windows, flush'["shutdown"].win = v
               PROVE  /\ flush'["shutdown"].at = "ready" /\ Busy(v)' => synced'[v] >= mark'[v]
                      /\ flush'["shutdown"].at = "push" => Busy(v)' /\ synced'[v] >= mark'[v]
                      /\ flush'["shutdown"].at \in {"done", "ended"} =>
                            synced'[v] - write'[v].delta >= mark'[v]
  BY DEF Draining
<1>3. CASE synced'[v] = synced[v] /\ write'[v] = write[v]
  BY <1>2, <1>3 DEF Draining, Busy
<1>4. CASE /\ v = w /\ ~Busy(w) /\ synced'[w] = c /\ synced[w] < c
           /\ write'[w].tries = 1 /\ write'[w].delta = c - synced[w] /\ write[w].delta = 0
  <2>1. Busy(v)' /\ synced'[v] >= mark'[v]
    BY <1>1, <1>4 DEF Busy
  <2>2. synced'[v] - write'[v].delta = synced[v] - write[v].delta
    BY <1>1, <1>4
  <2>3. QED
    BY <1>2, <2>1, <2>2 DEF Draining
<1>5. QED
  BY <1>3, <1>4, SyncKeyEffect

\* flushMemoryTier begins: it drops a window that is over, or takes the live one.
LEMMA FlushEffect ==
    ASSUME RateTypes, NEW f \in Flushers, Flush(f)
    PROVE  /\ tier' \in Windows \cup {NoWindow} /\ flush' \in [Flushers -> Tasks]
           /\ \A g \in Flushers : g # f => flush'[g] = flush[g]
           /\ \/ flush'[f].win = NoWindow /\ flush'[f].at = "done"
              \/ flush'[f].win \in Windows /\ flush'[f].at = "await"
              \/ flush'[f].win \in Windows /\ flush'[f].at = "ready" /\ ~Busy(flush'[f].win)
<1>1. /\ now \in Windows /\ tier \in Windows \cup {NoWindow}
      /\ flush \in [Flushers -> Tasks]
  BY RateParts DEF CounterTypes
<1>2. CASE tier < now
  <2>1. [at |-> "done", win |-> NoWindow] \in Tasks
    BY DEF Tasks
  <2>2. QED
    BY <1>1, <1>2, <2>1 DEF Flush
<1>3. CASE ~(tier < now)
  <2>1. tier \in Windows
    BY <1>1, <1>3, RateAssumption DEF Windows, NoWindow
  <2>2. CASE Busy(tier)
    <3>1. [at |-> "await", win |-> tier] \in Tasks
      BY <2>1 DEF Tasks
    <3>2. flush' = [flush EXCEPT ![f] = [at |-> "await", win |-> tier]] /\ UNCHANGED tier
      BY <1>3, <2>2 DEF Flush
    <3>3. QED
      BY <1>1, <2>1, <3>1, <3>2
  <2>3. CASE ~Busy(tier)
    <3>1. [at |-> "ready", win |-> tier] \in Tasks
      BY <2>1 DEF Tasks
    <3>2. flush' = [flush EXCEPT ![f] = [at |-> "ready", win |-> tier]] /\ UNCHANGED tier
      BY <1>3, <2>3 DEF Flush
    <3>3. QED
      BY <1>1, <2>1, <2>3, <3>1, <3>2
  <2>4. QED
    BY <2>2, <2>3
<1>4. QED
  BY <1>2, <1>3

\* Holding is not disturbed by a step that leaves the flush tasks alone, or by a
\* flush that begins.
LEMMA HoldingFlush ==
    ASSUME RateTypes, Holding, NEW f \in Flushers, Flush(f)
    PROVE  Holding'
<1>1. NoWindow \notin Windows
  BY DEF NoWindow, Windows
<1>2. QED
  BY <1>1, FlushEffect DEF Holding

LEMMA HoldingWoken ==
    ASSUME RateTypes, Holding, NEW w \in Windows, flush' = Woken(w)
    PROVE  Holding'
<1>1. flush \in [Flushers -> Tasks]
  BY RateParts
<1>2. QED
  BY <1>1, WokenEffect DEF Holding

LEMMA RateInit == Init => RateInv
<1>1. SUFFICES ASSUME Init PROVE RateInv
  OBVIOUS
<1>2. 1 \in Windows /\ 0 \in 0 .. MaxFaults /\ "shutdown" \in Flushers
  BY RateAssumption DEF Windows, Flushers
<1>3. CounterTypes
  BY <1>1, <1>2 DEF Init, CounterTypes
<1>4. write \in [Windows -> Writes] /\ flush \in [Flushers -> Tasks]
  BY <1>1, NoWriteType, IdleType DEF Init
<1>5. RateTypes
  BY <1>3, <1>4, RateParts
<1>6. Settled
  BY <1>1 DEF Init, Settled, NoWrite, Write
<1>7. Draining
  BY <1>1, <1>2 DEF Init, Draining, Idle, NoWindow, Windows
<1>8. Holding
  BY <1>1 DEF Init, Holding, Idle
<1>9. kv.count = 0 /\ synced \in [Windows -> Nat] /\ \A w \in Windows : write[w].delta <= synced[w]
  BY <1>1, <1>3, <1>6 DEF Init, CounterTypes, Settled
<1>10. SumOver(PushedOf(synced, write), Windows) \in Nat
  BY <1>4, <1>9, PushedType
<1>11. NeverOvercounted
  BY <1>9, <1>10, TotalIsSum
<1>12. QED
  BY <1>5, <1>6, <1>7, <1>8, <1>11 DEF RateInv

\* Every step of the service, of KV and of the clock keeps the invariant.
LEMMA RateStep == RateInv /\ [Next]_vars => RateInv'
<1>1. SUFFICES ASSUME RateInv, [Next]_vars PROVE RateInv'
  OBVIOUS
<1>2. RateTypes /\ Settled /\ Draining /\ Holding /\ NeverOvercounted
  BY <1>1 DEF RateInv
<1>3. CounterTypes /\ write \in [Windows -> Writes] /\ flush \in [Flushers -> Tasks]
  BY <1>2, RateParts
<1>4. \A v \in Windows : /\ synced[v] \in Nat /\ count[v] \in Nat /\ mark[v] \in Nat
                         /\ write[v] \in Writes /\ write[v].delta \in Nat
                         /\ write[v].tries \in Nat /\ write[v].tries <= Attempts
  BY <1>2, WindowTypes
<1>5. "shutdown" \in Flushers /\ "timer" \in Flushers
  BY DEF Flushers
<1>6. CASE CheckLimit
  <2>1. /\ tier' = now /\ count' = [count EXCEPT ![now] = @ + 1]
        /\ UNCHANGED <<now, kv, flush, mark, faults>>
    BY <1>6 DEF CheckLimit
  <2>2. now \in Windows /\ count \in [Windows -> Nat]
    BY <1>3 DEF CounterTypes
  <2>3. PICK c : c = count[now] + 1
    OBVIOUS
  <2>4. /\ count' \in [Windows -> Nat] /\ count'[now] = c /\ c \in Nat /\ mark[now] <= c
        /\ \A v \in Windows : count[v] <= count'[v]
    BY <1>2, <1>4, <2>1, <2>2, <2>3 DEF Settled
  <2>hold. Holding'
    BY <1>2, <2>1 DEF Holding
  <2>5. CASE SyncKey(now, c)
    <3>1. synced' \in [Windows -> Nat] /\ write' \in [Windows -> Writes]
      BY <1>2, <2>2, <2>4, <2>5, SyncKeyEffect
    <3>2. RateTypes'
      BY <1>3, <2>1, <2>2, <2>4, <3>1, RatePartsNext DEF CounterTypes
    <3>3. /\ Settled'
          /\ \A v \in Windows : synced[v] - write[v].delta <= synced'[v] - write'[v].delta
      BY <1>2, <2>1, <2>2, <2>4, <2>5, SyncKeySettled
    <3>4. Draining'
      BY <1>2, <2>1, <2>2, <2>4, <2>5, SyncKeyDraining
    <3>5. NeverOvercounted'
      BY <1>2, <2>1, <3>2, <3>3, PushedKept
    <3>6. QED
      BY <2>hold, <3>2, <3>3, <3>4, <3>5 DEF RateInv
  <2>6. CASE UNCHANGED <<synced, write>>
    <3>1. RateTypes'
      BY <1>3, <2>1, <2>2, <2>4, <2>6, RatePartsNext DEF CounterTypes
    <3>2. Settled'
      BY <1>2, <1>4, <2>1, <2>2, <2>4, <2>6 DEF Settled
    <3>3. Draining'
      BY <1>2, <2>1, <2>6, DrainingKept DEF Busy
    <3>4. \A v \in Windows : synced[v] - write[v].delta <= synced'[v] - write'[v].delta
      BY <1>4, <2>6
    <3>5. NeverOvercounted'
      BY <1>2, <2>1, <3>1, <3>2, <3>4, PushedKept
    <3>6. QED
      BY <2>hold, <3>1, <3>2, <3>3, <3>5 DEF RateInv
  <2>7. QED
    BY <1>6, <2>3, <2>5, <2>6 DEF CheckLimit
<1>7. CASE EndWindow
  <2>1. /\ now' = now + 1 /\ now < MaxWindows
        /\ UNCHANGED <<tier, count, synced, write, kv, flush, mark, faults>>
    BY <1>7 DEF EndWindow
  <2>2. now' \in Windows
    BY <1>3, <2>1, RateAssumption DEF CounterTypes, Windows
  <2>3. RateTypes'
    BY <1>3, <2>1, <2>2, RatePartsNext DEF CounterTypes
  <2>4. Settled' /\ Draining'
    BY <1>2, <2>1 DEF Settled, Draining, Busy
  <2>5. NeverOvercounted'
    BY <1>2, <2>1, TotalIsSum
  <2>hold. Holding'
    BY <1>2, <2>1 DEF Holding
  <2>6. QED
    BY <2>3, <2>4, <2>5, <2>hold DEF RateInv
<1>8. CASE SyncTimer
  <2>1. /\ Flush("timer") /\ UNCHANGED <<now, count, synced, write, kv, mark, faults>>
    BY <1>8 DEF SyncTimer
  <2>2. /\ tier' \in Windows \cup {NoWindow} /\ flush' \in [Flushers -> Tasks]
        /\ flush'["shutdown"] = flush["shutdown"]
    BY <1>2, <1>5, <2>1, FlushEffect
  <2>3. RateTypes'
    BY <1>3, <2>1, <2>2, RatePartsNext DEF CounterTypes
  <2>4. Settled'
    BY <1>2, <2>1 DEF Settled
  <2>5. Draining'
    BY <1>2, <2>1, <2>2, DrainingKept DEF Busy
  <2>6. NeverOvercounted'
    BY <1>2, <2>1, TotalIsSum
  <2>hold. Holding'
    BY <1>2, <1>5, <2>1, HoldingFlush
  <2>7. QED
    BY <2>3, <2>4, <2>5, <2>6, <2>hold DEF RateInv
<1>9. CASE OnShutdown
  <2>1. /\ Flush("shutdown") /\ mark' = count
        /\ UNCHANGED <<now, count, synced, write, kv, faults>>
    BY <1>9 DEF OnShutdown
  <2>2. PICK s : s = flush'["shutdown"]
    OBVIOUS
  <2>3. /\ tier' \in Windows \cup {NoWindow} /\ flush' \in [Flushers -> Tasks]
        /\ \/ s.win = NoWindow /\ s.at = "done"
           \/ s.win \in Windows /\ s.at = "await"
           \/ s.win \in Windows /\ s.at = "ready" /\ ~Busy(s.win)
    BY <1>2, <1>5, <2>1, <2>2, FlushEffect
  <2>4. RateTypes'
    BY <1>3, <2>1, <2>3, RatePartsNext DEF CounterTypes
  <2>5. Settled'
    BY <1>2, <1>4, <2>1 DEF Settled
  <2>6. Draining'
    BY <2>1, <2>2, <2>3 DEF Draining, Busy, NoWindow, Windows
  <2>7. NeverOvercounted'
    BY <1>2, <2>1, TotalIsSum
  <2>hold. Holding'
    BY <1>2, <1>5, <2>1, HoldingFlush
  <2>8. QED
    BY <2>4, <2>5, <2>6, <2>7, <2>hold DEF RateInv
<1>10. ASSUME NEW w \in Windows, KvRead(w) PROVE RateInv'
  <2>1. /\ Busy(w) /\ write' = [write EXCEPT ![w].read = TRUE, ![w].fresh = TRUE, ![w].over = kv.win < now]
        /\ UNCHANGED <<now, tier, count, synced, kv, flush, mark, faults>>
    BY <1>10 DEF KvRead
  <2>2. write' \in [Windows -> Writes]
    <3>1. kv.win \in Int /\ now \in Int
      BY <1>3 DEF CounterTypes, Windows, NoWindow
    <3>2. (kv.win < now) \in BOOLEAN
      BY <3>1
    <3>3. QED
      BY <1>3, <2>1, <3>1, <3>2 DEF Writes
  <2>3. /\ write'[w].tries = write[w].tries /\ write'[w].delta = write[w].delta
        /\ \A v \in Windows : v # w => write'[v] = write[v]
    BY <1>3, <1>4, <2>1 DEF Writes
  <2>4. RateTypes'
    BY <1>3, <2>1, <2>2, RatePartsNext DEF CounterTypes
  <2>5. Settled'
    <3>1. write'[w].tries # 0
      BY <1>4, <2>1, <2>3 DEF Busy
    <3>2. QED
      BY <1>2, <2>1, <2>3, <3>1 DEF Settled
  <2>6. Draining'
    BY <1>2, <2>1, <2>3, DrainingKept DEF Busy
  <2>7. \A v \in Windows : synced[v] - write[v].delta <= synced'[v] - write'[v].delta
    <3>1. \A v \in Windows : synced'[v] = synced[v] /\ write'[v].delta = write[v].delta
      BY <2>1, <2>3
    <3>2. QED
      BY <1>4, <3>1
  <2>8. NeverOvercounted'
    BY <1>2, <2>1, <2>4, <2>5, <2>7, PushedKept
  <2>hold. Holding'
    BY <1>2, <2>1 DEF Holding
  <2>9. QED
    BY <2>4, <2>5, <2>6, <2>8, <2>hold DEF RateInv
<1>11. ASSUME NEW w \in Windows, KvCommit(w) PROVE RateInv'
  <2>1. /\ kv' = Added(w) /\ flush' = Woken(w)
        /\ write' = [v \in Windows |-> IF v = w THEN NoWrite ELSE [write[v] EXCEPT !.fresh = FALSE]]
        /\ UNCHANGED <<now, tier, count, synced, mark, faults>>
    BY <1>11 DEF KvCommit
  <2>2. ASSUME NEW x \in Writes
        PROVE  /\ [x EXCEPT !.fresh = FALSE] \in Writes
               /\ [x EXCEPT !.fresh = FALSE].tries = x.tries
               /\ [x EXCEPT !.fresh = FALSE].delta = x.delta
               /\ [x EXCEPT !.fresh = FALSE].read = x.read
    BY <2>2 DEF Writes
  <2>3. write' \in [Windows -> Writes] /\ write'[w] = NoWrite
    BY <1>4, <2>1, <2>2, NoWriteType
  <2>4. \A v \in Windows : v # w =>
           /\ write'[v].tries = write[v].tries
           /\ write'[v].delta = write[v].delta
           /\ write'[v].read = write[v].read
    BY <1>4, <2>1, <2>2
  <2>5. Settled' /\ Draining' /\ flush' \in [Flushers -> Tasks]
    BY <1>2, <2>1, <2>3, <2>4, WriteEnds
  <2>6. kv.count \in Nat /\ kv.win \in Windows \cup {NoWindow}
    BY <1>3 DEF CounterTypes
  <2>7. /\ kv' \in [count : Nat, win : Windows \cup {NoWindow}]
        /\ kv'.count <= kv.count + write[w].delta
    BY <1>4, <2>1, <2>6 DEF Added
  <2>8. RateTypes'
    BY <1>3, <2>1, <2>3, <2>5, <2>7, RatePartsNext DEF CounterTypes
  <2>9. write'[w].delta = 0
    BY <2>3 DEF NoWrite, Write
  <2>10. NeverOvercounted'
    BY <1>2, <2>1, <2>4, <2>5, <2>7, <2>8, <2>9, PushedGrows
  <2>hold. Holding'
    BY <1>2, <2>1, HoldingWoken
  <2>11. QED
    BY <2>5, <2>8, <2>10, <2>hold DEF RateInv
<1>12. ASSUME NEW w \in Windows, KvConflict(w) \/ KvFault(w) PROVE RateInv'
  <2>1. Retry(w) /\ UNCHANGED <<now, tier, count, synced, kv, mark>>
    BY <1>12 DEF KvConflict, KvFault
  <2>2. Busy(w)
    <3>1. CASE KvConflict(w)
      <4>1. write[w].read = TRUE
        BY <1>4, <3>1 DEF KvConflict, Writes
      <4>2. write[w].tries # 0
        BY <1>2, <4>1 DEF Settled, NoWrite, Write
      <4>3. QED
        BY <1>4, <4>2 DEF Busy
    <3>2. CASE KvFault(w)
      BY <3>2 DEF KvFault
    <3>3. QED
      BY <1>12, <3>1, <3>2
  <2>3. faults' \in 0 .. MaxFaults
    BY <1>3, <1>12, RateAssumption DEF KvConflict, KvFault, CounterTypes
  <2>4. /\ Settled' /\ Draining' /\ write' \in [Windows -> Writes]
        /\ flush' \in [Flushers -> Tasks]
        /\ \A v \in Windows : synced[v] - write[v].delta <= synced'[v] - write'[v].delta
    BY <1>2, <2>1, <2>2, RetryEffect
  <2>5. RateTypes'
    BY <1>3, <2>1, <2>3, <2>4, RatePartsNext DEF CounterTypes
  <2>6. NeverOvercounted'
    BY <1>2, <2>1, <2>4, <2>5, PushedKept
  <2>hold. Holding'
    BY <1>2, <2>1, HoldingWoken DEF Retry, Holding
  <2>7. QED
    BY <2>4, <2>5, <2>6, <2>hold DEF RateInv
<1>13. ASSUME NEW f \in Flushers, FlushSync(f) PROVE RateInv'
  <2>1. PICK w : w = flush[f].win
    OBVIOUS
  <2>2. /\ flush[f].at = "ready" /\ SyncKey(w, count[w])
        /\ flush' = [flush EXCEPT ![f].at = IF write'[w].tries > 0 THEN "push" ELSE "done"]
        /\ UNCHANGED <<now, tier, count, kv, mark, faults>>
    BY <1>13, <2>1 DEF FlushSync
  <2>3. flush[f] \in Tasks /\ w \in Windows \cup {NoWindow}
    BY <1>3, <2>1 DEF Tasks
  <2>4. w \in Windows
    BY <1>2, <2>1, <2>2, <2>3 DEF Holding
  <2>5. /\ flush' \in [Flushers -> Tasks]
        /\ \A g \in Flushers : g # f => flush'[g] = flush[g]
        /\ flush'[f].win = w /\ flush'[f].at = IF write'[w].tries > 0 THEN "push" ELSE "done"
    BY <1>3, <2>1, <2>2, <2>3 DEF Tasks
  <2>6. PICK c : c = count[w]
    OBVIOUS
  <2>7. /\ c \in Nat /\ SyncKey(w, c) /\ c <= count'[w] /\ mark[w] <= c
        /\ count' \in [Windows -> Nat] /\ \A v \in Windows : count[v] <= count'[v]
    BY <1>2, <1>3, <1>4, <2>2, <2>4, <2>6 DEF Settled, CounterTypes
  <2>8. synced' \in [Windows -> Nat] /\ write' \in [Windows -> Writes]
    BY <1>2, <2>4, <2>7, SyncKeyEffect
  <2>9. RateTypes'
    BY <1>3, <2>2, <2>5, <2>8, RatePartsNext DEF CounterTypes
  <2>10. /\ Settled'
         /\ \A v \in Windows : synced[v] - write[v].delta <= synced'[v] - write'[v].delta
    BY <1>2, <2>2, <2>4, <2>7, SyncKeySettled
  <2>11. Holding'
    BY <1>2, <2>1, <2>2, <2>4, <2>5 DEF Holding, NoWindow, Windows
  <2>12. NeverOvercounted'
    BY <1>2, <2>2, <2>9, <2>10, PushedKept
  <2>13. CASE f # "shutdown"
    <3>1. Draining'
      BY <1>2, <1>5, <2>2, <2>4, <2>5, <2>7, <2>13, SyncKeyDraining
    <3>2. QED
      BY <2>9, <2>10, <2>11, <2>12, <3>1 DEF RateInv
  <2>14. CASE f = "shutdown"
    <3>1. Busy(w) => synced[w] >= mark[w]
      BY <1>2, <2>1, <2>2, <2>4, <2>14 DEF Draining
    <3>2. /\ Busy(w)' => synced'[w] >= mark[w]
          /\ ~Busy(w)' => synced'[w] - write'[w].delta >= mark[w]
      <4>1. CASE Busy(w) /\ synced'[w] = synced[w] /\ write'[w] = write[w]
        BY <3>1, <4>1 DEF Busy
      <4>2. CASE c <= synced[w] /\ ~Busy(w) /\ synced'[w] = synced[w] /\ write'[w] = write[w]
        <5>1. write[w].tries = 0
          BY <1>4, <2>4, <4>2 DEF Busy
        <5>2. write[w].delta = 0
          BY <1>2, <2>4, <5>1 DEF Settled, NoWrite, Write
        <5>3. QED
          BY <1>4, <2>4, <2>7, <4>2, <5>2 DEF Busy
      <4>3. CASE synced'[w] = c /\ write'[w].tries = 1
        BY <2>7, <4>3, <1>4, <2>4 DEF Busy
      <4>4. QED
        BY <1>2, <2>4, <2>7, <4>1, <4>2, <4>3, SyncKeyEffect
    <3>3. Draining'
      BY <2>2, <2>5, <2>14, <3>2 DEF Draining, Busy
    <3>4. QED
      BY <2>9, <2>10, <2>11, <2>12, <3>3 DEF RateInv
  <2>15. QED
    BY <2>13, <2>14
<1>14. ASSUME NEW f \in Flushers, FlushEnds(f) PROVE RateInv'
  <2>1. /\ flush[f].at = "done"
        /\ flush' = [flush EXCEPT ![f] = IF f = "timer" THEN Idle ELSE [@ EXCEPT !.at = "ended"]]
        /\ UNCHANGED <<now, tier, count, synced, write, kv, mark, faults>>
    BY <1>14 DEF FlushEnds
  <2>2. [flush[f] EXCEPT !.at = "ended"] \in Tasks
    BY <1>3 DEF Tasks
  <2>3. flush' \in [Flushers -> Tasks]
    BY <1>3, <2>1, <2>2, IdleType
  <2>4. \/ flush'["shutdown"] = flush["shutdown"]
        \/ /\ flush["shutdown"].at = "done" /\ flush'["shutdown"].at = "ended"
           /\ flush'["shutdown"].win = flush["shutdown"].win
    BY <1>3, <1>5, <2>1 DEF Tasks
  <2>5. RateTypes'
    BY <1>3, <2>1, <2>3, RatePartsNext DEF CounterTypes
  <2>6. Settled'
    BY <1>2, <2>1 DEF Settled
  <2>7. Draining'
    BY <1>2, <2>1, <2>4 DEF Draining, Busy
  <2>8. NeverOvercounted'
    BY <1>2, <2>1, TotalIsSum
  <2>hold. Holding'
    BY <1>2, <1>3, <2>1 DEF Holding, Idle, Tasks
  <2>9. QED
    BY <2>5, <2>6, <2>7, <2>8, <2>hold DEF RateInv
<1>15. CASE UNCHANGED vars
  <2>1. RateTypes'
    BY <1>3, <1>15, RatePartsNext DEF CounterTypes, vars
  <2>2. Settled' /\ Draining'
    BY <1>2, <1>15 DEF Settled, Draining, Busy, vars
  <2>3. NeverOvercounted'
    BY <1>2, <1>15, TotalIsSum DEF vars
  <2>hold. Holding'
    BY <1>2, <1>15 DEF Holding, vars
  <2>4. QED
    BY <2>1, <2>2, <2>3, <2>hold DEF RateInv
<1>16. QED
  BY <1>1, <1>6, <1>7, <1>8, <1>9, <1>10, <1>11, <1>12, <1>13, <1>14, <1>15 DEF Next

LEMMA RateInvHolds == Spec => []RateInv
  BY RateInit, RateStep, PTL DEF Spec

\* The books of a window: what it takes for pushed was added to KV, was in a write
\* that failed every attempt, or is in the write under way.
Books ==
  /\ pushed \in [Windows -> Nat] /\ lost \in [Windows -> Nat]
  /\ \A w \in Windows : pushed[w] + lost[w] = synced[w] - write[w].delta

\* A step that neither starts nor ends a write.
LEMMA BooksKept ==
    ASSUME Books, UNCHANGED <<pushed, lost>>,
           \A v \in Windows : synced'[v] - write'[v].delta = synced[v] - write[v].delta
    PROVE  Books'
  BY DEF Books

\* A write starts: it carries what the window takes for pushed from now on.
LEMMA BooksSyncKey ==
    ASSUME RateTypes, Settled, Books, NEW w \in Windows, NEW c \in Nat, SyncKey(w, c),
           UNCHANGED <<pushed, lost>>
    PROVE  Books'
<1>1. SUFFICES ASSUME NEW v \in Windows
               PROVE  synced'[v] - write'[v].delta = synced[v] - write[v].delta
  BY BooksKept
<1>2. synced[v] \in Nat /\ write[v].delta \in Nat
  BY WindowTypes
<1>3. CASE synced'[v] = synced[v] /\ write'[v] = write[v]
  BY <1>3
<1>4. CASE v = w /\ synced'[w] = c /\ write'[w].delta = c - synced[w] /\ write[w].delta = 0
  BY <1>2, <1>4
<1>5. QED
  BY <1>3, <1>4, SyncKeyEffect

\* A write ends: its delta was added to KV, or is lost.
LEMMA BooksWriteEnds ==
    ASSUME RateTypes, Books, NEW w \in Windows, UNCHANGED synced,
           write'[w].delta = 0,
           \A v \in Windows : v # w => write'[v].delta = write[v].delta,
           \/ /\ pushed' = [pushed EXCEPT ![w] = @ + write[w].delta] /\ UNCHANGED lost
           \/ /\ lost' = [lost EXCEPT ![w] = @ + write[w].delta] /\ UNCHANGED pushed
    PROVE  Books'
<1>1. \A v \in Windows : synced[v] \in Nat /\ write[v].delta \in Nat
  BY WindowTypes
<1>2. pushed \in [Windows -> Nat] /\ lost \in [Windows -> Nat]
  BY DEF Books
<1>3. pushed' \in [Windows -> Nat] /\ lost' \in [Windows -> Nat]
  BY <1>1, <1>2
<1>4. ASSUME NEW v \in Windows
      PROVE  pushed'[v] + lost'[v] = synced'[v] - write'[v].delta
  <2>1. PICK p, l, s, d : p = pushed[v] /\ l = lost[v] /\ s = synced[v] /\ d = write[v].delta
    OBVIOUS
  <2>2. /\ p \in Nat /\ l \in Nat /\ s \in Nat /\ d \in Nat
        /\ p + l = s - d
    BY <1>1, <1>2, <2>1 DEF Books
  <2>3. CASE v # w
    BY <1>2, <2>1, <2>2, <2>3
  <2>4. CASE v = w
    <3>1. /\ synced'[v] = s /\ write'[v].delta = 0
          /\ \/ pushed'[v] = p + d /\ lost'[v] = l
             \/ pushed'[v] = p /\ lost'[v] = l + d
      BY <1>2, <2>1, <2>4
    <3>2. QED
      BY <2>2, <3>1
  <2>5. QED
    BY <2>3, <2>4
<1>5. QED
  BY <1>3, <1>4 DEF Books

LEMMA BooksInit == Init => Books
  BY DEF Init, Books, NoWrite, Write

LEMMA BooksStep == RateInv /\ Books /\ [Next]_vars => Books'
<1>1. SUFFICES ASSUME RateInv, Books, [Next]_vars PROVE Books'
  OBVIOUS
<1>2. RateTypes /\ Settled /\ Holding
  BY <1>1 DEF RateInv
<1>3. CounterTypes /\ write \in [Windows -> Writes] /\ flush \in [Flushers -> Tasks]
  BY <1>2, RateParts
<1>4. \A v \in Windows : count[v] \in Nat /\ write[v] \in Writes
  BY <1>2, WindowTypes
<1>5. CASE CheckLimit
  <2>1. now \in Windows /\ count[now] + 1 \in Nat
    BY <1>3, <1>4 DEF CounterTypes
  <2>2. UNCHANGED <<pushed, lost>> /\ (SyncKey(now, count[now] + 1) \/ UNCHANGED <<synced, write>>)
    BY <1>5 DEF CheckLimit, histories
  <2>3. QED
    BY <1>1, <1>2, <2>1, <2>2, BooksSyncKey, BooksKept
<1>6. CASE EndWindow \/ SyncTimer \/ OnShutdown
  <2>1. UNCHANGED <<pushed, lost, synced, write>>
    BY <1>6 DEF EndWindow, SyncTimer, OnShutdown, histories
  <2>2. QED
    BY <1>1, <2>1, BooksKept
<1>7. ASSUME NEW w \in Windows, KvRead(w) PROVE Books'
  <2>1. /\ UNCHANGED <<pushed, lost, synced>>
        /\ write' = [write EXCEPT ![w].read = TRUE, ![w].fresh = TRUE, ![w].over = kv.win < now]
    BY <1>7 DEF KvRead, histories
  <2>2. \A v \in Windows : write'[v].delta = write[v].delta
    BY <1>3, <1>4, <2>1 DEF Writes
  <2>3. QED
    BY <1>1, <2>1, <2>2, BooksKept
<1>8. ASSUME NEW w \in Windows, KvCommit(w) PROVE Books'
  <2>1. /\ pushed' = [pushed EXCEPT ![w] = @ + write[w].delta] /\ UNCHANGED <<lost, synced>>
        /\ write' = [v \in Windows |-> IF v = w THEN NoWrite ELSE [write[v] EXCEPT !.fresh = FALSE]]
    BY <1>8 DEF KvCommit
  <2>2. ASSUME NEW x \in Writes PROVE [x EXCEPT !.fresh = FALSE].delta = x.delta
    BY <2>2 DEF Writes
  <2>3. \A v \in Windows : v # w => write'[v].delta = write[v].delta
    BY <1>4, <2>1, <2>2
  <2>4. write'[w].delta = 0
    BY <2>1 DEF NoWrite, Write
  <2>5. QED
    BY <1>1, <1>2, <2>1, <2>3, <2>4, BooksWriteEnds
<1>9. ASSUME NEW w \in Windows, KvConflict(w) \/ KvFault(w) PROVE Books'
  <2>1. Retry(w) /\ UNCHANGED <<pushed, synced>>
    BY <1>9 DEF KvConflict, KvFault
  <2>2. CASE write[w].tries = Attempts
    <3>1. /\ write' = [write EXCEPT ![w] = NoWrite]
          /\ lost' = [lost EXCEPT ![w] = @ + write[w].delta]
      BY <2>1, <2>2 DEF Retry
    <3>2. write'[w].delta = 0 /\ \A v \in Windows : v # w => write'[v].delta = write[v].delta
      BY <1>3, <3>1 DEF NoWrite, Write
    <3>3. QED
      BY <1>1, <1>2, <2>1, <3>1, <3>2, BooksWriteEnds
  <2>3. CASE write[w].tries # Attempts
    <3>1. /\ write' = [write EXCEPT ![w] = Write(write[w].delta, write[w].tries + 1)]
          /\ UNCHANGED lost
      BY <2>1, <2>3 DEF Retry
    <3>2. \A v \in Windows : write'[v].delta = write[v].delta
      BY <1>3, <3>1 DEF Write
    <3>3. QED
      BY <1>1, <2>1, <3>1, <3>2, BooksKept
  <2>4. QED
    BY <2>2, <2>3
<1>10. ASSUME NEW f \in Flushers, FlushSync(f) PROVE Books'
  <2>1. PICK w : w = flush[f].win
    OBVIOUS
  <2>2. flush[f].at = "ready" /\ SyncKey(w, count[w]) /\ UNCHANGED <<pushed, lost>>
    BY <1>10, <2>1 DEF FlushSync, histories
  <2>3. w \in Windows \cup {NoWindow}
    BY <1>3, <2>1 DEF Tasks
  <2>4. w \in Windows
    BY <1>2, <2>1, <2>2, <2>3 DEF Holding
  <2>5. QED
    BY <1>1, <1>2, <1>4, <2>2, <2>4, BooksSyncKey
<1>11. ASSUME NEW f \in Flushers, FlushEnds(f) PROVE Books'
  <2>1. UNCHANGED <<pushed, lost, synced, write>>
    BY <1>11 DEF FlushEnds, histories
  <2>2. QED
    BY <1>1, <2>1, BooksKept
<1>12. CASE UNCHANGED vars
  <2>1. UNCHANGED <<pushed, lost, synced, write>>
    BY <1>12 DEF vars, histories
  <2>2. QED
    BY <1>1, <2>1, BooksKept
<1>13. QED
  BY <1>1, <1>5, <1>6, <1>7, <1>8, <1>9, <1>10, <1>11, <1>12 DEF Next

LEMMA BooksHold == Spec => []Books
  BY RateInvHolds, BooksInit, BooksStep, PTL DEF Spec

\* The state of the rate limit keeps its types, for every limit and any number
\* of windows, requests and faults of KV.
THEOREM RateTypeCorrect == Spec => []TypeOK
<1>1. RateInv /\ Books => TypeOK
  BY DEF RateInv, RateTypes, CounterTypes, Writes, Tasks, Books, TypeOK
<1>2. QED
  BY <1>1, RateInvHolds, BooksHold, PTL

\* The counter in KV never exceeds the requests that were counted: whatever the
\* conflicts, retries and windows that end under a write, each delta is added at
\* most once (syncKey, syncToKv).
THEOREM CounterNeverOvercounts == Spec => []NeverOvercounted
<1>1. RateInv => NeverOvercounted
  BY DEF RateInv
<1>2. QED
  BY <1>1, RateInvHolds, PTL

\* When onShutdown has ended, every request that was counted in the live window
\* before it began was added to KV or was in a write that failed every attempt;
\* none waits and none is on its way (flushMemoryTier).
THEOREM ShutdownFlushes == Spec => []FlushedAtShutdown
<1>1. RateInv /\ Books => FlushedAtShutdown
  <2>1. SUFFICES ASSUME RateInv, Books, NEW w \in Windows,
                        flush["shutdown"] = [at |-> "ended", win |-> w]
                 PROVE  pushed[w] + lost[w] >= mark[w]
    BY DEF FlushedAtShutdown
  <2>2. flush["shutdown"].at = "ended" /\ flush["shutdown"].win = w
    BY <2>1
  <2>3. synced[w] - write[w].delta >= mark[w]
    BY <2>1, <2>2 DEF RateInv, Draining
  <2>4. QED
    BY <2>1, <2>3 DEF Books
<1>2. QED
  BY <1>1, RateInvHolds, BooksHold, PTL
=============================================================================
