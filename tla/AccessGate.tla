----------------------------- MODULE AccessGate -----------------------------
(***************************************************************************)
(* A request of the web interface on its way through                       *)
(* SecurityMiddleware.auth (interface/web/middleware/security.ts): black   *)
(* list, rate limit (module RateLimit), session cookie, bearer token, API  *)
(* key.  SessionService (domain/identity/session.ts) and ApiKeysService    *)
(* (domain/identity/api_keys.ts) answer from KV records that every request *)
(* writes back with a new time of use, while logout and revocation delete  *)
(* them: each await is a step here.                                        *)
(*                                                                         *)
(* One session and one key are modelled.  A KvRepository.set or delete     *)
(* reads the entry and commits with a check, again after a conflict: it is *)
(* one atomic step, and its fifth conflict in a row, which needs five other*)
(* writers, is left out.                                                   *)
(***************************************************************************)
EXTENDS FiniteSets

CONSTANT Requests

VARIABLES
  pc,       \* where a request is, at the end the credential that admitted it
  late,     \* what was already void when it arrived (history)
  session,  \* the record: "none" yet, "stored", "absent"; and its expiresAt passed
  expired,
  idRec,    \* api_keys_id and api_keys_hash hold the key
  hashRec,
  touch,    \* requests whose save of lastUsed is still under way
  life,     \* createApiKey and revokeApiKey: what was done last
  over,     \* the session was logged out (history)
  revived   \* a request from before the logout saved it after it (history)

keyVars == <<idRec, hashRec, touch, life>>
ended == <<over, revived>>
vars == <<pc, late, session, expired, ended, keyVars>>

Ends == {"expiry", "logout", "revocation"}
Places == {"new", "cookie", "save", "drop", "bearer", "header", "hash", "refused",
           "session", "token", "key"}

Init ==
  /\ pc = [r \in Requests |-> "new"] /\ late = [r \in Requests |-> {}]
  /\ session = "none" /\ expired = FALSE /\ over = FALSE /\ revived = FALSE
  /\ idRec = FALSE /\ hashRec = FALSE /\ touch = {} /\ life = "none"

Go(r, place) == pc' = [pc EXCEPT ![r] = place]

Void == {k \in Ends : \/ k = "expiry" /\ expired
                      \/ k = "logout" /\ over
                      \/ k = "revocation" /\ life = "revoked"}

(* auth() up to the first await that matters here: the black list or the   *)
(* rate limit refuses the request, or its credentials are looked at.       *)
Arrive(r) ==
  /\ pc[r] = "new"
  /\ late' = [late EXCEPT ![r] = Void]
  /\ Go(r, "cookie") \/ Go(r, "refused")
  /\ UNCHANGED <<session, expired, ended, keyVars>>

(* Mutant: the time is not looked at.                                      *)
SessionReadAny(r) ==
  /\ pc[r] = "cookie"
  /\ Go(r, "bearer") \/ (session = "stored" /\ Go(r, "save"))
  /\ UNCHANGED <<late, session, expired, ended, keyVars>>

(* Without a session cookie, or with one whose record is gone, the bearer  *)
(* token is looked at; validateSession reads the record ...                *)
SessionRead(r) ==
  /\ pc[r] = "cookie"
  /\ \/ Go(r, "bearer")
     \/ session = "stored" /\ Go(r, IF expired THEN "drop" ELSE "save")
  /\ UNCHANGED <<late, session, expired, ended, keyVars>>

(* ... deletes one that has expired ...                                    *)
SessionDrop(r) ==
  /\ pc[r] = "drop"
  /\ session' = "absent"
  /\ Go(r, "bearer")
  /\ UNCHANGED <<late, expired, ended, keyVars>>

(* ... and saves a live one back with a new lastSeen.  The request is      *)
(* admitted, or refused without a look at its other credentials when a     *)
(* changing method lacks the token of the session.                         *)
SessionSave(r) ==
  /\ pc[r] = "save"
  /\ session' = "stored"
  /\ revived' = (revived \/ (over /\ "logout" \notin late[r]))
  /\ Go(r, "session") \/ Go(r, "refused")
  /\ UNCHANGED <<late, expired, over, keyVars>>

TokenCheck(r) ==
  /\ pc[r] = "bearer"
  /\ \E place \in {"token", "header", "refused"} : Go(r, place)
  /\ UNCHANGED <<late, session, expired, ended, keyVars>>

(* validateApiKey reads the hash of the id, then the record of the hash;   *)
(* the save of lastUsed is not awaited.                                    *)
KeyIdRead(r) ==
  /\ pc[r] = "header"
  /\ Go(r, IF idRec THEN "hash" ELSE "refused")
  /\ UNCHANGED <<late, session, expired, ended, keyVars>>

KeyHashRead(r) ==
  /\ pc[r] = "hash"
  /\ Go(r, IF hashRec THEN "key" ELSE "refused")
  /\ touch' = IF hashRec THEN touch \cup {r} ELSE touch
  /\ UNCHANGED <<late, session, expired, ended, idRec, hashRec, life>>

KeyTouch(r) ==
  /\ r \in touch
  /\ touch' = touch \ {r}
  /\ hashRec' = TRUE
  /\ UNCHANGED <<pc, late, session, expired, ended, idRec, life>>

(* createSession (login): the record is saved before its id is handed out. *)
Login ==
  /\ session = "none"
  /\ session' = "stored"
  /\ UNCHANGED <<pc, late, expired, ended, keyVars>>

(* revokeSession (logout): a validation that has read the record, and not  *)
(* saved it yet, will write it again.                                      *)
Logout ==
  /\ session = "stored"
  /\ session' = "absent"
  /\ over' = TRUE
  /\ UNCHANGED <<pc, late, expired, revived, keyVars>>

(* expiresAt passes; cleanupExpired removes what has expired.              *)
Expire ==
  /\ session # "none" /\ ~expired
  /\ expired' = TRUE
  /\ UNCHANGED <<pc, late, session, ended, keyVars>>

CleanupExpired ==
  /\ expired /\ session = "stored"
  /\ session' = "absent"
  /\ UNCHANGED <<pc, late, expired, ended, keyVars>>

(* createApiKey stores the id, then the record of the hash.                *)
KeyStoreId ==
  /\ life = "none"
  /\ idRec' = TRUE /\ life' = "id"
  /\ UNCHANGED <<pc, late, session, expired, ended, hashRec, touch>>

KeyStoreHash ==
  /\ life = "id"
  /\ hashRec' = TRUE /\ life' = "live"
  /\ UNCHANGED <<pc, late, session, expired, ended, idRec, touch>>

(* revokeApiKey reads the id, deletes the record of the hash, then the id. *)
RevokeBegin ==
  /\ life = "live" /\ idRec
  /\ life' = "revoking"
  /\ UNCHANGED <<pc, late, session, expired, ended, idRec, hashRec, touch>>

RevokeHash ==
  /\ life = "revoking"
  /\ hashRec' = FALSE /\ life' = "hashless"
  /\ UNCHANGED <<pc, late, session, expired, ended, idRec, touch>>

(* Mutant: only the record of the hash is deleted.                         *)
RevokeIdKeeps ==
  /\ life = "hashless"
  /\ life' = "revoked"
  /\ UNCHANGED <<pc, late, session, expired, ended, idRec, hashRec, touch>>

RevokeId ==
  /\ life = "hashless"
  /\ idRec' = FALSE /\ life' = "revoked"
  /\ UNCHANGED <<pc, late, session, expired, ended, hashRec, touch>>

RequestStep(r) ==
  \/ SessionRead(r) \/ SessionDrop(r) \/ SessionSave(r) \/ TokenCheck(r)
  \/ KeyIdRead(r) \/ KeyHashRead(r) \/ KeyTouch(r)

Next ==
  \/ \E r \in Requests : Arrive(r) \/ RequestStep(r)
  \/ Login \/ Logout \/ Expire \/ CleanupExpired
  \/ KeyStoreId \/ KeyStoreHash \/ RevokeBegin \/ RevokeHash \/ RevokeId

Spec == Init /\ [][Next]_vars

TypeOK ==
  /\ pc \in [Requests -> Places]
  /\ late \in [Requests -> SUBSET Ends]
  /\ session \in {"none", "absent", "stored"} /\ expired \in BOOLEAN /\ over \in BOOLEAN
  /\ revived \in BOOLEAN
  /\ idRec \in BOOLEAN /\ hashRec \in BOOLEAN /\ touch \subseteq Requests
  /\ life \in {"none", "id", "live", "revoking", "hashless", "revoked"}

(* A key that was revoked when the request arrived never admits it, although*)
(* validations that were under way write the record of its hash back after *)
(* the revocation (validateApiKey, revokeApiKey).                          *)
RevokedKeyRefused == \A r \in Requests : ~(pc[r] = "key" /\ "revocation" \in late[r])

(* A session that had expired when a request arrived never admits it, and  *)
(* one that was logged out admits it only if a request from before the     *)
(* logout, whose validation was under way, has saved the record after it:  *)
(* neither the lastSeen that other overlapping requests save, nor the      *)
(* cleanup, brings a session back (validateSession, revokeSession,         *)
(* cleanupExpired).                                                        *)
EndedSessionRefused ==
  \A r \in Requests :
    pc[r] = "session" => "expiry" \notin late[r] /\ ("logout" \in late[r] => revived)
=============================================================================
