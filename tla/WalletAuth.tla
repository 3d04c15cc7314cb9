----------------------------- MODULE WalletAuth -----------------------------
(***************************************************************************)
(* backend/auth/wallet_auth.py over backend/core/redis_client.py: the      *)
(* nonces and refresh tokens of one wallet.  Redis is shared by replicas   *)
(* and any single call to it may fail, before or after it took effect; a   *)
(* nonce Redis did not say it kept is kept in the memory of the replica.   *)
(* verify_nonce reads and deletes in two calls, and logins of other        *)
(* replicas run between them.                                              *)
(***************************************************************************)
EXTENDS Integers, FiniteSets, Sequences

CONSTANTS
  Replicas,    \* backend processes
  MaxNonces,   \* nonces generated in a behaviour (bound)
  MaxSessions  \* logins followed (bound)

ASSUME WalletAuthAssumption == MaxNonces \in Nat /\ MaxSessions \in Nat

VARIABLES
  nonceKey,    \* Redis: nonce:<wallet>, 0 when absent
  refreshKey,  \* Redis: refresh:<wallet>, the login whose token it is, 0 when absent
  memory,      \* _memory_nonces of each replica
  reading,     \* of each replica: the nonce that verify_nonce found and will delete
  generated,   \* nonces given out
  sessions,    \* history: of each login its nonce and where it was found
  doubled,     \* history: nonces kept both by Redis and in a memory
  leaked,      \* history: nonces whose deletion failed or that two logins had read
  revoked      \* history: logins whose token was replaced, deleted or not kept

authVars == <<nonceKey, refreshKey, memory, reading, generated, sessions, doubled, leaked,
              revoked>>

Nonces == 0..MaxNonces

Login == [nonce : Nonces \ {0}, from : {"redis", "memory"}]

AuthTypeOK ==
  /\ nonceKey \in Nonces /\ refreshKey \in 0..MaxSessions /\ generated \in Nonces
  /\ memory \in [Replicas -> Nonces] /\ reading \in [Replicas -> Nonces]
  /\ sessions \in Seq(Login)
  /\ doubled \subseteq Nonces /\ leaked \subseteq Nonces /\ revoked \subseteq 1..MaxSessions

AuthInit ==
  /\ nonceKey = 0 /\ refreshKey = 0 /\ generated = 0
  /\ memory = [r \in Replicas |-> 0] /\ reading = [r \in Replicas |-> 0]
  /\ sessions = <<>> /\ doubled = {} /\ leaked = {} /\ revoked = {}

-----------------------------------------------------------------------------
\* generate_nonce.  What Redis answered is the outcome of its set: "kept",
\* "refused" without an effect, or "unheard" when it was kept and the answer
\* did not arrive, which the client takes for a refusal.
IssueNonce(r, outcome) ==
  /\ generated < MaxNonces
  /\ generated' = generated + 1
  /\ nonceKey' = IF outcome = "refused" THEN nonceKey ELSE generated'
  /\ memory' = IF outcome = "kept" THEN memory ELSE [memory EXCEPT ![r] = generated']
  /\ doubled' = IF outcome = "unheard" THEN doubled \cup {generated'} ELSE doubled
  /\ UNCHANGED <<refreshKey, reading, sessions, leaked, revoked>>

\* verify_nonce up to the comparison with what Redis holds.
FindNonce(r) ==
  /\ reading[r] = 0
  /\ nonceKey # 0
  /\ Len(sessions) < MaxSessions
  /\ reading' = [reading EXCEPT ![r] = nonceKey]
  /\ leaked' = IF \E s \in Replicas : reading[s] = nonceKey THEN leaked \cup {nonceKey} ELSE leaked
  /\ UNCHANGED <<nonceKey, refreshKey, memory, generated, sessions, doubled, revoked>>

\* The tokens of a login whose signature was accepted; a refresh token that
\* Redis does not keep leaves the one of an earlier login in place.  Its answer
\* is not looked at: "keeps" is whether the set took effect.
LogIn(nonce, from, keeps) ==
  /\ sessions' = Append(sessions, [nonce |-> nonce, from |-> from])
  /\ refreshKey' = IF keeps THEN Len(sessions') ELSE refreshKey
  /\ revoked' = revoked \cup
       IF keeps THEN {refreshKey} \ {0} ELSE {Len(sessions')}

\* The key is deleted, whatever it holds by then; an error is not looked at:
\* "deletes" is whether the deletion took effect.
DeleteNonce(r, deletes, signed, keeps) ==
  /\ reading[r] # 0
  /\ Len(sessions) < MaxSessions
  /\ reading' = [reading EXCEPT ![r] = 0]
  /\ nonceKey' = IF deletes THEN 0 ELSE nonceKey
  /\ leaked' = IF deletes THEN leaked ELSE leaked \cup {reading[r]}
  /\ IF signed THEN LogIn(reading[r], "redis", keeps)
     ELSE UNCHANGED <<sessions, refreshKey, revoked>>
  /\ UNCHANGED <<memory, generated, doubled>>

\* Mutant of Forgotten: the nonce stays in the memory.
NotForgotten(r) == memory

Forgotten(r) == [memory EXCEPT ![r] = 0]

\* The fallback, when Redis failed or holds another nonce: it has no expiry.
LogInFromMemory(r, signed, keeps) ==
  /\ reading[r] = 0
  /\ memory[r] # 0
  /\ Len(sessions) < MaxSessions
  /\ memory' = Forgotten(r)
  /\ IF signed THEN LogIn(memory[r], "memory", keeps)
     ELSE UNCHANGED <<sessions, refreshKey, revoked>>
  /\ UNCHANGED <<nonceKey, reading, generated, doubled, leaked>>

\* logout, when the deletion works; otherwise it changes nothing and says nothing.
LogOut ==
  /\ refreshKey # 0
  /\ refreshKey' = 0
  /\ revoked' = revoked \cup {refreshKey}
  /\ UNCHANGED <<nonceKey, memory, reading, generated, sessions, doubled, leaked>>

\* A time to live ends.
Expire ==
  /\ \/ nonceKey # 0 /\ nonceKey' = 0 /\ UNCHANGED <<refreshKey, revoked>>
     \/ /\ refreshKey # 0 /\ refreshKey' = 0 /\ UNCHANGED nonceKey
        /\ revoked' = revoked \cup {refreshKey}
  /\ UNCHANGED <<memory, reading, generated, sessions, doubled, leaked>>

AuthNext ==
  \/ \E r \in Replicas :
       \/ \E outcome \in {"kept", "refused", "unheard"} : IssueNonce(r, outcome)
       \/ FindNonce(r)
       \/ \E deletes, signed, keeps \in BOOLEAN : DeleteNonce(r, deletes, signed, keeps)
       \/ \E signed, keeps \in BOOLEAN : LogInFromMemory(r, signed, keeps)
  \/ LogOut
  \/ Expire

-----------------------------------------------------------------------------
\* A nonce opens at most one session, with two exceptions.  Redis kept it and
\* the answer was lost (redis_client.py:48): it is in a memory too, and opens
\* one session from each.  Redis failed to delete it, or two replicas had read
\* it before either deleted it (verify_nonce, wallet_auth.py:31): it opens
\* several from Redis, but from a memory never more than one.  A refresh token
\* that was replaced, deleted or never kept is accepted no more
\* (refresh_access_token, wallet_auth.py:78).
NonceOpensOneSession ==
  /\ \A i, j \in DOMAIN sessions :
       LET nonce == sessions[i].nonce IN
       i # j /\ nonce = sessions[j].nonce =>
         \/ sessions[i].from # sessions[j].from /\ nonce \in doubled
         \/ sessions[i].from = "redis" /\ sessions[j].from = "redis" /\ nonce \in leaked
  /\ refreshKey \notin revoked
=============================================================================
