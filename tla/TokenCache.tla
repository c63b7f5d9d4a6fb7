----------------------------- MODULE TokenCache -----------------------------
(***************************************************************************)
(* The bearer-token cache of the gateway (auth_metadata/token.rs) and the  *)
(* signBlob calls that share it (gcs/sign.rs).  get_or_refresh reads the   *)
(* cache under a read lock, and again under the write lock, which it keeps *)
(* while the metadata server is asked for a token; a call that is answered *)
(* 401 with a cached token empties the cache and tries once more.          *)
(*                                                                         *)
(* Tokens are numbered in the order in which the metadata server mints     *)
(* them.  It hands its latest token out again for as long as that has not  *)
(* expired, or mints another one.  IAM may refuse a token before it        *)
(* expires (Revoke), which also stands for the expiry of a token that the  *)
(* server has replaced.                                                    *)
(***************************************************************************)
EXTENDS Integers

CONSTANTS
  Calls,           \* calls of call_sign_blob
  Ahead,           \* REFRESH_AHEAD_SECS in ticks
  Ttl,             \* the longest expires_in of the metadata server, in ticks
  MaxRevocations,  \* bound on tokens that IAM refuses early
  MaxFaults,       \* bound on failed fetches and posts
  None             \* no call holds the write lock

ASSUME TokenAssumption ==
  /\ Ahead \in Nat
  /\ Ttl \in Nat \ {0}
  /\ MaxRevocations \in Nat
  /\ MaxFaults \in Nat
  /\ None \notin Calls

VARIABLES
  cache,      \* the cached token (0: None)
  left,       \* ticks until the last token minted expires
  writer,     \* the call that holds the write lock
  minted,     \* the last token minted
  dead,       \* the tokens that IAM refuses
  pc,         \* where each call is
  tok,        \* the token each call got (0: none)
  fromCache,  \* per call: whether that token came from the cache
  refused,    \* the calls at their second attempt
  during,     \* history: the calls refused before the fetch under way began
  after,      \* history: the calls refused before the cached token's fetch began
  revoked,    \* how many tokens were refused early
  faults      \* how many faults have happened

cacheVars == <<cache, left>>
callVars == <<tok, fromCache, refused>>
fetchVars == <<during, after>>
vars == <<cacheVars, writer, minted, dead, pc, callVars, fetchVars, revoked, faults>>

Steps == {"idle", "write", "fetch", "post", "invalidate", "get_again", "ok", "error"}

\* The type of every variable: the cache, its lock and the calls.
TypeOK ==
  /\ cache \in Nat
  /\ left \in Nat
  /\ writer \in Calls \cup {None}
  /\ minted \in Nat
  /\ dead \subseteq Nat
  /\ pc \in [Calls -> Steps]
  /\ tok \in [Calls -> Nat]
  /\ fromCache \in [Calls -> BOOLEAN]
  /\ refused \subseteq Calls /\ during \subseteq Calls /\ after \subseteq Calls
  /\ revoked \in 0 .. MaxRevocations
  /\ faults \in 0 .. MaxFaults

Init ==
  /\ cache = 0 /\ left = 0
  /\ writer = None
  /\ minted = 0
  /\ dead = {}
  /\ pc = [c \in Calls |-> "idle"]
  /\ tok = [c \in Calls |-> 0]
  /\ fromCache = [c \in Calls |-> FALSE]
  /\ refused = {} /\ during = {} /\ after = {}
  /\ revoked = 0
  /\ faults = 0

Fault == faults < MaxFaults /\ faults' = faults + 1

Goto(c, step) == pc' = [pc EXCEPT ![c] = step]

\* now < expires_at - REFRESH_AHEAD
Fresh == cache # 0 /\ left > Ahead

Take(c, token, cached) ==
  /\ tok' = [tok EXCEPT ![c] = token]
  /\ fromCache' = [fromCache EXCEPT ![c] = cached]
  /\ UNCHANGED refused

-----------------------------------------------------------------------------

\* get_or_refresh, the fast path: the read lock is free when no call writes.
ReadCache(c) ==
  /\ pc[c] \in {"idle", "get_again"}
  /\ writer = None
  /\ \/ Fresh /\ Take(c, cache, TRUE) /\ Goto(c, "post")
     \/ ~Fresh /\ UNCHANGED callVars /\ Goto(c, "write")
  /\ UNCHANGED <<cacheVars, writer, minted, dead, fetchVars, revoked, faults>>

\* Variant of LockCache: no second look under the write lock.
LockUnchecked(c) ==
  /\ pc[c] = "write"
  /\ writer = None
  /\ writer' = c
  /\ during' = refused
  /\ Goto(c, "fetch")
  /\ UNCHANGED <<cacheVars, callVars, minted, dead, after, revoked, faults>>

\* get_or_refresh, the slow path: the write lock and the second look.
LockCache(c) ==
  /\ pc[c] = "write"
  /\ writer = None
  /\ \/ Fresh /\ Take(c, cache, TRUE) /\ Goto(c, "post") /\ UNCHANGED <<writer, during>>
     \/ /\ ~Fresh
        /\ writer' = c
        /\ during' = refused
        /\ Goto(c, "fetch")
        /\ UNCHANGED callVars
  /\ UNCHANGED <<cacheVars, minted, dead, after, revoked, faults>>

\* What the metadata server answers: its latest token again, or another one.
Token ==
  \/ minted # 0 /\ left > 0 /\ UNCHANGED <<minted, left>>
  \/ minted' = minted + 1 /\ left' \in 1 .. Ttl

\* fetch_token, and what get_or_refresh does with its result.
FetchToken(c) ==
  /\ pc[c] = "fetch"
  /\ writer' = None
  /\ \/ /\ Token
        /\ cache' = minted'
        /\ after' = during
        /\ Take(c, minted', FALSE)
        /\ Goto(c, "post")
        /\ UNCHANGED faults
     \/ /\ Fault
        /\ Goto(c, "error")
        /\ UNCHANGED <<minted, cacheVars, callVars, after>>
  /\ during' = {}
  /\ UNCHANGED <<dead, revoked>>

\* Variant of Post: every 401 is tried again.
PostUntilAccepted(c) ==
  /\ pc[c] = "post"
  /\ \/ tok[c] \notin dead /\ Goto(c, "ok") /\ UNCHANGED <<refused, faults>>
     \/ /\ tok[c] \in dead
        /\ refused' = refused \cup {c}
        /\ Goto(c, "invalidate")
        /\ UNCHANGED faults
     \/ Fault /\ Goto(c, "error") /\ UNCHANGED refused
  /\ UNCHANGED <<cacheVars, writer, minted, dead, tok, fromCache, fetchVars, revoked>>

\* call_sign_blob: the POST and its status.
Post(c) ==
  /\ pc[c] = "post"
  /\ \/ tok[c] \notin dead /\ Goto(c, "ok") /\ UNCHANGED <<refused, faults>>
     \/ /\ tok[c] \in dead /\ fromCache[c] /\ c \notin refused
        /\ refused' = refused \cup {c}
        /\ Goto(c, "invalidate")
        /\ UNCHANGED faults
     \/ /\ tok[c] \in dead /\ (~fromCache[c] \/ c \in refused)
        /\ Goto(c, "error")
        /\ UNCHANGED <<refused, faults>>
     \/ Fault /\ Goto(c, "error") /\ UNCHANGED refused
  /\ UNCHANGED <<cacheVars, writer, minted, dead, tok, fromCache, fetchVars, revoked>>

\* Variant of Invalidate: the cache is left as it is.
InvalidateNothing(c) ==
  /\ pc[c] = "invalidate"
  /\ writer = None
  /\ Goto(c, "get_again")
  /\ UNCHANGED <<cacheVars, writer, minted, dead, callVars, fetchVars, revoked, faults>>

\* invalidate
Invalidate(c) ==
  /\ pc[c] = "invalidate"
  /\ writer = None
  /\ cache' = 0 /\ after' = {}
  /\ Goto(c, "get_again")
  /\ UNCHANGED <<left, writer, minted, dead, callVars, during, revoked, faults>>

SignBlob(c) ==
  \/ ReadCache(c) \/ LockCache(c) \/ FetchToken(c) \/ Post(c) \/ Invalidate(c)

\* The clock; an expired token is refused.
Tick ==
  /\ left > 0
  /\ left' = left - 1
  /\ dead' = IF left = 1 THEN dead \cup {minted} ELSE dead
  /\ UNCHANGED <<cache, writer, minted, pc, callVars, fetchVars, revoked, faults>>

\* IAM stops accepting the tokens minted so far.
Revoke ==
  /\ revoked < MaxRevocations
  /\ revoked' = revoked + 1
  /\ dead' = dead \cup 1 .. minted
  /\ UNCHANGED <<cacheVars, writer, minted, pc, callVars, fetchVars, faults>>

Next == (\E c \in Calls : SignBlob(c)) \/ Tick \/ Revoke

Spec == Init /\ [][Next]_vars

\* The locks of tokio are fair and every await has a timeout.
FairSpec == Spec /\ \A c \in Calls : WF_vars(SignBlob(c))

-----------------------------------------------------------------------------
(* Properties.                                                             *)

\* get_or_refresh asks the metadata server only when it has to: while a call
\* fetches, it holds the write lock and no usable token is cached, however
\* many calls found the cache stale together.
FetchOnlyWhenStale ==
  \A c \in Calls : pc[c] = "fetch" => writer = c /\ ~Fresh

\* "Evict the cached token so the next get_or_refresh forces a fresh fetch": the
\* second attempt of call_sign_blob posts what a fetch returned that began after
\* its 401, whatever other calls were fetching, and put into the cache, between
\* the 401, invalidate and the second get_or_refresh.  (The metadata server may
\* return the refused token again, and then the second attempt fails too.)
RetryFetchedAnew ==
  [][\A c \in refused : pc[c] # "post" /\ pc'[c] = "post" => c \in after']_vars

\* Every call is answered, also when the metadata server hands the refused token
\* out again and again: neither the lock kept across the fetch nor the retry can
\* block or repeat for ever.
CallsAnswered == \A c \in Calls : <>(pc[c] \in {"ok", "error"})
=============================================================================
