-------------------------- MODULE TokenCacheProofs --------------------------
(***************************************************************************)
(* The safety of TokenCache for any number of calls, any lifetime of the   *)
(* tokens and any number of faults.  FetchOnlyWhenStale is inductive with  *)
(* TypeOK: it says that the write lock belongs to the one call that        *)
(* fetches.  RetryFetchedAnew needs to know what a call that was refused   *)
(* finds once it has emptied the cache: RefetchedAfter says that whatever  *)
(* is cached, or being fetched, was asked for after its 401.               *)
(***************************************************************************)
EXTENDS TokenCache, TLAPS

\* From its invalidate on, a refused call meets only fetches younger than its 401.
RefetchedAfter ==
  \A c \in refused : pc[c] \in {"get_again", "write", "fetch"} =>
    /\ cache # 0 => c \in after
    /\ writer # None => c \in during

\* A call is not refused before it has posted.
IdleUnrefused == \A c \in Calls : pc[c] = "idle" => c \notin refused

Inv == TypeOK /\ FetchOnlyWhenStale /\ RefetchedAfter /\ IdleUnrefused

LEMMA InitInv == Init => Inv
  BY TokenAssumption
  DEF TokenAssumption, Init, Inv, TypeOK, FetchOnlyWhenStale, RefetchedAfter,
      IdleUnrefused, Steps, Fresh

LEMMA NextInv == Inv /\ [Next]_vars => Inv'
<1> SUFFICES ASSUME Inv, [Next]_vars PROVE Inv'
  OBVIOUS
<1> USE TokenAssumption DEF TokenAssumption, Inv
<1>1. ASSUME NEW c \in Calls, ReadCache(c) PROVE Inv'
  <2>1. fromCache \in [Calls -> BOOLEAN]
    BY DEF TypeOK
  <2>2. \/ UNCHANGED fromCache
        \/ \E b \in BOOLEAN : fromCache' = [fromCache EXCEPT ![c] = b]
    BY <1>1, Zenon DEF ReadCache, Take, callVars
  <2>3. fromCache' \in [Calls -> BOOLEAN]
    BY <2>1, <2>2, Zenon
  <2>4. /\ cache' \in Nat /\ left' \in Nat /\ writer' \in Calls \cup {None}
        /\ minted' \in Nat /\ dead' \subseteq Nat
        /\ revoked' \in 0 .. MaxRevocations /\ faults' \in 0 .. MaxFaults
    BY <1>1, Zenon DEF ReadCache, TypeOK, cacheVars
  <2>5. pc' \in [Calls -> Steps]
    BY <1>1, Zenon DEF ReadCache, Goto, TypeOK, Steps
  <2>6. tok' \in [Calls -> Nat]
    BY <1>1, <2>4 DEF ReadCache, Take, TypeOK, callVars
  <2>7. refused' = refused /\ during' \subseteq Calls /\ after' \subseteq Calls
    BY <1>1 DEF ReadCache, Take, TypeOK, callVars, fetchVars
  <2>8. FetchOnlyWhenStale'
    BY <1>1, Zenon DEF ReadCache, Goto, TypeOK, Steps, cacheVars, Fresh, FetchOnlyWhenStale
  <2>9. RefetchedAfter'
    BY <1>1, <2>7 DEF ReadCache, Goto, TypeOK, cacheVars, fetchVars, Fresh,
      FetchOnlyWhenStale, RefetchedAfter, IdleUnrefused
  <2>10. IdleUnrefused'
    BY <1>1, <2>7, Zenon DEF ReadCache, Goto, TypeOK, IdleUnrefused
  <2> QED
    BY <2>3, <2>4, <2>5, <2>6, <2>7, <2>8, <2>9, <2>10 DEF TypeOK
<1>2. ASSUME NEW c \in Calls, LockCache(c) PROVE Inv'
  <2>1. fromCache \in [Calls -> BOOLEAN]
    BY DEF TypeOK
  <2>2. \/ UNCHANGED fromCache
        \/ \E b \in BOOLEAN : fromCache' = [fromCache EXCEPT ![c] = b]
    BY <1>2, Zenon DEF LockCache, Take, callVars
  <2>3. fromCache' \in [Calls -> BOOLEAN]
    BY <2>1, <2>2, Zenon
  <2>4. /\ cache' \in Nat /\ left' \in Nat /\ writer' \in Calls \cup {None}
        /\ minted' \in Nat /\ dead' \subseteq Nat
        /\ revoked' \in 0 .. MaxRevocations /\ faults' \in 0 .. MaxFaults
    BY <1>2, Zenon DEF LockCache, TypeOK, cacheVars
  <2>5. pc' \in [Calls -> Steps]
    BY <1>2, Zenon DEF LockCache, Goto, TypeOK, Steps
  <2>6. tok' \in [Calls -> Nat]
    BY <1>2, <2>4 DEF LockCache, Take, TypeOK, callVars
  <2>7. refused' = refused /\ during' \subseteq Calls /\ after' \subseteq Calls
    BY <1>2 DEF LockCache, Take, TypeOK, callVars, fetchVars
  <2>8. FetchOnlyWhenStale'
    BY <1>2, Zenon DEF LockCache, Goto, TypeOK, Steps, cacheVars, Fresh, FetchOnlyWhenStale
  <2>9. RefetchedAfter'
    BY <1>2, <2>7 DEF LockCache, Goto, TypeOK, cacheVars, fetchVars, Fresh,
      FetchOnlyWhenStale, RefetchedAfter, IdleUnrefused
  <2>10. IdleUnrefused'
    BY <1>2, <2>7, Zenon DEF LockCache, Goto, TypeOK, IdleUnrefused
  <2> QED
    BY <2>3, <2>4, <2>5, <2>6, <2>7, <2>8, <2>9, <2>10 DEF TypeOK
<1>3. ASSUME NEW c \in Calls, FetchToken(c) PROVE Inv'
  <2>1. fromCache \in [Calls -> BOOLEAN]
    BY DEF TypeOK
  <2>2. \/ UNCHANGED fromCache
        \/ \E b \in BOOLEAN : fromCache' = [fromCache EXCEPT ![c] = b]
    BY <1>3, Zenon DEF FetchToken, Take, callVars
  <2>3. fromCache' \in [Calls -> BOOLEAN]
    BY <2>1, <2>2, Zenon
  <2>4. /\ cache' \in Nat /\ left' \in Nat /\ writer' \in Calls \cup {None}
        /\ minted' \in Nat /\ dead' \subseteq Nat
        /\ revoked' \in 0 .. MaxRevocations /\ faults' \in 0 .. MaxFaults
    <3>1. \/ /\ minted' \in {minted, minted + 1} /\ cache' = minted'
             /\ left' \in {left} \cup 1 .. Ttl /\ faults' = faults
          \/ /\ minted' = minted /\ cache' = cache /\ left' = left
             /\ faults < MaxFaults /\ faults' = faults + 1
      BY <1>3, Zenon DEF FetchToken, Token, Fault, cacheVars
    <3>2. /\ cache' \in Nat /\ minted' \in Nat /\ left' \in Nat
          /\ faults' \in 0 .. MaxFaults
      BY <3>1 DEF TypeOK
    <3> QED
      BY <1>3, <3>2 DEF FetchToken, TypeOK
  <2>5. pc' \in [Calls -> Steps]
    BY <1>3, Zenon DEF FetchToken, Goto, TypeOK, Steps
  <2>6. tok' \in [Calls -> Nat]
    BY <1>3, <2>4 DEF FetchToken, Take, TypeOK, callVars
  <2>7. refused' = refused /\ during' \subseteq Calls /\ after' \subseteq Calls
    BY <1>3 DEF FetchToken, Take, TypeOK, callVars, fetchVars
  <2>8. FetchOnlyWhenStale'
    BY <1>3, Zenon DEF FetchToken, Goto, TypeOK, Steps, cacheVars, Fresh, FetchOnlyWhenStale
  <2>9. RefetchedAfter'
    BY <1>3, <2>7 DEF FetchToken, Goto, TypeOK, cacheVars, fetchVars, Fresh,
      FetchOnlyWhenStale, RefetchedAfter, IdleUnrefused
  <2>10. IdleUnrefused'
    BY <1>3, <2>7, Zenon DEF FetchToken, Goto, TypeOK, IdleUnrefused
  <2> QED
    BY <2>3, <2>4, <2>5, <2>6, <2>7, <2>8, <2>9, <2>10 DEF TypeOK
<1>4. ASSUME NEW c \in Calls, Post(c) PROVE Inv'
  <2>1. TypeOK'
    BY <1>4 DEF Post, TypeOK, Goto, Fault, Steps, cacheVars, fetchVars
  <2>2. FetchOnlyWhenStale' /\ RefetchedAfter' /\ IdleUnrefused'
    BY <1>4 DEF Post, TypeOK, Goto, Fault, Steps, cacheVars, fetchVars, Fresh,
      FetchOnlyWhenStale, RefetchedAfter, IdleUnrefused
  <2> QED BY <2>1, <2>2
<1>5. ASSUME NEW c \in Calls, Invalidate(c) PROVE Inv'
  <2>1. TypeOK'
    BY <1>5 DEF Invalidate, TypeOK, Goto, Steps, callVars
  <2>2. FetchOnlyWhenStale' /\ RefetchedAfter' /\ IdleUnrefused'
    BY <1>5 DEF Invalidate, TypeOK, Goto, Steps, callVars, Fresh,
      FetchOnlyWhenStale, RefetchedAfter, IdleUnrefused
  <2> QED BY <2>1, <2>2
<1>6. CASE Tick
  <2>1. TypeOK'
    BY <1>6 DEF Tick, TypeOK, callVars, fetchVars
  <2>2. FetchOnlyWhenStale' /\ RefetchedAfter' /\ IdleUnrefused'
    BY <1>6 DEF Tick, TypeOK, callVars, fetchVars, Fresh,
      FetchOnlyWhenStale, RefetchedAfter, IdleUnrefused
  <2> QED BY <2>1, <2>2
<1>7. CASE Revoke
  <2>1. TypeOK'
    BY <1>7 DEF Revoke, TypeOK, cacheVars, callVars, fetchVars
  <2>2. FetchOnlyWhenStale' /\ RefetchedAfter' /\ IdleUnrefused'
    BY <1>7 DEF Revoke, TypeOK, cacheVars, callVars, fetchVars, Fresh,
      FetchOnlyWhenStale, RefetchedAfter, IdleUnrefused
  <2> QED BY <2>1, <2>2
<1>8. CASE UNCHANGED vars
  BY <1>8 DEF vars, cacheVars, callVars, fetchVars, TypeOK, Fresh,
    FetchOnlyWhenStale, RefetchedAfter, IdleUnrefused
<1> QED
  BY <1>1, <1>2, <1>3, <1>4, <1>5, <1>6, <1>7, <1>8 DEF Next, SignBlob

LEMMA InvAlways == Spec => []Inv
  BY InitInv, NextInv, PTL DEF Spec

\* The variables of the cache, its lock and its calls keep their types.
THEOREM TokenTypes == Spec => []TypeOK
<1> Inv => TypeOK
  BY DEF Inv
<1> QED BY InvAlways, PTL

\* However many calls find the cache stale together, get_or_refresh fetches under
\* the write lock, one call at a time, and only while no usable token is cached.
THEOREM FetchesNeeded == Spec => []FetchOnlyWhenStale
<1> Inv => FetchOnlyWhenStale
  BY DEF Inv
<1> QED BY InvAlways, PTL

\* The second attempt of call_sign_blob posts what a fetch returned that began after
\* its 401: neither an older cached token nor a fetch that was under way then.
THEOREM RetriesFetchAnew == Spec => RetryFetchedAnew
<1>1. ASSUME Inv, [Next]_vars, NEW c \in refused, pc[c] # "post", pc'[c] = "post"
      PROVE  c \in after'
  <2>0. c \in Calls
    BY <1>1 DEF Inv, TypeOK
  <2>1. PICK d \in Calls : SignBlob(d)
    BY <1>1 DEF Next, Tick, Revoke, vars
  <2>2. d = c
    BY <1>1, <2>0, <2>1, Zenon DEF Inv, TypeOK, SignBlob, ReadCache, LockCache, FetchToken,
      Post, Invalidate, Goto
  <2>3. pc[c] # "idle"
    BY <1>1, <2>0 DEF Inv, IdleUnrefused
  <2>4. CASE ReadCache(c)
    <3>1. Fresh /\ after' = after /\ pc[c] = "get_again"
      BY <1>1, <2>0, <2>3, <2>4 DEF ReadCache, Goto, Inv, TypeOK, fetchVars
    <3> QED BY <1>1, <3>1 DEF Inv, RefetchedAfter, Fresh
  <2>5. CASE LockCache(c)
    <3>1. Fresh /\ after' = after /\ pc[c] = "write"
      BY <1>1, <2>0, <2>5 DEF LockCache, Goto, Inv, TypeOK
    <3> QED BY <1>1, <3>1 DEF Inv, RefetchedAfter, Fresh
  <2>6. CASE FetchToken(c)
    <3>1. after' = during /\ pc[c] = "fetch"
      BY <1>1, <2>0, <2>6 DEF FetchToken, Goto, Inv, TypeOK
    <3>2. writer # None
      BY <2>0, <3>1, <1>1, TokenAssumption DEF TokenAssumption, Inv, FetchOnlyWhenStale
    <3> QED BY <1>1, <3>1, <3>2 DEF Inv, RefetchedAfter
  <2> QED
    BY <1>1, <2>0, <2>1, <2>2, <2>4, <2>5, <2>6 DEF SignBlob, Post, Invalidate, Goto, Inv, TypeOK
<1>2. Inv /\ [Next]_vars
        => [\A c \in refused : pc[c] # "post" /\ pc'[c] = "post" => c \in after']_vars
  BY <1>1
<1> QED BY <1>2, InvAlways, PTL DEF Spec, RetryFetchedAnew
=============================================================================
