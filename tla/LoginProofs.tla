----------------------------- MODULE LoginProofs -----------------------------
(***************************************************************************)
(* The safety of the login throttle for any number of requests, any limit, *)
(* window and number of faults and restarts.  LockIsEarned is about the    *)
(* counter; Counted says what the counter counts: the logins that failed   *)
(* since first_fail_at are at least as many.  RetryAfterKept is about a    *)
(* promise made earlier; Promised says what has become of it: the lock it  *)
(* was about is still the one in force, with what is left of it counted    *)
(* down, or everything counted since has failed after the 429.  A request  *)
(* fails once, which is what Unfailed is for.                              *)
(***************************************************************************)
EXTENDS Login, FiniteSetTheorems, TLAPS

\* A login that has not been verified has not failed.
Unfailed == \A l \in Logins :
  lpc[l] \in {"idle", "lookup"} => failAge[l] = -1 /\ l \notin since

\* The logins that failed when first_fail_at was set, or since.
Since(age) == {l \in Logins : failAge[l] \in 0 .. age}

Counted == (failures # 0 /\ firstAge <= Window) => Cardinality(Since(firstAge)) >= failures

\* The lock of the watched 429 is in force, or over and not looked at yet.
SameLock ==
  /\ failures >= MaxFailures /\ fifthAge # -1
  /\ wait = IF fifthAge < Window THEN Window - fifthAge ELSE 0

Promised == wait # -1 => SameLock \/ failures <= Cardinality(since)

Inv == TypeOK /\ Unfailed /\ Counted /\ Promised

\* The set is finite at every age.
LEMMA SinceFinite ==
  ASSUME NEW S, S \subseteq Logins
  PROVE  IsFiniteSet(S) /\ Cardinality(S) \in Nat
  BY LoginAssumption, FS_Subset, FS_CardinalityType, Zenon DEF LoginAssumption

LEMMA OlderAge ==
  ASSUME NEW a \in Ages \cup {-1}
  PROVE  /\ Older(a) \in Ages \cup {-1}
         /\ a \in Ages => Older(a) \in Ages
         /\ a = -1 => Older(a) = -1
  BY LoginAssumption DEF LoginAssumption, Ages, Older

LEMMA FadeAge ==
  ASSUME NEW a \in -1 .. Window
  PROVE  /\ Fade(a) \in -1 .. Window
         /\ a = -1 => Fade(a) = -1
         /\ \A k \in 0 .. Window - 1 : a \in 0 .. k => Fade(a) \in 0 .. k + 1
  BY LoginAssumption DEF LoginAssumption, Fade

\* The steps of the throttle keep the types of its entry.
LEMMA EntryTypes ==
  ASSUME TypeOK, RecordFailure \/ Remove \/ UNCHANGED entryVars
  PROVE  failures' \in Nat /\ firstAge' \in Ages /\ fifthAge' \in Ages \cup {-1}
  BY LoginAssumption
  DEF LoginAssumption, TypeOK, RecordFailure, Remove, entryVars, Ages

LEMMA FaultTypes ==
  ASSUME TypeOK, Fault \/ UNCHANGED faults
  PROVE  faults' \in 0 .. MaxFaults
  BY LoginAssumption DEF LoginAssumption, TypeOK, Fault

LEMMA InitInv == Init => Inv
<1> SUFFICES ASSUME Init PROVE Inv
  OBVIOUS
<1>1. /\ failures \in Nat /\ firstAge \in Ages /\ fifthAge \in Ages \cup {-1}
      /\ faults \in 0 .. MaxFaults /\ wait \in -1 .. Window /\ -1 \in -1 .. Window
  BY LoginAssumption DEF LoginAssumption, Init, Ages
<1>2. TypeOK
  BY <1>1, Zenon DEF Init, TypeOK
<1> QED BY <1>2 DEF Init, Inv, Unfailed, Counted, Promised

LEMMA LogInInv == ASSUME Inv, NEW l \in Logins, LogIn(l) PROVE Inv'
<1> USE DEF Inv
<1>0. member \in BOOLEAN /\ member' = member /\ spc' = spc
  BY DEF LogIn, CheckThrottle, Verify, LookupFails, CreateSession, CreateSessionFails, TypeOK
<1>1. failures' \in Nat /\ firstAge' \in Ages /\ fifthAge' \in Ages \cup {-1}
  <2>1. RecordFailure \/ Remove \/ UNCHANGED entryVars
    BY DEF LogIn, CheckThrottle, Verify, LookupFails, CreateSession, CreateSessionFails,
      RecordSuccess
  <2> QED BY <2>1, EntryTypes, Zenon
<1>2. faults' \in 0 .. MaxFaults
  <2>1. Fault \/ UNCHANGED faults
    BY Zenon DEF LogIn, CheckThrottle, Verify, LookupFails, CreateSession, CreateSessionFails
  <2> QED BY <2>1, FaultTypes, Zenon
<1>3. lpc' \in [Logins -> {"idle", "lookup", "create_session"} \cup LoginResponses]
  BY Zenon DEF LogIn, CheckThrottle, Verify, LookupFails, CreateSession, CreateSessionFails,
    Goto, TypeOK, LoginResponses
<1>4. sessions' \subseteq Logins
  BY Zenon DEF LogIn, CheckThrottle, Verify, LookupFails, CreateSession, CreateSessionFails, TypeOK
<1>5. failAge' \in [Logins -> -1 .. Window]
  BY LoginAssumption DEF LoginAssumption, LogIn, CheckThrottle, Verify, LookupFails,
    CreateSession, CreateSessionFails, TypeOK
<1>10. wait' \in -1 .. Window /\ since' \subseteq Logins
  <2>1. since' = since \/ since' = since \cup {l}
    BY Zenon DEF LogIn, CheckThrottle, Verify, LookupFails, CreateSession,
      CreateSessionFails, promise
  <2>2. wait' = wait \/ (Throttled /\ wait' = Window - fifthAge)
    BY DEF LogIn, CheckThrottle, Verify, LookupFails, CreateSession,
      CreateSessionFails, promise
  <2>3. Throttled => Window - fifthAge \in -1 .. Window
    BY LoginAssumption DEF LoginAssumption, TypeOK, Throttled, Expired, Ages
  <2> QED BY <2>1, <2>2, <2>3 DEF TypeOK
<1>6. TypeOK'
  BY <1>0, <1>1, <1>2, <1>3, <1>4, <1>5, <1>10, Zenon DEF TypeOK
<1>7. Unfailed'
  <2> SUFFICES ASSUME NEW k \in Logins, lpc'[k] \in {"idle", "lookup"}
               PROVE  failAge'[k] = -1 /\ k \notin since'
    BY DEF Unfailed
  <2>1. lpc[k] \in {"idle", "lookup"}
    BY Zenon DEF LogIn, CheckThrottle, Verify, LookupFails, CreateSession,
      CreateSessionFails, Goto, TypeOK
  <2>2. failAge[k] = -1 /\ k \notin since
    BY <2>1 DEF Unfailed
  <2>3. CASE Verify(l)
    <3>1. k # l
      BY <2>3 DEF Verify, Goto, TypeOK
    <3>2. failAge'[k] = -1
      BY <2>2, <2>3, <3>1 DEF Verify, TypeOK
    <3>3. since' \subseteq since \cup {l}
      BY <2>3, Zenon DEF Verify
    <3> QED BY <2>2, <3>1, <3>2, <3>3
  <2>4. CASE UNCHANGED <<failAge, since>>
    BY <2>2, <2>4
  <2> QED
    BY <2>3, <2>4, Zenon DEF LogIn, CheckThrottle, LookupFails, CreateSession,
      CreateSessionFails, promise
<1>8. Counted'
  <2>1. CASE UNCHANGED <<failures, firstAge, failAge>>
    BY <2>1 DEF Counted, Since
  <2>2. CASE Remove
    BY <2>2 DEF Remove, Counted
  <2>3. CASE lpc[l] = "lookup" /\ RecordFailure /\ failAge' = [failAge EXCEPT ![l] = 0]
    <3>1. failAge[l] = -1
      BY <2>3 DEF Unfailed
    <3>2. l \notin Since(firstAge)
      BY <3>1 DEF Since, TypeOK, Ages
    <3>3. l \in Since(firstAge)'
      BY <2>3, <1>6 DEF Since, TypeOK, Ages
    <3>4. CASE failures = 0 \/ firstAge > Window
      <4>1. failures' = 1
        BY <2>3, <3>4 DEF RecordFailure
      <4>2. Cardinality({l}) = 1 /\ {l} \subseteq Since(firstAge)'
        BY <3>3, FS_Singleton, Zenon
      <4>3. Cardinality({l}) <= Cardinality(Since(firstAge)')
        BY <4>2, SinceFinite, FS_Subset, Zenon DEF Since
      <4> QED BY <4>1, <4>2, <4>3, SinceFinite, Zenon DEF Counted, Since
    <3>5. CASE failures # 0 /\ firstAge <= Window
      <4>1. failures' = failures + 1 /\ firstAge' = firstAge
        BY <2>3, <3>5, LoginAssumption DEF LoginAssumption, RecordFailure, TypeOK, Ages
      <4>2. Since(firstAge)' = Since(firstAge) \cup {l}
        BY <2>3, <4>1, <3>2 DEF Since, TypeOK, Ages
      <4>3. Cardinality(Since(firstAge) \cup {l}) = Cardinality(Since(firstAge)) + 1
        BY <3>2, SinceFinite, FS_AddElement, Zenon DEF Since
      <4>4. Cardinality(Since(firstAge)) \in Nat /\ Cardinality(Since(firstAge)) >= failures
        BY <3>5, SinceFinite, Zenon DEF Counted, Since
      <4>5. failures \in Nat
        BY DEF TypeOK
      <4> QED BY <4>1, <4>2, <4>3, <4>4, <4>5 DEF Counted
    <3>6. firstAge > Window \/ firstAge <= Window
      BY LoginAssumption DEF LoginAssumption, TypeOK, Ages
    <3> QED BY <3>4, <3>5, <3>6, Zenon
  <2> QED
    BY <2>1, <2>2, <2>3, Zenon DEF LogIn, CheckThrottle, Verify, LookupFails, CreateSession,
      CreateSessionFails, RecordSuccess, entryVars
<1>9. Promised'
  <2>1. CASE UNCHANGED <<entryVars, promise>>
    BY <2>1 DEF Promised, SameLock, entryVars, promise
  <2>2. CASE Remove
    BY <2>2, <1>6, SinceFinite DEF Remove, Promised, TypeOK
  <2>3. CASE Throttled /\ UNCHANGED entryVars /\ wait' = Window - fifthAge
    BY <2>3, LoginAssumption
    DEF LoginAssumption, Promised, SameLock, Throttled, Expired, entryVars, TypeOK, Ages
  <2>4. CASE lpc[l] = "lookup" /\ RecordFailure /\ wait' = wait
             /\ since' = IF wait = -1 THEN since ELSE since \cup {l}
    <3> SUFFICES ASSUME wait # -1 PROVE SameLock' \/ failures' <= Cardinality(since')
      BY <2>4 DEF Promised
    <3>1. l \notin since /\ since' = since \cup {l}
      BY <2>4 DEF Unfailed
    <3>2. Cardinality(since') = Cardinality(since) + 1 /\ Cardinality(since) \in Nat
      BY <3>1, SinceFinite, FS_AddElement, Zenon DEF TypeOK
    <3>3. CASE failures = 0 \/ firstAge > Window
      <4>1. failures' = 1
        BY <2>4, <3>3 DEF RecordFailure
      <4> QED BY <3>2, <4>1
    <3>4. CASE ~(failures = 0 \/ firstAge > Window)
      <4>1. failures' = failures + 1
        BY <2>4, <3>4 DEF RecordFailure
      <4>2. CASE SameLock
        <5>1. failures' # MaxFailures /\ failures' >= MaxFailures
          BY <4>1, <4>2, LoginAssumption DEF LoginAssumption, SameLock, TypeOK
        <5>2. fifthAge' = fifthAge
          BY <2>4, <3>4, <4>1, <5>1 DEF RecordFailure
        <5> QED BY <2>4, <4>2, <5>1, <5>2 DEF SameLock
      <4>3. CASE failures <= Cardinality(since)
        BY <3>2, <4>1, <4>3 DEF TypeOK
      <4> QED BY <4>2, <4>3 DEF Promised
    <3> QED BY <3>3, <3>4
  <2> QED
    BY <2>1, <2>2, <2>3, <2>4, Zenon DEF LogIn, CheckThrottle, Verify, LookupFails,
      CreateSession, CreateSessionFails, RecordSuccess, promise
<1> QED BY <1>6, <1>7, <1>8, <1>9, Zenon

LEMMA SignUpInv == ASSUME Inv, NEW s \in Signups, SignUp(s) PROVE Inv'
<1> USE DEF Inv
<1>1. member' \in BOOLEAN
  BY Zenon DEF SignUp, CheckEmail, CreateMember, TypeOK
<1>2. faults' \in 0 .. MaxFaults
  <2>1. Fault \/ UNCHANGED faults
    BY Zenon DEF SignUp, CheckEmail, CreateMember
  <2> QED BY <2>1, FaultTypes
<1>3. spc' \in [Signups -> {"idle", "create"} \cup SignupResponses]
  BY Zenon DEF SignUp, CheckEmail, CreateMember, SGoto, TypeOK, SignupResponses
<1>4. UNCHANGED <<failures, firstAge, fifthAge, lpc, sessions, failAge, wait, since>>
  BY Zenon DEF SignUp, CheckEmail, CreateMember, entryVars, promise
<1> QED
  BY <1>1, <1>2, <1>3, <1>4 DEF TypeOK, Unfailed, Counted, Since, Promised, SameLock

LEMMA TickInv == ASSUME Inv, Tick PROVE Inv'
<1> USE DEF Inv
<1>1. TypeOK'
  <2>1. firstAge' \in Ages
    BY OlderAge, LoginAssumption DEF LoginAssumption, Tick, TypeOK, Ages
  <2>2. fifthAge' \in Ages \cup {-1}
    BY OlderAge, Zenon DEF Tick, TypeOK
  <2>3. failAge' \in [Logins -> -1 .. Window]
    BY FadeAge, Zenon DEF Tick, TypeOK
  <2>4. wait' \in -1 .. Window
    BY LoginAssumption DEF LoginAssumption, Tick, TypeOK
  <2> QED BY <2>1, <2>2, <2>3, <2>4 DEF Tick, TypeOK
<1>2. Unfailed'
  BY FadeAge, Zenon DEF Tick, TypeOK, Unfailed
<1>3. Counted'
  <2> SUFFICES ASSUME failures' # 0, firstAge' <= Window
               PROVE Cardinality(Since(firstAge)') >= failures'
    BY DEF Counted, Since
  <2>1. failures # 0 /\ failures' = failures /\ firstAge' = Older(firstAge)
    BY DEF Tick
  <2>2. firstAge \in 0 .. Window - 1 /\ firstAge' = firstAge + 1
    BY <2>1, LoginAssumption DEF LoginAssumption, TypeOK, Ages, Older
  <2>3. Since(firstAge) \subseteq Since(firstAge)'
    BY <2>2, FadeAge, Zenon DEF Since, Tick, TypeOK
  <2>4. Cardinality(Since(firstAge)) <= Cardinality(Since(firstAge)')
    BY <2>3, SinceFinite, FS_Subset, Zenon DEF Since
  <2>5. Cardinality(Since(firstAge)) >= failures
    BY <2>1, <2>2, LoginAssumption DEF LoginAssumption, Counted
  <2> QED BY <2>1, <2>4, <2>5, SinceFinite DEF Since, TypeOK
<1>4. Promised'
  BY LoginAssumption
  DEF LoginAssumption, Promised, SameLock, Tick, TypeOK, Ages, Older
<1> QED BY <1>1, <1>2, <1>3, <1>4

LEMMA RestartInv == ASSUME Inv, Restart PROVE Inv'
<1> USE DEF Inv
<1>1. failures' \in Nat /\ firstAge' \in Ages /\ fifthAge' \in Ages \cup {-1}
  BY EntryTypes, Zenon DEF Restart
<1>2. faults' \in 0 .. MaxFaults
  BY FaultTypes, Zenon DEF Restart
<1>3. lpc' \in [Logins -> {"idle", "lookup", "create_session"} \cup LoginResponses]
  BY Zenon DEF Restart, TypeOK, LoginResponses
<1>4. spc' \in [Signups -> {"idle", "create"} \cup SignupResponses]
  BY DEF Restart, TypeOK, SignupResponses
<1>5. failAge' \in [Logins -> -1 .. Window]
  BY LoginAssumption DEF LoginAssumption, Restart
<1>6. TypeOK'
  BY <1>1, <1>2, <1>3, <1>4, <1>5, Zenon DEF Restart, TypeOK, promise
<1>7. Promised'
  BY <1>6, SinceFinite DEF Restart, Remove, Promised, TypeOK
<1> QED
  BY <1>6, <1>7, Zenon DEF Restart, Remove, Unfailed, Counted, promise

LEMMA InvAlways == Spec => []Inv
<1>1. Inv /\ UNCHANGED vars => Inv'
  BY DEF Inv, vars, entryVars, promise, TypeOK, Unfailed, Counted, Since, Promised, SameLock
<1>2. Inv /\ [Next]_vars => Inv'
  BY <1>1, LogInInv, SignUpInv, TickInv, RestartInv, Zenon DEF Next
<1> QED BY <1>2, InitInv, PTL DEF Spec

\* The variables of the throttle entry, the tables and the handlers keep their types.
THEOREM LoginTypes == Spec => []TypeOK
<1> Inv => TypeOK
  BY DEF Inv
<1> QED BY InvAlways, PTL

\* is_throttled never answers without cause: MAX_FAILURES logins have failed within
\* WINDOW, and none has succeeded since, whatever logins were in flight together.
THEOREM LocksEarned == Spec => []LockIsEarned
<1>1. Inv => LockIsEarned
  <2> SUFFICES ASSUME Inv, Throttled PROVE Cardinality(Recent) >= MaxFailures
    BY DEF LockIsEarned
  <2>1. failures >= MaxFailures /\ failures # 0 /\ firstAge <= Window
    BY LoginAssumption DEF LoginAssumption, Inv, TypeOK, Ages, Throttled, Expired
  <2>2. Cardinality(Since(firstAge)) >= failures
    BY <2>1, Zenon DEF Inv, Counted
  <2>3. Since(firstAge) \subseteq Recent
    BY <2>1 DEF Since, Recent
  <2>4. Cardinality(Since(firstAge)) <= Cardinality(Recent)
    BY <2>3, SinceFinite, FS_Subset DEF Recent
  <2> QED
    BY <2>1, <2>2, <2>4, SinceFinite, LoginAssumption
    DEF LoginAssumption, Since, Recent, Inv, TypeOK
<1> QED BY <1>1, InvAlways, PTL

\* The wait a 429 announces is enough: who lets it pass finds the email unlocked
\* unless MAX_FAILURES further logins have failed since, and no failure of a login
\* in flight moves the end of a lock that record_failure has dated.
THEOREM RetryAftersKept == Spec => []RetryAfterKept
<1>1. Inv => RetryAfterKept
  <2> SUFFICES ASSUME Inv, wait = 0, Throttled PROVE Cardinality(since) >= MaxFailures
    BY DEF RetryAfterKept
  <2>1. ~SameLock
    BY LoginAssumption
    DEF LoginAssumption, Inv, TypeOK, Ages, SameLock, Throttled, Expired
  <2>2. failures <= Cardinality(since) /\ failures >= MaxFailures
    BY <2>1 DEF Inv, Promised, Throttled
  <2>3. Cardinality(since) \in Nat
    BY SinceFinite DEF Inv, TypeOK
  <2> QED BY <2>2, <2>3, LoginAssumption DEF LoginAssumption, Inv, TypeOK
<1> QED BY <1>1, InvAlways, PTL
==============================================================================
