-------------------------------- MODULE Login --------------------------------
(***************************************************************************)
(* Signing up and logging in with one email: the handlers of the gateway's *)
(* routes/auth.rs and the in-process failure counter of auth/throttle.rs   *)
(* they share.  Emails share nothing, so one is enough.  A step is what a  *)
(* handler does between two awaits.                                        *)
(*                                                                         *)
(* An Instant is kept as its age in ticks, counted up to Window + 1, the   *)
(* first age at which every comparison with WINDOW has its final value.    *)
(***************************************************************************)
EXTENDS Integers, FiniteSets

CONSTANTS
  Logins,       \* login requests
  Good,         \* the logins that carry the password of the account
  Signups,      \* signup requests
  Malformed,    \* the signups that fail validate_credentials
  MaxFailures,  \* MAX_FAILURES, 5 in the code
  Window,       \* WINDOW in ticks
  MaxFaults     \* bound on database and signing failures and restarts

ASSUME LoginAssumption ==
  /\ IsFiniteSet(Logins)
  /\ Good \subseteq Logins
  /\ Malformed \subseteq Signups
  /\ MaxFailures \in Nat \ {0}
  /\ Window \in Nat \ {0}
  /\ MaxFaults \in Nat

VARIABLES
  member,    \* whether users has a row for the email
  failures,  \* count of the FailureEntry (0: the map has no entry)
  firstAge,  \* age of its first_fail_at
  fifthAge,  \* age of its fifth_fail_at (-1: None)
  lpc,       \* where each login is, or its response
  spc,       \* where each signup is, or its response
  sessions,  \* the logins that have a row in sessions
  faults,    \* how many failures and restarts have happened
  failAge,   \* history: age of a login's failure (-1: none in the last Window
             \* ticks, or a reset since)
  wait,      \* history: what is left of the wait one 429 announced (-1: none)
  since      \* history: the logins that failed after that 429

entryVars == <<failures, firstAge, fifthAge>>
promise == <<wait, since>>
vars == <<member, entryVars, lpc, spc, sessions, faults, failAge, promise>>

LoginResponses == {"200", "401", "429", "500", "503", "aborted"}

SignupResponses == {"201", "400", "409", "500", "503", "aborted"}

Ages == 0 .. Window + 1

\* The type of every variable: the throttle entry, the tables, the handlers.
TypeOK ==
  /\ member \in BOOLEAN
  /\ failures \in Nat
  /\ firstAge \in Ages
  /\ fifthAge \in Ages \cup {-1}
  /\ lpc \in [Logins -> {"idle", "lookup", "create_session"} \cup LoginResponses]
  /\ spc \in [Signups -> {"idle", "create"} \cup SignupResponses]
  /\ sessions \subseteq Logins
  /\ faults \in 0 .. MaxFaults
  /\ failAge \in [Logins -> -1 .. Window]
  /\ wait \in -1 .. Window
  /\ since \subseteq Logins

Init ==
  /\ member = FALSE
  /\ failures = 0 /\ firstAge = 0 /\ fifthAge = -1
  /\ lpc = [l \in Logins |-> "idle"]
  /\ spc = [s \in Signups |-> "idle"]
  /\ sessions = {}
  /\ faults = 0
  /\ failAge = [l \in Logins |-> -1]
  /\ wait = -1 /\ since = {}

Fault == faults < MaxFaults /\ faults' = faults + 1

Goto(l, step) == lpc' = [lpc EXCEPT ![l] = step]

SGoto(s, step) == spc' = [spc EXCEPT ![s] = step]

-----------------------------------------------------------------------------
(* The throttle.                                                           *)

\* The entry leaves the map.
Remove == failures' = 0 /\ firstAge' = 0 /\ fifthAge' = -1

\* is_throttled drops an entry for either of these.
Expired == failures # 0 /\ (firstAge > Window \/ fifthAge >= Window)

\* Variant of Throttled: the lock does not look at the clock.
ThrottledForever == failures >= MaxFailures

\* The email is locked: is_throttled answers Some.
Throttled == failures >= MaxFailures /\ fifthAge # -1 /\ ~Expired

\* Variant of RecordFailure: a failure while the email is locked starts the lock anew.
RecordFailureSlides ==
  LET fresh == failures = 0 \/ firstAge > Window
      count == IF fresh THEN 1 ELSE failures + 1
  IN  /\ failures' = count
      /\ firstAge' = IF fresh \/ count > MaxFailures THEN 0 ELSE firstAge
      /\ fifthAge' = IF count >= MaxFailures THEN 0 ELSE -1

\* record_failure
RecordFailure ==
  LET fresh == failures = 0 \/ firstAge > Window
      count == IF fresh THEN 1 ELSE failures + 1
  IN  /\ failures' = count
      /\ firstAge' = IF fresh THEN 0 ELSE firstAge
      /\ fifthAge' = IF count = MaxFailures THEN 0
                     ELSE IF fresh THEN -1 ELSE fifthAge

\* Variant of RecordSuccess: the failures are kept.
RecordSuccessKeeps == UNCHANGED entryVars

\* record_success
RecordSuccess == Remove

-----------------------------------------------------------------------------
(* login                                                                   *)

\* pre_login_throttle_check.  A 429 announces what is left of the lock, which
\* is_throttled counts from fifth_fail_at; of the 429s, any one is watched.
CheckThrottle(l) ==
  /\ lpc[l] = "idle"
  /\ \/ Expired /\ Remove /\ Goto(l, "lookup") /\ UNCHANGED promise
     \/ /\ ~Expired /\ ~Throttled
        /\ UNCHANGED <<entryVars, promise>>
        /\ Goto(l, "lookup")
     \/ /\ Throttled
        /\ UNCHANGED <<entryVars, since>>
        /\ wait' \in {wait} \cup (IF wait = -1 THEN {Window - fifthAge} ELSE {})
        /\ Goto(l, "429")
  /\ UNCHANGED <<member, spc, sessions, faults, failAge>>

\* do_login_credential_flow, once find_member has answered.
Verify(l) ==
  /\ lpc[l] = "lookup"
  /\ \/ /\ member /\ l \in Good
        /\ RecordSuccess
        /\ failAge' = [k \in Logins |-> -1]
        /\ UNCHANGED since
        /\ Goto(l, "create_session")
     \/ /\ ~(member /\ l \in Good)
        /\ RecordFailure
        /\ failAge' = [failAge EXCEPT ![l] = 0]
        /\ since' = IF wait = -1 THEN since ELSE since \cup {l}
        /\ Goto(l, "401")
  /\ UNCHANGED <<member, spc, sessions, faults, wait>>

LookupFails(l) ==
  /\ lpc[l] = "lookup"
  /\ Fault
  /\ Goto(l, "503")
  /\ UNCHANGED <<member, entryVars, spc, sessions, failAge, promise>>

\* do_create_session_and_build_response
CreateSession(l) ==
  /\ lpc[l] = "create_session"
  /\ sessions' = sessions \cup {l}
  /\ Goto(l, "200")
  /\ UNCHANGED <<member, entryVars, spc, faults, failAge, promise>>

\* The insert fails, perhaps after it was applied, or the token cannot be signed.
CreateSessionFails(l) ==
  /\ lpc[l] = "create_session"
  /\ Fault
  /\ \/ UNCHANGED sessions /\ Goto(l, "503")
     \/ sessions' = sessions \cup {l} /\ Goto(l, "503")
     \/ sessions' = sessions \cup {l} /\ Goto(l, "500")
  /\ UNCHANGED <<member, entryVars, spc, failAge, promise>>

LogIn(l) ==
  \/ CheckThrottle(l)
  \/ Verify(l) \/ LookupFails(l)
  \/ CreateSession(l) \/ CreateSessionFails(l)

-----------------------------------------------------------------------------
(* signup                                                                  *)

\* validate_credentials and check_email_unique_timing_safe
CheckEmail(s) ==
  /\ spc[s] = "idle"
  /\ \/ s \in Malformed /\ SGoto(s, "400") /\ UNCHANGED faults
     \/ s \notin Malformed /\ member /\ SGoto(s, "409") /\ UNCHANGED faults
     \/ s \notin Malformed /\ ~member /\ SGoto(s, "create") /\ UNCHANGED faults
     \/ s \notin Malformed /\ Fault /\ SGoto(s, "503")
  /\ UNCHANGED <<member, entryVars, lpc, sessions, failAge, promise>>

\* create_member: every error, the unique index included, answers 500.
CreateMember(s) ==
  /\ spc[s] = "create"
  /\ \/ ~member /\ member' = TRUE /\ SGoto(s, "201") /\ UNCHANGED faults
     \/ member /\ UNCHANGED member /\ SGoto(s, "500") /\ UNCHANGED faults
     \/ Fault /\ member' \in {member, TRUE} /\ SGoto(s, "500")
  /\ UNCHANGED <<entryVars, lpc, sessions, failAge, promise>>

SignUp(s) == CheckEmail(s) \/ CreateMember(s)

-----------------------------------------------------------------------------

Older(age) == IF age \in 0 .. Window THEN age + 1 ELSE age

Fade(age) == IF age \in 0 .. Window - 1 THEN age + 1 ELSE -1

\* The clock.
Tick ==
  /\ firstAge' = IF failures = 0 THEN 0 ELSE Older(firstAge)
  /\ fifthAge' = Older(fifthAge)
  /\ failAge' = [l \in Logins |-> Fade(failAge[l])]
  /\ wait' = IF wait > 0 THEN wait - 1 ELSE wait
  /\ UNCHANGED <<member, failures, lpc, spc, sessions, faults, since>>

\* The gateway restarts: the map is empty, the requests in flight are lost.
Restart ==
  /\ Fault
  /\ Remove
  /\ failAge' = [l \in Logins |-> -1]
  /\ lpc' = [l \in Logins |-> IF lpc[l] \in {"lookup", "create_session"}
                              THEN "aborted" ELSE lpc[l]]
  /\ spc' = [s \in Signups |-> IF spc[s] = "create" THEN "aborted" ELSE spc[s]]
  /\ UNCHANGED <<member, sessions, promise>>

Next ==
  \/ \E l \in Logins : LogIn(l)
  \/ \E s \in Signups : SignUp(s)
  \/ Tick
  \/ Restart

Spec == Init /\ [][Next]_vars

\* Time passes.
FairSpec == Spec /\ WF_vars(Tick)

-----------------------------------------------------------------------------
(* Properties.                                                             *)

\* The failures of the last Window ticks, since the last success or restart.
Recent == {l \in Logins : failAge[l] # -1}

\* is_throttled never locks an email out without cause: when it would answer
\* 429, MAX_FAILURES logins have failed within WINDOW and none has succeeded
\* since, whatever logins were in flight together.
LockIsEarned == Throttled => Cardinality(Recent) >= MaxFailures

\* The wait a 429 announces is enough: whoever lets it pass finds the email
\* unlocked, unless MAX_FAILURES further logins have failed since they were told.
\* Failures of logins that were in flight when the lock began do not move its
\* end.  The lock may end sooner, WINDOW after the first failure instead of the
\* fifth, which is what is_throttled looks at first.  (as_secs rounds the header
\* down, so the wait may be announced short by less than a second.)
RetryAfterKept == wait = 0 /\ Throttled => Cardinality(since) >= MaxFailures

\* A lock ends: with time passing, a throttled email is let in again, at the
\* latest WINDOW after the fifth failure and often sooner.
LockExpires == Throttled ~> ~Throttled
==============================================================================
