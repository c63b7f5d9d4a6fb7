------------------------------- MODULE Signal -------------------------------
(***************************************************************************)
(* Reporting an inconsistency, from the visitor's click to the ticket      *)
(* board.                                                                  *)
(*                                                                         *)
(* Two user interfaces post to /v1/report-contradiction: the panel of the  *)
(* static page (app.js), which can send a report a second time "anyway"    *)
(* when the judges did not confirm it, and the one-shot SignalForm of the  *)
(* Next.js client.  The gateway checks that the caller owns the            *)
(* conversation and forwards the claim; the worker resolves sources, asks  *)
(* three judges and may raise a ticket.  Chat turns answered in lore-gap   *)
(* mode raise tickets through the same create_or_increment.                *)
(*                                                                         *)
(* A "post" is one request.  Tickets of the same topic are those whose     *)
(* embeddings pass the cosine threshold.  The transaction of a raise runs  *)
(* under READ COMMITTED: its SELECT sees committed rows, FOR UPDATE waits  *)
(* for the lock of the row it picked, and locks nothing when none matches. *)
(***************************************************************************)
EXTENDS Naturals, Sequences, FiniteSets

CONSTANTS Panels,    \* visitors on the static page
          Forms,     \* SignalForm instances, one per answer shown
          Topics,    \* classes of similar claims
          MaxPosts,  \* bound: requests in all
          MaxFaults  \* bound: failures, timeouts and deletions in all

ASSUME SignalAssumption ==
  /\ Panels \cap Forms = {}
  /\ MaxPosts \in Nat /\ MaxFaults \in Nat

Posts == 1..MaxPosts
Pages == Panels \cup Forms
NoTicket == 0

VARIABLES
  shown,    \* shown[r]: the panel's claim form is unfolded
  submit,   \* submit[r]: signalerSubmitBtn is enabled
  row,      \* row[r]: the second row (send anyway, cancel) is visible
  anyway,   \* anyway[r]: signalerSendAnywayBtn is enabled
  cancel,   \* cancel[r]: signalerCancelBtn is enabled
  phase,    \* phase[f]: the SignalForm's phase
  told,     \* posts the visitor was told were recorded
  kind,     \* kind[p]: what sent post p
  owner,    \* owner[p]: the page it was sent for
  topic,    \* topic[p]: what it claims
  waiting,  \* waiting[p]: the page still awaits the response
  pc,       \* pc[p]: where the post's processing is
  outcome,  \* outcome[p]: the outcome derived from the judges
  action,   \* action[p]: the ticket_action the worker answers
  seen,     \* seen[p]: the ticket the dedup SELECT picked
  tickets,  \* the committed rows of table tickets, in order of creation
  by,       \* history: by[t], the posts ticket t counts
  lock,     \* lock[t]: the post whose transaction holds row t, or 0
  owned,    \* owned[r]: page r's conversation exists
  faults    \* failures, timeouts and deletions so far

panelVars == <<shown, submit, row, anyway, cancel>>
pageVars  == <<panelVars, phase, told>>
postVars  == <<kind, owner, topic>>
workVars  == <<outcome, action, seen>>
boardVars == <<tickets, by, lock>>
vars == <<pageVars, postVars, waiting, pc, workVars, boardVars, owned, faults>>

Kinds    == {"submit", "anyway", "form", "gap"}
Steps    == {"check", "verify", "select", "lock", "update", "insert"}
Ends     == {"failed", "answered"}
Verdicts == {"present", "absent", "contradiction", "unclear"}
Outcomes == {"none", "confirmed", "refused", "indecisive"}
Actions  == {"none", "not_raised", "created", "incremented", "skipped_error"}

Init ==
  /\ shown = [r \in Panels |-> FALSE]
  /\ submit = [r \in Panels |-> TRUE]
  /\ row = [r \in Panels |-> FALSE]
  /\ anyway = [r \in Panels |-> TRUE]
  /\ cancel = [r \in Panels |-> TRUE]
  /\ phase = [f \in Forms |-> "open"]
  /\ told = {}
  /\ kind = [p \in Posts |-> "none"]
  /\ owner = [p \in Posts |-> "none"]
  /\ topic = [p \in Posts |-> "none"]
  /\ waiting = [p \in Posts |-> FALSE]
  /\ pc = [p \in Posts |-> "idle"]
  /\ outcome = [p \in Posts |-> "none"]
  /\ action = [p \in Posts |-> "none"]
  /\ seen = [p \in Posts |-> NoTicket]
  /\ tickets = << >>
  /\ by = << >>
  /\ lock = << >>
  /\ owned = [r \in Pages |-> TRUE]
  /\ faults = 0

Goto(p, step) == pc' = [pc EXCEPT ![p] = step]

(* One more failure, while the bound allows it. *)
Fault == faults < MaxFaults /\ faults' = faults + 1

-----------------------------------------------------------------------------
(* The pages' clicks. *)

(* A new request of kind k about topic t for page r, starting at step s. *)
Send(k, r, t, s) ==
  \E p \in Posts :
    /\ pc[p] = "idle"
    /\ \A q \in 1..(p - 1) : pc[q] # "idle"
    /\ kind' = [kind EXCEPT ![p] = k]
    /\ owner' = [owner EXCEPT ![p] = r]
    /\ topic' = [topic EXCEPT ![p] = t]
    /\ waiting' = [waiting EXCEPT ![p] = k # "gap"]
    /\ Goto(p, s)
    /\ UNCHANGED <<workVars, boardVars, owned, faults, told>>

(* What resetSignaler writes: the second row's buttons are left as they are. *)
ResetSignaler(r) ==
  /\ shown' = [shown EXCEPT ![r] = FALSE]
  /\ row' = [row EXCEPT ![r] = FALSE]
  /\ submit' = [submit EXCEPT ![r] = TRUE]
  /\ UNCHANGED <<anyway, cancel>>

(* The toggle unfolds the form, or folds and resets it. *)
Toggle(r) ==
  /\ IF shown[r]
       THEN ResetSignaler(r)
       ELSE /\ shown' = [shown EXCEPT ![r] = TRUE]
            /\ UNCHANGED <<submit, row, anyway, cancel>>
  /\ UNCHANGED <<phase, told, postVars, waiting, pc, workVars, boardVars,
                 owned, faults>>

CancelClick(r) ==
  /\ shown[r] /\ row[r] /\ cancel[r]
  /\ ResetSignaler(r)
  /\ UNCHANGED <<phase, told, postVars, waiting, pc, workVars, boardVars,
                 owned, faults>>

(* The visitor types a claim and clicks "Envoyer le signalement". *)
SubmitClick(r, t) ==
  /\ shown[r] /\ submit[r]
  /\ submit' = [submit EXCEPT ![r] = FALSE]
  /\ row' = [row EXCEPT ![r] = FALSE]
  /\ Send("submit", r, t, "check")
  /\ UNCHANGED <<shown, anyway, cancel, phase>>

(* "Envoyer quand même": the textarea is never locked, so the claim sent   *)
(* is whatever it holds now.                                               *)
SendAnywayClick(r, t) ==
  /\ shown[r] /\ row[r] /\ anyway[r]
  /\ anyway' = [anyway EXCEPT ![r] = FALSE]
  /\ cancel' = [cancel EXCEPT ![r] = FALSE]
  /\ Send("anyway", r, t, "check")
  /\ UNCHANGED <<shown, submit, row, phase>>

(* SignalForm.handleSubmit up to the await. *)
HandleSubmit(f, t) ==
  /\ phase[f] = "open"
  /\ phase' = [phase EXCEPT ![f] = "submitting"]
  /\ Send("form", f, t, "check")
  /\ UNCHANGED panelVars

(* The chat turn that produced the answer above form f is a lore gap, and  *)
(* raises a ticket.                                                        *)
LoreGap(f, t) ==
  /\ owned[f] /\ phase[f] = "open"
  /\ Send("gap", f, t, "select")
  /\ UNCHANGED <<panelVars, phase>>

-----------------------------------------------------------------------------
(* The pages' response handlers.  ok: the response is a 200 whose body     *)
(* holds the worker's outcome and ticket_action.                           *)

Persisted(p) == action[p] \in {"created", "incremented"}
Tell(p)      == told' = told \cup {p}

(* Mutant: the submit handler trusts the outcome alone. *)
SubmitAnsweredConfirmed(p, ok) ==
  LET r == owner[p] IN
  /\ IF ok /\ outcome[p] # "confirmed"
       THEN /\ row' = [row EXCEPT ![r] = TRUE]
            /\ submit' = [submit EXCEPT ![r] = FALSE]
       ELSE /\ submit' = [submit EXCEPT ![r] = TRUE]
            /\ UNCHANGED row
  /\ IF ok /\ outcome[p] = "confirmed" THEN Tell(p) ELSE UNCHANGED told
  /\ UNCHANGED <<shown, anyway, cancel, phase>>

(* Mutant: the submit button is not enabled again after an error. *)
SubmitAnsweredDisabled(p, ok) ==
  LET r == owner[p] IN
  /\ IF ok /\ outcome[p] # "confirmed"
       THEN /\ row' = [row EXCEPT ![r] = TRUE]
            /\ submit' = [submit EXCEPT ![r] = FALSE]
       ELSE /\ submit' = [submit EXCEPT ![r] = ok]
            /\ UNCHANGED row
  /\ IF ok /\ outcome[p] = "confirmed" /\ Persisted(p)
       THEN Tell(p)
       ELSE UNCHANGED told
  /\ UNCHANGED <<shown, anyway, cancel, phase>>

(* The submit handler after its await. *)
SubmitAnswered(p, ok) ==
  LET r == owner[p] IN
  /\ IF ok /\ outcome[p] # "confirmed"
       THEN /\ row' = [row EXCEPT ![r] = TRUE]
            /\ submit' = [submit EXCEPT ![r] = FALSE]
       ELSE /\ submit' = [submit EXCEPT ![r] = TRUE]
            /\ UNCHANGED row
  /\ IF ok /\ outcome[p] = "confirmed" /\ Persisted(p)
       THEN Tell(p)
       ELSE UNCHANGED told
  /\ UNCHANGED <<shown, anyway, cancel, phase>>

(* The send-anyway handler after its await: the row is hidden first, and   *)
(* each branch re-enables its own buttons.                                 *)
AnywayAnswered(p, ok) ==
  LET r == owner[p] IN
  /\ row' = [row EXCEPT ![r] = FALSE]
  /\ IF ok /\ Persisted(p)
       THEN /\ Tell(p)
            /\ submit' = [submit EXCEPT ![r] = TRUE]
            /\ UNCHANGED <<anyway, cancel>>
       ELSE /\ cancel' = [cancel EXCEPT ![r] = TRUE]
            /\ anyway' = [anyway EXCEPT
                            ![r] = IF ok /\ action[p] = "skipped_error"
                                     THEN @ ELSE TRUE]
            /\ UNCHANGED <<submit, told>>
  /\ UNCHANGED <<shown, phase>>

(* SignalForm.handleSubmit after its await: mapOutcomeToState looks at the *)
(* outcome alone, and every other answer is "not-confirmed".               *)
FormAnswered(p, ok) ==
  /\ phase' = [phase EXCEPT ![owner[p]] = "done"]
  /\ IF ok /\ outcome[p] = "confirmed" THEN Tell(p) ELSE UNCHANGED told
  /\ UNCHANGED panelVars

Answered(p, ok) ==
  /\ waiting[p]
  /\ waiting' = [waiting EXCEPT ![p] = FALSE]
  /\ \/ kind[p] = "submit" /\ SubmitAnswered(p, ok)
     \/ kind[p] = "anyway" /\ AnywayAnswered(p, ok)
     \/ kind[p] = "form" /\ FormAnswered(p, ok)
  /\ UNCHANGED <<postVars, pc, workVars, boardVars, owned>>

(* The response of a finished post arrives. *)
Respond(p) ==
  /\ pc[p] \in Ends
  /\ Answered(p, pc[p] = "answered")
  /\ UNCHANGED faults

(* The gateway gives up on the worker (504), which runs on. *)
GatewayTimeout(p) ==
  /\ pc[p] \in Steps \ {"check"}
  /\ Fault
  /\ Answered(p, FALSE)

(* The connection drops: fetch throws.  The catch block of send-anyway     *)
(* re-enables its buttons and leaves the row as it is; the other handlers  *)
(* do what they do for an error status.                                    *)
FetchThrows(p) ==
  /\ waiting[p]
  /\ Fault
  /\ IF kind[p] = "anyway"
       THEN /\ waiting' = [waiting EXCEPT ![p] = FALSE]
            /\ anyway' = [anyway EXCEPT ![owner[p]] = TRUE]
            /\ cancel' = [cancel EXCEPT ![owner[p]] = TRUE]
            /\ UNCHANGED <<shown, submit, row, phase, told, postVars, pc,
                           workVars, boardVars, owned>>
       ELSE Answered(p, FALSE)

-----------------------------------------------------------------------------
(* The gateway: ownership check, then forwarding. *)

WorkerUnchanged == UNCHANGED <<pageVars, postVars, waiting, owned>>

(* report_contradiction: the caller's conversation exists, or 404. *)
CheckOwner(p) ==
  /\ pc[p] = "check"
  /\ Goto(p, IF owned[owner[p]] THEN "verify" ELSE "failed")
  /\ UNCHANGED <<workVars, boardVars, faults>>
  /\ WorkerUnchanged

(* The ownership query, the ID token or the call to the worker fails. *)
ForwardFails(p) ==
  /\ pc[p] = "check"
  /\ Fault
  /\ Goto(p, "failed")
  /\ UNCHANGED <<workVars, boardVars>>
  /\ WorkerUnchanged

-----------------------------------------------------------------------------
(* The worker: verify_contradiction. *)

Answer(p, o, a) ==
  /\ outcome' = [outcome EXCEPT ![p] = o]
  /\ action' = [action EXCEPT ![p] = a]
  /\ Goto(p, "answered")

(* Votes of the three judges for v; a judge that fails votes "unclear". *)
Tally(votes, v) == Cardinality({j \in DOMAIN votes : votes[j] = v})

(* The verdict with a majority of two, and "unclear" when there is none. *)
Aggregate(votes) ==
  IF \E v \in Verdicts : Tally(votes, v) >= 2
    THEN CHOOSE v \in Verdicts : Tally(votes, v) >= 2
    ELSE "unclear"

DeriveOutcome(verdict) ==
  CASE verdict \in {"absent", "contradiction"} -> "confirmed"
    [] verdict = "present" -> "refused"
    [] OTHER -> "indecisive"

JudgeOutcomes ==
  {DeriveOutcome(Aggregate(votes)) : votes \in [1..3 -> Verdicts]}

(* Without sources, or when they cannot be read, nothing is judged and     *)
(* nothing is raised, forced or not.                                       *)
NoSources(p) ==
  /\ pc[p] = "verify"
  /\ Answer(p, "indecisive", "not_raised")
  /\ UNCHANGED <<seen, boardVars, faults>>
  /\ WorkerUnchanged

(* Mutant: a forced raise goes through dedup like any other. *)
VerifyDedupsForced(p) ==
  /\ pc[p] = "verify"
  /\ \E o \in JudgeOutcomes :
       \/ /\ o = "confirmed" \/ kind[p] = "anyway"
          /\ outcome' = [outcome EXCEPT ![p] = o]
          /\ Goto(p, "select")
          /\ UNCHANGED action
       \/ /\ o # "confirmed" /\ kind[p] # "anyway"
          /\ Answer(p, o, "not_raised")
  /\ UNCHANGED <<seen, boardVars, faults>>
  /\ WorkerUnchanged

(* A confirmed claim goes through dedup; a forced one that is not          *)
(* confirmed skips it; any other raises nothing.                           *)
VerifyContradiction(p) ==
  /\ pc[p] = "verify"
  /\ \E o \in JudgeOutcomes :
       \/ /\ o = "confirmed" \/ kind[p] = "anyway"
          /\ outcome' = [outcome EXCEPT ![p] = o]
          /\ Goto(p, IF o = "confirmed" THEN "select" ELSE "insert")
          /\ UNCHANGED action
       \/ /\ o # "confirmed" /\ kind[p] # "anyway"
          /\ Answer(p, o, "not_raised")
  /\ UNCHANGED <<seen, boardVars, faults>>
  /\ WorkerUnchanged

-----------------------------------------------------------------------------
(* The worker: _run_transaction of create_or_increment. *)

(* A raise the judges did not confirm. *)
Override(p) == kind[p] = "anyway" /\ outcome[p] # "confirmed"

(* Rows the dedup SELECT may return; nothing closes a ticket. *)
Similar(p) == {t \in DOMAIN tickets : tickets[t].topic = topic[p]}

Finish(p, a) ==
  /\ action' = [action EXCEPT ![p] = a]
  /\ Goto(p, "answered")

Unlock(p) == lock' = [t \in DOMAIN lock |-> IF lock[t] = p THEN 0 ELSE lock[t]]

(* The dedup SELECT picks the nearest similar row, if there is one. *)
DedupSelect(p) ==
  /\ pc[p] = "select"
  /\ \/ /\ Similar(p) = {}
        /\ Goto(p, "insert")
        /\ UNCHANGED seen
     \/ \E t \in Similar(p) :
          /\ seen' = [seen EXCEPT ![p] = t]
          /\ Goto(p, "lock")
  /\ UNCHANGED <<outcome, action, boardVars, faults>>
  /\ WorkerUnchanged

(* FOR UPDATE gets the row's lock. *)
LockRow(p) ==
  /\ pc[p] = "lock"
  /\ lock[seen[p]] = 0
  /\ lock' = [lock EXCEPT ![seen[p]] = p]
  /\ Goto(p, "update")
  /\ UNCHANGED <<workVars, tickets, by, faults>>
  /\ WorkerUnchanged

(* The rows written when p's transaction commits. *)
Incremented(p) ==
  /\ tickets' = [tickets EXCEPT ![seen[p]].score = @ + 1]
  /\ by' = [by EXCEPT ![seen[p]] = @ \cup {p}]
  /\ Unlock(p)

(* Mutant: a new ticket starts at score 0. *)
InsertedAtZero(p) ==
  /\ owned[owner[p]]
  /\ tickets' = Append(tickets, [topic |-> topic[p], score |-> 0,
                                 judges_not_passed |-> Override(p),
                                 conversation |-> owner[p]])
  /\ by' = Append(by, {p})
  /\ lock' = Append(lock, 0)

Inserted(p) ==
  /\ owned[owner[p]]  \* tickets.conversation_id references the conversation
  /\ tickets' = Append(tickets, [topic |-> topic[p], score |-> 1,
                                 judges_not_passed |-> Override(p),
                                 conversation |-> owner[p]])
  /\ by' = Append(by, {p})
  /\ lock' = Append(lock, 0)

(* UPDATE ... SET priority_score = priority_score + 1, and the commit. *)
Increment(p) ==
  /\ pc[p] = "update"
  /\ Incremented(p)
  /\ Finish(p, "incremented")
  /\ UNCHANGED <<outcome, seen, faults>>
  /\ WorkerUnchanged

(* INSERT INTO tickets, and the commit. *)
Insert(p) ==
  /\ pc[p] = "insert"
  /\ Inserted(p)
  /\ Finish(p, "created")
  /\ UNCHANGED <<outcome, seen, faults>>
  /\ WorkerUnchanged

(* Mutant: an insert the foreign key refuses is answered as created. *)
InsertRefusedSilently(p) ==
  /\ pc[p] = "insert"
  /\ ~owned[owner[p]]
  /\ Finish(p, "created")
  /\ UNCHANGED <<outcome, seen, boardVars, faults>>
  /\ WorkerUnchanged

(* The conversation was deleted since the ownership check. *)
InsertRefused(p) ==
  /\ pc[p] = "insert"
  /\ ~owned[owner[p]]
  /\ Finish(p, "skipped_error")
  /\ UNCHANGED <<outcome, seen, boardVars, faults>>
  /\ WorkerUnchanged

(* Mutant: a failed transaction is left open. *)
RaiseFailsOpen(p) ==
  /\ pc[p] \in {"select", "lock", "update", "insert"}
  /\ Fault
  /\ Finish(p, "skipped_error")
  /\ UNCHANGED <<outcome, seen, tickets, by, lock>>
  /\ WorkerUnchanged

(* The embedder, the database or the statement timeout fails the raise,    *)
(* and the transaction is rolled back.                                     *)
RaiseFails(p) ==
  /\ pc[p] \in {"select", "lock", "update", "insert"}
  /\ Fault
  /\ Finish(p, "skipped_error")
  /\ Unlock(p)
  /\ UNCHANGED <<outcome, seen, tickets, by>>
  /\ WorkerUnchanged

(* Mutant: a raise whose commit was not acknowledged is run again. *)
CommitLostRetried(p) ==
  /\ Fault
  /\ \/ pc[p] = "update" /\ Incremented(p)
     \/ pc[p] = "insert" /\ Inserted(p)
  /\ Goto(p, "select")
  /\ UNCHANGED workVars
  /\ WorkerUnchanged

(* The connection is lost after the server committed: the worker answers   *)
(* skipped_error for a ticket that was written.                            *)
CommitLost(p) ==
  /\ Fault
  /\ \/ pc[p] = "update" /\ Incremented(p)
     \/ pc[p] = "insert" /\ Inserted(p)
  /\ Finish(p, "skipped_error")
  /\ UNCHANGED <<outcome, seen>>
  /\ WorkerUnchanged

(* The visitor deletes the conversation; a ticket that references it       *)
(* forbids that.  It shares the bound of the failures.                     *)
DeleteConversation(r) ==
  /\ owned[r]
  /\ \A t \in DOMAIN tickets : tickets[t].conversation # r
  /\ owned' = [owned EXCEPT ![r] = FALSE]
  /\ Fault
  /\ UNCHANGED <<pageVars, postVars, waiting, pc, workVars, boardVars>>

-----------------------------------------------------------------------------
Click == \/ \E r \in Panels : Toggle(r) \/ CancelClick(r)
         \/ \E r \in Panels, t \in Topics :
              SubmitClick(r, t) \/ SendAnywayClick(r, t)
         \/ \E f \in Forms, t \in Topics : HandleSubmit(f, t) \/ LoreGap(f, t)
         \/ \E r \in Pages : DeleteConversation(r)

Process(p) == \/ CheckOwner(p) \/ NoSources(p) \/ VerifyContradiction(p)
              \/ DedupSelect(p) \/ LockRow(p) \/ Increment(p)
              \/ Insert(p) \/ InsertRefused(p) \/ Respond(p)

Trouble(p) == \/ GatewayTimeout(p) \/ FetchThrows(p) \/ ForwardFails(p)
              \/ RaiseFails(p) \/ CommitLost(p)

Next == Click \/ \E p \in Posts : Process(p) \/ Trouble(p)

Spec == Init /\ [][Next]_vars

(* The gateway and the worker keep running, and responses are delivered;   *)
(* visitors need not click.                                                *)
FairSpec == Spec /\ WF_vars(\E p \in Posts : Process(p))

-----------------------------------------------------------------------------
TypeOK ==
  /\ {shown, submit, row, anyway, cancel} \subseteq [Panels -> BOOLEAN]
  /\ phase \in [Forms -> {"open", "submitting", "done"}]
  /\ told \subseteq Posts
  /\ kind \in [Posts -> Kinds \cup {"none"}]
  /\ owner \in [Posts -> Pages \cup {"none"}]
  /\ topic \in [Posts -> Topics \cup {"none"}]
  /\ waiting \in [Posts -> BOOLEAN]
  /\ pc \in [Posts -> Steps \cup Ends \cup {"idle"}]
  /\ outcome \in [Posts -> Outcomes]
  /\ action \in [Posts -> Actions]
  /\ seen \in [Posts -> 0..MaxPosts]
  /\ tickets \in Seq([topic : Topics, score : Nat \ {0},
                      judges_not_passed : BOOLEAN, conversation : Pages])
  /\ by \in Seq(SUBSET Posts) /\ Len(by) = Len(tickets)
  /\ lock \in Seq(0..MaxPosts) /\ Len(lock) = Len(tickets)
  /\ owned \in [Pages -> BOOLEAN]
  /\ faults \in 0..MaxFaults

(* A ticket's priority_score is the number of raises it stands for, and no *)
(* raise is counted by two tickets: concurrent raises of one topic lose no *)
(* increment, and a failed or ambiguous transaction is not run again       *)
(* (_run_transaction, ticket_service.py).                                  *)
ScoreCountsSignals ==
  \A t \in DOMAIN tickets :
    /\ tickets[t].score = Cardinality(by[t])
    /\ \A u \in DOMAIN tickets \ {t} : by[t] \cap by[u] = {}

(* What the worker answers agrees with the board: "created" and            *)
(* "incremented" posts are counted by a ticket, which "created" ones       *)
(* opened, and a "not_raised" post by none.                                *)
ActionTellsBoard ==
  \A p \in Posts :
    LET counted == {t \in DOMAIN tickets : p \in by[t]} IN
    /\ action[p] = "created" =>
         \E t \in counted : tickets[t].conversation = owner[p]
    /\ action[p] = "incremented" => counted = {seen[p]}
    /\ action[p] = "not_raised" => counted = {}

(* An override the judges did not confirm is never hidden behind another   *)
(* ticket, whatever similar tickets exist: it is the opening raise of a    *)
(* ticket flagged judges_not_passed, and no other ticket carries the flag  *)
(* (verify_contradiction, create_or_increment).                            *)
OverrideVisible ==
  \A t \in DOMAIN tickets :
    LET overrides == {p \in by[t] : Override(p)} IN
    /\ tickets[t].judges_not_passed <=> overrides # {}
    /\ Cardinality(overrides) <= 1

(* The static page never announces a report that is not on the board, not  *)
(* even one answered late, after the panel was folded and used again       *)
(* (app.js: "never claim success").                                        *)
PanelToldIsRecorded ==
  \A p \in told : kind[p] # "form" => \E t \in DOMAIN tickets : p \in by[t]

(* Every click that sent a request gets its response handler run: neither  *)
(* the row locks of concurrent raises nor the failures leave a page        *)
(* waiting (app.js, SignalForm.tsx).                                       *)
PageAnswered == \A p \in Posts : waiting[p] ~> ~waiting[p]

(* While no request of its own is in flight, an unfolded panel has a       *)
(* button the visitor can use, whatever was folded, cancelled or answered  *)
(* late, as long as nothing was sent anyway.  After a send-anyway app.js   *)
(* keeps no such promise: an error hides the row whose buttons it enables  *)
(* again ("so the panel is not stuck after a send-anyway failure"), and a  *)
(* success leaves them disabled for the next refusal.                      *)
PanelUsable ==
  \A r \in Panels :
    shown[r] /\ (\A p \in Posts : waiting[p] => owner[p] # r) =>
      \/ submit[r]
      \/ row[r] /\ (anyway[r] \/ cancel[r])
      \/ \E p \in Posts : owner[p] = r /\ kind[p] = "anyway"
=============================================================================
