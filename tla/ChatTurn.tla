------------------------------- MODULE ChatTurn -------------------------------
(***************************************************************************)
(* A reader asks questions one after the other; each travels page ->       *)
(* gateway -> workers, is answered by the language model, and is then      *)
(* persisted by finalize_generation before the answer is completed.        *)
(*                                                                         *)
(* There are two pages.  The form (ChatForm.tsx) uses /v1/chat/stream and  *)
(* learns the conversation from the events of its first complete answer;   *)
(* the static page (app.js) uses the blocking /v1/chat and makes up the    *)
(* conversation itself.  The two endpoints share every step of the worker. *)
(*                                                                         *)
(* The connection of a turn may break, end early or be answered 504 by the *)
(* gateway while its worker runs on, and an append that was not answered   *)
(* may still be stored later: a turn the reader has given up, or was told  *)
(* had failed, may act while the next one is running.  Tokens of one       *)
(* answer are one event, and the memory window is not cut to its token     *)
(* budget.                                                                 *)
(***************************************************************************)
EXTENDS Integers, Sequences

CONSTANTS
  MaxTurns,   \* how many questions the reader asks
  MaxFaults   \* bound on infrastructure faults in a behaviour

ASSUME ChatAssumption == MaxTurns \in Nat /\ MaxFaults \in Nat

VARIABLES
  page,     \* which page the reader uses
  sent,     \* how many questions have been sent
  busy,     \* isStreaming, or the disabled send button
  current,  \* the conversation the page would name (0: none yet)
  shown,    \* the turns whose answer the page shows
  pc,       \* where the gateway and the worker are with each turn
  conv,     \* the conversation of each turn (0: not sent)
  mode,     \* the mode the worker decided on
  answer,   \* what the language model answered
  wire,     \* the events sent to the page; "refused" is a non-2xx response,
            \* "timeout" that of a gateway or BFF that no longer waits
  got,      \* how many of them the page has consumed
  gone,     \* whether the worker's connection to the page is no more
  window,   \* the rows load_memory_window read, by their place in stored
  append,   \* the outcome of each of the two appends
  stored,   \* the conversation_messages rows, in order
  late,     \* appends still running after their caller gave up
  tickets,  \* the turns that raised or incremented a ticket
  logged,   \* the query_log row of each turn
  faults

pageVars == <<page, sent, busy, current, shown>>
netVars == <<wire, got, gone>>
saveVars == <<append, stored, late>>
runVars == <<conv, mode, answer, window>>

vars == <<pageVars, pc, runVars, netVars, saveVars, tickets, logged, faults>>

Turns == 1 .. MaxTurns

Roles == {"user", "assistant"}

Message == [turn : Turns, role : Roles]

\* Only a lore gap may raise a ticket: canon, mystery and off_topic are one.
Modes == {"lore_gap", "other"}

\* The steps of the stream's generator, which a noticed disconnect cancels.
Streaming == {"retrieve", "llm", "fail", "append_user", "append_assistant",
              "ticket", "log"}

Events == {"meta", "token", "done", "error", "refused", "timeout"}

\* The type of every variable of the pages, the connection and the worker.
TypeOK ==
  /\ page \in {"form", "static"}
  /\ sent \in 0 .. MaxTurns
  /\ busy \in BOOLEAN
  /\ current \in 0 .. sent
  /\ shown \subseteq 1 .. sent
  /\ pc \in [Turns -> Streaming \cup {"idle", "gateway", "window", "classify", "end"}]
  /\ conv \in [Turns -> 0 .. sent]
  /\ mode \in [Turns -> Modes \cup {"none"}]
  /\ answer \in [Turns -> {"none", "text", "empty"}]
  /\ wire \in [Turns -> Seq(Events)]
  /\ got \in [Turns -> Nat] /\ \A t \in Turns : got[t] <= Len(wire[t])
  /\ gone \in [Turns -> BOOLEAN]
  /\ window \in [Turns -> SUBSET (1 .. Len(stored))]
  /\ append \in [Turns -> [Roles -> {"none", "indexed", "unindexed", "failed"}]]
  /\ stored \in Seq(Message)
  /\ late \subseteq Message
  /\ tickets \subseteq Turns
  /\ logged \in [Turns -> {"none", "lost", "200", "5xx"}]
  /\ faults \in 0 .. MaxFaults

Init ==
  /\ page \in {"form", "static"}
  /\ sent = 0
  /\ busy = FALSE
  /\ current = 0
  /\ shown = {}
  /\ pc = [t \in Turns |-> "idle"]
  /\ conv = [t \in Turns |-> 0]
  /\ mode = [t \in Turns |-> "none"]
  /\ answer = [t \in Turns |-> "none"]
  /\ wire = [t \in Turns |-> <<>>]
  /\ got = [t \in Turns |-> 0]
  /\ gone = [t \in Turns |-> FALSE]
  /\ window = [t \in Turns |-> {}]
  /\ append = [t \in Turns |-> [r \in Roles |-> "none"]]
  /\ stored = <<>>
  /\ late = {}
  /\ tickets = {}
  /\ logged = [t \in Turns |-> "none"]
  /\ faults = 0

Fault == faults < MaxFaults /\ faults' = faults + 1

Goto(t, step) == pc' = [pc EXCEPT ![t] = step]

\* The worker yields events, which reach the page while there is a connection;
\* those a blocking endpoint does not have are left out.
Emit(t, events) ==
  /\ wire' = IF gone[t] THEN wire ELSE [wire EXCEPT ![t] = @ \o events]
  /\ UNCHANGED <<got, gone>>

\* An answer that is not 2xx.
Refuse(t) ==
  /\ Goto(t, "end")
  /\ Emit(t, <<"refused">>)

-----------------------------------------------------------------------------
(* The page.                                                               *)

\* One question at a time; a turn without a conversation gets a new one, named
\* here by its turn.
Ask(t) ==
  /\ t = sent + 1
  /\ ~busy
  /\ sent' = t
  /\ busy' = TRUE
  /\ conv' = [conv EXCEPT ![t] = IF current = 0 THEN t ELSE current]
  /\ Goto(t, "gateway")
  /\ UNCHANGED <<page, shown, mode, answer, window, netVars, saveVars, tickets,
                 logged, faults>>

\* sendQuery of the form: without a conversation, the worker makes one up.
SendQuery(t) ==
  /\ page = "form"
  /\ Ask(t)
  /\ UNCHANGED current

\* handleSubmit of the static page: ensureConversationId comes first.
HandleSubmit(t) ==
  /\ page = "static"
  /\ Ask(t)
  /\ current' = conv'[t]

\* The page consumes n events and acts on the first.  One in ends re-enables
\* the page; done also shows the answer and names the conversation from now on.
Consume(t, n, ends, named) ==
  /\ t = sent
  /\ busy
  /\ got[t] < Len(wire[t])
  /\ got' = [got EXCEPT ![t] = @ + n]
  /\ LET event == wire[t][got[t] + 1] IN
       /\ busy' = (event \notin ends)
       /\ shown' = IF event = "done" THEN shown \cup {t} ELSE shown
       /\ current' = IF event = "done" THEN named ELSE current
  /\ UNCHANGED <<page, sent, pc, runVars, wire, gone, saveVars, tickets, logged,
                 faults>>

\* Variant: the conversation of the answer is not kept.
ReceiveForgets(t) == Consume(t, 1, {"done", "error", "refused", "timeout"}, current)

\* Variant: an error event does not re-enable the page.
ReceiveSpins(t) == Consume(t, 1, {"done", "refused", "timeout"}, conv[t])

\* Variant: of two events that arrive in one chunk, the second is dropped.
ReceiveSkips(t) == Consume(t, 2, {"done", "error", "refused", "timeout"}, conv[t])

\* consumeStreamIntoThread, and the response branch of handleSubmit.
Receive(t) == Consume(t, 1, {"done", "error", "refused", "timeout"}, conv[t])

\* The page's request ends without a further event.
Lose(t) ==
  /\ t = sent
  /\ busy
  /\ Fault
  /\ busy' = FALSE
  /\ gone' = [gone EXCEPT ![t] = TRUE]
  /\ UNCHANGED <<page, sent, pc, runVars, wire, got, saveVars, tickets, logged>>

\* The connection breaks (network, end of an instance, the 30 s of the BFF or the
\* 35 s of the gateway in the middle of a stream): the page shows an error.
Cut(t) ==
  /\ Lose(t)
  /\ UNCHANGED <<current, shown>>

\* The stream ends as if complete, after meta and without done: ChatForm takes
\* what has arrived for the answer, and the conversation of meta for its own.
\* (Before meta it shows an error, like Cut.)
EndsEarly(t) ==
  /\ page = "form"
  /\ got[t] > 0
  /\ Lose(t)
  /\ shown' = shown \cup {t}
  /\ current' = conv[t]

-----------------------------------------------------------------------------
(* The gateway.                                                            *)

\* chat and chat_stream: the ID token is fetched and the request forwarded.
Forward(t) ==
  /\ pc[t] = "gateway"
  /\ Goto(t, "window")
  /\ UNCHANGED <<pageVars, runVars, netVars, saveVars, tickets, logged, faults>>

\* No ID token, no connection to the workers, or a non-2xx of theirs.
ForwardFails(t) ==
  /\ pc[t] = "gateway"
  /\ Fault
  /\ Refuse(t)
  /\ UNCHANGED <<pageVars, runVars, saveVars, tickets, logged>>

\* The gateway answers 504 in the worker's place (after 90 s, or 35 s for a
\* stream whose response has not begun), or the BFF gives up.  The request of a
\* blocking call, and that of a stream until its response begins, runs on.
GatewayTimesOut(t) ==
  /\ pc[t] \in {"window", "classify"} \cup (IF page = "static" THEN Streaming ELSE {})
  /\ ~gone[t]
  /\ Fault
  /\ wire' = [wire EXCEPT ![t] = Append(@, "timeout")]
  /\ gone' = [gone EXCEPT ![t] = TRUE]
  /\ UNCHANGED <<pageVars, pc, runVars, got, saveVars, tickets, logged>>

-----------------------------------------------------------------------------
(* The worker: deciding on a mode and asking the language model.           *)

\* load_memory_window: the rows of the conversation, read before this turn
\* is persisted.
LoadWindow(t) ==
  /\ pc[t] = "window"
  /\ window' = [window EXCEPT
                  ![t] = {i \in 1 .. Len(stored) : conv[stored[i].turn] = conv[t]}]
  /\ Goto(t, "classify")
  /\ UNCHANGED <<pageVars, conv, mode, answer, netVars, saveVars, tickets,
                 logged, faults>>

\* No handler catches an error of that query.
LoadWindowFails(t) ==
  /\ pc[t] = "window"
  /\ Fault
  /\ Refuse(t)
  /\ UNCHANGED <<pageVars, runVars, saveVars, tickets, logged>>

\* The mode is decided; the stream announces it in its meta event.
Decide(t, m) ==
  /\ mode' = [mode EXCEPT ![t] = m]
  /\ Goto(t, "llm")
  /\ Emit(t, IF page = "form" THEN <<"meta">> ELSE <<>>)

\* classify_intent: off-topic questions need no sources; a classifier that
\* fails counts as in_domain.
ClassifyIntent(t) ==
  /\ pc[t] = "classify"
  /\ \/ Decide(t, "other")
     \/ Goto(t, "retrieve") /\ UNCHANGED <<mode, netVars>>
  /\ UNCHANGED <<pageVars, conv, answer, window, saveVars, tickets,
                 logged, faults>>

\* Retrieval, access filter and score threshold choose the mode.
Retrieve(t) ==
  /\ pc[t] = "retrieve"
  /\ \E m \in Modes : Decide(t, m)
  /\ UNCHANGED <<pageVars, conv, answer, window, saveVars, tickets,
                 logged, faults>>

\* A failed retrieval: the stream logs it and then sends an error; the
\* blocking endpoint answers 502 at once.
RetrieveFails(t) ==
  /\ pc[t] = "retrieve"
  /\ Fault
  /\ IF page = "form"
       THEN Goto(t, "fail") /\ UNCHANGED netVars
       ELSE Refuse(t)
  /\ UNCHANGED <<pageVars, runVars, saveVars, tickets, logged>>

\* Variant: the stream is completed before the turn is persisted.
LlmAnswersDone(t) ==
  /\ pc[t] = "llm"
  /\ answer' = [answer EXCEPT ![t] = "text"]
  /\ Emit(t, <<"token", "done">>)
  /\ Goto(t, "append_user")
  /\ UNCHANGED <<pageVars, conv, mode, window, saveVars, tickets, logged,
                 faults>>

\* The whole answer is collected first, and then its tokens are sent.  An answer
\* without text is counted as a fault of the model.
LlmAnswers(t) ==
  /\ pc[t] = "llm"
  /\ \E a \in {"text", "empty"} :
       /\ IF a = "empty" THEN Fault ELSE UNCHANGED faults
       /\ answer' = [answer EXCEPT ![t] = a]
       /\ Emit(t, IF page = "form" /\ a = "text" THEN <<"token">> ELSE <<>>)
  /\ Goto(t, "append_user")
  /\ UNCHANGED <<pageVars, conv, mode, window, saveVars, tickets, logged>>

\* Variant: the question is stored although it gets no answer.
LlmFailsSaves(t) ==
  /\ pc[t] = "llm"
  /\ Fault
  /\ stored' = Append(stored, [turn |-> t, role |-> "user"])
  /\ Goto(t, "fail")
  /\ UNCHANGED <<pageVars, runVars, netVars, append, late,
                 tickets, logged>>

\* LlmTimeoutError (504) or LlmUpstreamError (502).
LlmFails(t) ==
  /\ pc[t] = "llm"
  /\ Fault
  /\ Goto(t, "fail")
  /\ UNCHANGED <<pageVars, runVars, netVars, saveVars, tickets,
                 logged>>

\* QueryLogRepository.insert swallows its errors.
InsertLog(t, s) ==
  \/ logged' = [logged EXCEPT ![t] = s] /\ UNCHANGED faults
  \/ Fault /\ logged' = [logged EXCEPT ![t] = "lost"]

\* Variant: the failed turn is not logged.
FailUnlogged(t) ==
  /\ pc[t] = "fail"
  /\ Goto(t, "end")
  /\ Emit(t, IF page = "form" THEN <<"error">> ELSE <<"refused">>)
  /\ UNCHANGED <<pageVars, runVars, saveVars, tickets, logged, faults>>

\* The row of a failed turn, then its error.
Fail(t) ==
  /\ pc[t] = "fail"
  /\ InsertLog(t, "5xx")
  /\ Goto(t, "end")
  /\ Emit(t, IF page = "form" THEN <<"error">> ELSE <<"refused">>)
  /\ UNCHANGED <<pageVars, runVars, saveVars, tickets>>

-----------------------------------------------------------------------------
(* The worker: finalize_generation.                                        *)

\* The append whose turn it is, and the step after it.
Role(t) == IF pc[t] = "append_user" THEN "user" ELSE "assistant"

Appending(t) == pc[t] \in {"append_user", "append_assistant"}

AppendIs(t, outcome) ==
  /\ append' = [append EXCEPT ![t][Role(t)] = outcome]
  /\ Goto(t, IF Role(t) = "user" THEN "append_assistant" ELSE "ticket")
  /\ UNCHANGED <<pageVars, runVars, netVars, tickets, logged>>

\* A message without content is refused by MessageIn.
Acceptable(t) == Role(t) = "user" \/ answer[t] = "text"

\* append_message answered 201: the row is there.
AppendMessage(t) ==
  /\ Appending(t)
  /\ Acceptable(t)
  /\ stored' = Append(stored, [turn |-> t, role |-> Role(t)])
  /\ AppendIs(t, "indexed")
  /\ UNCHANGED <<late, faults>>

\* 201, but the best-effort insert of the row failed.
AppendUnindexed(t) ==
  /\ Appending(t)
  /\ Acceptable(t)
  /\ Fault
  /\ AppendIs(t, "unindexed")
  /\ UNCHANGED <<stored, late>>

\* A non-2xx answer.
AppendRefused(t) ==
  /\ Appending(t)
  /\ IF Acceptable(t) THEN Fault ELSE UNCHANGED faults
  /\ AppendIs(t, "failed")
  /\ UNCHANGED <<stored, late>>

\* No answer within 30 s; the request may still be served.
AppendTimesOut(t) ==
  /\ Appending(t)
  /\ Acceptable(t)
  /\ Fault
  /\ late' = late \cup {[turn |-> t, role |-> Role(t)]}
  /\ AppendIs(t, "failed")
  /\ UNCHANGED stored

\* An append whose caller has given up is served after all, or is lost.
LateAppend(m) ==
  /\ m \in late
  /\ late' = late \ {m}
  /\ \/ stored' = Append(stored, m)
     \/ UNCHANGED stored
  /\ UNCHANGED <<pageVars, pc, runVars, netVars, append, tickets, logged, faults>>

Saved(t) == \A r \in Roles : append[t][r] \in {"indexed", "unindexed"}

\* Variant: the appends are not looked at.
CreateTicketAnyway(t) ==
  /\ pc[t] = "ticket"
  /\ tickets' = IF mode[t] = "lore_gap" THEN tickets \cup {t} ELSE tickets
  /\ Goto(t, "log")
  /\ UNCHANGED <<pageVars, runVars, netVars, saveVars, logged, faults>>

\* _maybe_create_ticket: a ticket for a lore gap whose turn was saved;
\* create_or_increment swallows its errors.
CreateTicket(t) ==
  /\ pc[t] = "ticket"
  /\ \/ /\ tickets' = IF mode[t] = "lore_gap" /\ Saved(t) THEN tickets \cup {t}
                                                         ELSE tickets
        /\ UNCHANGED faults
     \/ mode[t] = "lore_gap" /\ Saved(t) /\ Fault /\ UNCHANGED tickets
  /\ Goto(t, "log")
  /\ UNCHANGED <<pageVars, runVars, netVars, saveVars, logged>>

\* The row of the answered turn, then done (or the blocking response).
Done(t) ==
  /\ pc[t] = "log"
  /\ InsertLog(t, "200")
  /\ Goto(t, "end")
  /\ Emit(t, <<"done">>)
  /\ UNCHANGED <<pageVars, runVars, saveVars, tickets>>

\* The server notices that the stream's client is gone and cancels the
\* generator where it waits; an append it was waiting for may still be served.
Cancel(t) ==
  /\ page = "form"
  /\ gone[t]
  /\ pc[t] \in Streaming
  /\ late' = IF Appending(t) /\ Acceptable(t)
               THEN late \cup {[turn |-> t, role |-> Role(t)]}
               ELSE late
  /\ Goto(t, "end")
  /\ UNCHANGED <<pageVars, runVars, netVars, append, stored, tickets, logged, faults>>

Work(t) ==
  \/ Forward(t) \/ LoadWindow(t) \/ ClassifyIntent(t) \/ Retrieve(t)
  \/ LlmAnswers(t) \/ Fail(t) \/ AppendMessage(t) \/ AppendRefused(t)
  \/ CreateTicket(t) \/ Done(t)

Trouble(t) ==
  \/ Cut(t) \/ EndsEarly(t) \/ ForwardFails(t) \/ GatewayTimesOut(t)
  \/ LoadWindowFails(t) \/ RetrieveFails(t)
  \/ LlmFails(t) \/ AppendUnindexed(t) \/ AppendTimesOut(t) \/ Cancel(t)

Next ==
  \/ \E t \in Turns : \/ SendQuery(t) \/ HandleSubmit(t) \/ Receive(t)
                      \/ Work(t) \/ Trouble(t)
  \/ \E m \in late : LateAppend(m)

Spec == Init /\ [][Next]_vars

\* Every step of the worker ends by itself or at a timeout (5 s for the
\* classifier, 30 s for the model, for retrieval and for an append), and the
\* page is an event loop.
FairSpec ==
  Spec /\ \A t \in Turns : WF_vars(Work(t)) /\ WF_vars(Receive(t))

-----------------------------------------------------------------------------

\* Row i is the message of turn t with role r.
IsRow(i, t, r) == stored[i] = [turn |-> t, role |-> r]

\* The question of t and, after it, its answer are among the rows.
InOrder(t, rows) ==
  \E i, j \in rows : i < j /\ IsRow(i, t, "user") /\ IsRow(j, t, "assistant")

\* The page has got the end of the answer of t, not just some of it.
Completed(t) == \E i \in 1 .. got[t] : wire[t][i] = "done"

\* A follow-up question is answered in the light of every answer the reader
\* had seen to its end: finalize_generation comes before done, so what
\* load_memory_window reads for a later turn has each turn completed before it,
\* question first, unless one of its appends went wrong.
AnswerRemembered ==
  \A t, u \in Turns :
    /\ u < t
    /\ Completed(u)
    /\ mode[t] # "none"
    /\ conv[u] = conv[t]
    /\ \A r \in Roles : append[u][r] = "indexed"
    => InOrder(u, window[t])

\* What the reader was told of t is a failure: of the worker, of the way to it,
\* or only of the wait for it.
ToldFailed(t) == \E i \in DOMAIN wire[t] : wire[t][i] \in {"error", "refused", "timeout"}

\* AC-4 of stream_router.py: a turn that failed, at whatever point, is in no
\* conversation, is on its way to none, and raised no ticket.  The reader is told
\* of a failure that did leave something only when the gateway or the BFF has
\* given up a worker that runs on (504): that turn may be stored, and its ticket
\* raised, all the same.
FailedTurnLeavesNothing ==
  \A t \in Turns :
    (ToldFailed(t) /\ ~gone[t]) \/ logged[t] = "5xx"
    => /\ \A r \in Roles : /\ \A i \in 1 .. Len(stored) : ~IsRow(i, t, r)
                           /\ [turn |-> t, role |-> r] \notin late
       /\ t \notin tickets

\* AC-9 of _maybe_create_ticket: a ticket points to a conversation that was
\* acknowledged to hold both its question and the answer given to it, and its
\* rows, where both exist, are in order whatever other turns were doing.
TicketHasTurn ==
  \A t \in tickets :
    /\ Saved(t)
    /\ mode[t] = "lore_gap"
    /\ (\A r \in Roles : append[t][r] = "indexed") => InOrder(t, 1 .. Len(stored))

\* query_log tells what the worker did, and the reader the same unless they were
\* cut off: the row of an answer that was completed is 200 and that of an error
\* event is the failure, unless the insert itself failed; a row that says 200 for
\* a turn the reader was told had failed is that of a worker that was given up
\* (504).  A blocking call whose retrieval fails is refused without a row.
LogTellsOutcome ==
  \A t \in Turns :
    /\ \A i \in DOMAIN wire[t] :
         /\ wire[t][i] = "done" => logged[t] \in {"200", "lost"}
         /\ wire[t][i] = "error" => logged[t] \in {"5xx", "lost"}
         /\ wire[t][i] = "refused" => logged[t] # "200"
    /\ logged[t] = "200" /\ ToldFailed(t) => gone[t]
    /\ logged[t] = "5xx" => ~Completed(t)

\* The answers a page shows, those that ended early included, are of the
\* conversation it names with its next question, although the form learns which
\* one that is only from its first answer.
OneConversation == \A t \in shown : conv[t] = current

\* The page never waits for ever: every question ends in an answer or an error.
ReaderAnswered == busy ~> ~busy
=============================================================================
