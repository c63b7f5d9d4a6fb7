------------------------------ MODULE History ------------------------------
(***************************************************************************)
(* The conversation history beside the chat thread (ChatShell): opening a  *)
(* past conversation, starting a new one, and deleting one after a         *)
(* confirmation.  Every handler goes on after the answers it waits for,    *)
(* and the reader may click meanwhile; a handler keeps the state of the    *)
(* render it was created in.                                               *)
(***************************************************************************)
EXTENDS Naturals, FiniteSets

CONSTANTS Convs,      \* the conversations of the reader, past and to come
          Past,       \* those that exist when the page is loaded
          None,       \* no conversation
          MaxClicks   \* bound on what the reader does

VARIABLES stored,         \* the conversations the server has
          conversations,  \* the list the page shows
          selectedId,     \* the open conversation, or None
          token,          \* selectionRequestRef.current
          selects,        \* the transcripts being fetched
          pendingDeleteId, deletingId,
          deletes,        \* the deletions under way
          refreshes,      \* the lists being fetched after a turn
          fresh,          \* the conversations that have not been started
          clicks

vars == <<stored, conversations, selectedId, token, selects, pendingDeleteId,
          deletingId, deletes, refreshes, fresh, clicks>>

thread == <<selectedId, token>>
dialog == <<pendingDeleteId, deletingId, deletes>>

Init ==
  /\ stored = Past
  /\ conversations = Past
  /\ selectedId = None
  /\ token = 0
  /\ selects = {}
  /\ pendingDeleteId = None
  /\ deletingId = None
  /\ deletes = {}
  /\ refreshes = {}
  /\ fresh = Convs \ Past
  /\ clicks = 0

\* The confirmation dialog covers the page, while the row it names is listed.
Modal == pendingDeleteId \in conversations

Click == clicks < MaxClicks /\ clicks' = clicks + 1

-----------------------------------------------------------------------------
\* handleSelectConversation

Select(id) ==
  /\ Click /\ ~Modal
  /\ id \in conversations /\ deletingId # id
  /\ token' = token + 1
  /\ selects' = selects \cup {[token |-> token', id |-> id, reply |-> "none"]}
  /\ UNCHANGED <<stored, conversations, selectedId, dialog, refreshes, fresh>>

\* The server reads the conversation, or the request fails.
SelectAnswered(s) ==
  /\ s.reply = "none"
  /\ \E reply \in {"error"} \cup (IF s.id \in stored THEN {"transcript"} ELSE {}) :
       selects' = (selects \ {s}) \cup {[s EXCEPT !.reply = reply]}
  /\ UNCHANGED <<stored, conversations, thread, dialog, refreshes, fresh, clicks>>

\* A transcript is shown if no other selection was made since.
SelectReturns(s) ==
  /\ s.reply # "none"
  /\ selects' = selects \ {s}
  /\ selectedId' = IF s.token = token /\ s.reply = "transcript" THEN s.id ELSE selectedId
  /\ UNCHANGED <<stored, conversations, token, dialog, refreshes, fresh, clicks>>

\* handleNew
New ==
  /\ Click /\ ~Modal
  /\ token' = token + 1
  /\ selectedId' = None
  /\ UNCHANGED <<stored, conversations, selects, dialog, refreshes, fresh>>

\* The answer to a turn of the open thread has come: a first turn has stored a
\* conversation, whose thread stays the one of the key "new".  ChatForm fetches the
\* list, which is read on the server ...
TurnAnswered ==
  /\ Click
  /\ \E C \in {{}} \cup {{c} : c \in {f \in fresh : selectedId = None}} :
       fresh' = fresh \ C /\ stored' = stored \cup C
  /\ refreshes' = refreshes \cup {[seen |-> None, click |-> clicks]}
  /\ UNCHANGED <<conversations, thread, selects, dialog>>

RefreshRead(f) ==
  /\ f.seen = None
  /\ refreshes' = (refreshes \ {f}) \cup {[f EXCEPT !.seen = stored]}
  /\ UNCHANGED <<stored, conversations, thread, selects, dialog, fresh, clicks>>

\* ... and shown (handleConversationStarted), unless the request fails.
RefreshShown(f) ==
  /\ f.seen # None
  /\ refreshes' = refreshes \ {f}
  /\ conversations' \in {f.seen, conversations}
  /\ UNCHANGED <<stored, thread, selects, dialog, fresh, clicks>>

-----------------------------------------------------------------------------
\* handleRequestDelete, handleCancelDelete, handleConfirmDelete

RequestDelete(id) ==
  /\ Click /\ ~Modal
  /\ id \in conversations /\ deletingId # id
  /\ pendingDeleteId' = id
  /\ UNCHANGED <<stored, conversations, thread, selects, deletingId, deletes, refreshes, fresh>>

CancelDelete ==
  /\ Modal
  /\ pendingDeleteId' = None
  /\ UNCHANGED <<stored, conversations, thread, selects, deletingId, deletes, refreshes, fresh, clicks>>

\* The handler keeps the selectedId of the render it was clicked in.
ConfirmDelete ==
  /\ Modal
  /\ pendingDeleteId' = None
  /\ deletingId' = pendingDeleteId
  /\ deletes' = deletes \cup
       {[id |-> pendingDeleteId, open |-> selectedId, stage |-> "sent", seen |-> {},
         click |-> clicks]}
  /\ UNCHANGED <<stored, conversations, thread, selects, refreshes, fresh, clicks>>

\* The server deletes what it has; it refuses a conversation with a ticket, and
\* the request or its answer may be lost.
DeleteAnswered(d) ==
  /\ d.stage = "sent"
  /\ \E gone \in BOOLEAN, reply \in {"ok", "error"} :
       /\ reply = "ok" => gone /\ d.id \in stored
       /\ stored' = IF gone THEN stored \ {d.id} ELSE stored
       /\ deletes' = (deletes \ {d}) \cup {[d EXCEPT !.stage = reply]}
  /\ UNCHANGED <<conversations, thread, selects, pendingDeleteId, deletingId, refreshes, fresh, clicks>>

\* An error is shown, and the row stays.
DeleteFails(d) ==
  /\ d.stage = "error"
  /\ deletes' = deletes \ {d}
  /\ deletingId' = None
  /\ UNCHANGED <<stored, conversations, thread, selects, pendingDeleteId, refreshes, fresh, clicks>>

\* reconcileConversations: the list is read on the server ...
ListRead(d) ==
  /\ d.stage = "ok"
  /\ deletes' = (deletes \ {d}) \cup {[d EXCEPT !.stage = "listed", !.seen = stored]}
  /\ UNCHANGED <<stored, conversations, thread, selects, pendingDeleteId, deletingId, refreshes, fresh, clicks>>

\* ... and shown, unless the request failed; then the thread is reset if the
\* deleted conversation was open at the confirmation.
DeleteDone(d) ==
  /\ d.stage = "listed"
  /\ deletes' = deletes \ {d}
  /\ deletingId' = None
  /\ conversations' \in {d.seen, conversations}
  /\ IF d.open = d.id
     THEN token' = token + 1 /\ selectedId' = None
     ELSE UNCHANGED thread
  /\ UNCHANGED <<stored, selects, pendingDeleteId, refreshes, fresh, clicks>>

Next ==
  \/ New \/ TurnAnswered \/ CancelDelete \/ ConfirmDelete
  \/ \E c \in Convs : Select(c) \/ RequestDelete(c)
  \/ \E f \in refreshes : RefreshRead(f) \/ RefreshShown(f)
  \/ \E s \in selects : SelectAnswered(s) \/ SelectReturns(s)
  \/ \E d \in deletes : DeleteAnswered(d) \/ DeleteFails(d) \/ ListRead(d) \/ DeleteDone(d)

Spec == Init /\ [][Next]_vars

-----------------------------------------------------------------------------
\* ChatShell: deleting the open conversation returns to "Nouvelle conversation";
\* deleting any other conversation leaves the open thread untouched.
DeleteLeavesOthers ==
  [][\A d \in deletes : DeleteDone(d) =>
       selectedId' = IF selectedId = d.id THEN None ELSE selectedId]_vars
=============================================================================
