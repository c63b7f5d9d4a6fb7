-------------------------- MODULE ConversationStore --------------------------
(***************************************************************************)
(* One conversation, kept in two stores: a Postgres row (with its          *)
(* conversation_messages and tickets) and a Markdown transcript in GCS.    *)
(* Requests to append a message (workers, conversation/router.py), to      *)
(* delete the conversation (gateway, handlers/conversations.rs) and to     *)
(* insert a ticket (workers, ticket_service.py) run concurrently; a step   *)
(* is what one of them does between two awaits.                            *)
(*                                                                         *)
(* Different conversations share nothing here, so one is enough.  A        *)
(* request is named by its message, delete or ticket and is sent at most   *)
(* once; a retry by the caller is another request.                         *)
(***************************************************************************)
EXTENDS Integers, Sequences

CONSTANTS
  Msgs,         \* append requests, one per message
  Stamp,        \* Stamp[m]: the timestamp the caller put in m
  Future,       \* the messages stamped more than five minutes ahead
  Deletes,      \* delete requests
  Tickets,      \* requests to insert a ticket on this conversation
  MaxAttempts,  \* read-modify-write attempts of one append (4 in the code)
  MaxFaults,    \* bound on infrastructure faults in a behaviour
  None          \* no transaction holds the row

ASSUME StoreAssumption ==
  /\ Stamp \in [Msgs -> Nat \ {0}]
  /\ Future \subseteq Msgs
  /\ MaxAttempts \in Nat \ {0}
  /\ MaxFaults \in Nat
  /\ None \notin Deletes

VARIABLES
  exists,   \* whether the conversations row exists
  created,  \* its created_at
  count,    \* its message_count
  rows,     \* the conversation_messages rows
  lock,     \* the delete whose uncommitted DELETE holds the row
  objGen,   \* the generation of the GCS object (0: absent)
  blocks,   \* the messages in it, in order
  lastGen,  \* the last generation GCS handed out
  pc,       \* where each append request is, or its response
  seen,     \* per append: created_at of the row its snapshot saw (0: no row)
  healed,   \* per append: whether it has recreated a missing object
  attempt,  \* per append: failed attempts of its current append_block
  gen,      \* per append: the generation it downloaded (0: none)
  copy,     \* per append: the blocks it downloaded
  ordinal,  \* per append: the ordinal it was given (-1: none)
  dpc,      \* where each delete request is, or its response
  tpc,      \* what became of each ticket request
  faults,   \* how many faults have happened
  written,  \* history: the messages whose block was ever stored
  wiped     \* history: a delete has removed the transcript

rowVars == <<exists, created, count>>
dbVars == <<rowVars, rows, lock>>
objVars == <<objGen, blocks, lastGen, written>>
rmwVars == <<healed, attempt, gen, copy>>
locals == <<seen, rmwVars, ordinal>>
gcsVars == <<objVars, wiped>>

vars == <<dbVars, gcsVars, pc, locals, dpc, tpc, faults>>

Responses == {"201", "409_exists", "409_concurrent", "422_user",
              "422_timestamp", "500", "503"}

Steps == {"idle", "conflict", "create_header", "heal_header", "header_reload",
          "download", "upload", "reload", "increment", "insert"}

DeleteResponses == {"204", "404", "409", "503"}

DeleteSteps == {"idle", "delete_row", "gcs_delete", "commit"}

MessageRow == [ordinal : Nat, msg : Msgs]

TicketStates == {"idle", "created", "skipped_error"}

\* The type of every variable: what the two stores and the three handlers hold.
TypeOK ==
  /\ exists \in BOOLEAN
  /\ created \in Nat
  /\ count \in Nat
  /\ rows \subseteq MessageRow
  /\ lock \in Deletes \cup {None}
  /\ objGen \in Nat
  /\ blocks \in Seq(Msgs)
  /\ lastGen \in Nat
  /\ pc \in [Msgs -> Steps \cup Responses]
  /\ seen \in [Msgs -> Nat]
  /\ healed \in [Msgs -> BOOLEAN]
  /\ attempt \in [Msgs -> Nat]
  /\ gen \in [Msgs -> Nat]
  /\ copy \in [Msgs -> Seq(Msgs)]
  /\ ordinal \in [Msgs -> Nat \cup {-1}]
  /\ dpc \in [Deletes -> DeleteSteps \cup DeleteResponses]
  /\ tpc \in [Tickets -> TicketStates]
  /\ faults \in 0 .. MaxFaults
  /\ written \subseteq Msgs
  /\ wiped \in BOOLEAN

Init ==
  /\ exists = FALSE
  /\ created = 0
  /\ count = 0
  /\ rows = {}
  /\ lock = None
  /\ objGen = 0
  /\ blocks = <<>>
  /\ lastGen = 0
  /\ pc = [m \in Msgs |-> "idle"]
  /\ seen = [m \in Msgs |-> 0]
  /\ healed = [m \in Msgs |-> FALSE]
  /\ attempt = [m \in Msgs |-> 0]
  /\ gen = [m \in Msgs |-> 0]
  /\ copy = [m \in Msgs |-> <<>>]
  /\ ordinal = [m \in Msgs |-> -1]
  /\ dpc = [d \in Deletes |-> "idle"]
  /\ tpc = [t \in Tickets |-> "idle"]
  /\ faults = 0
  /\ written = {}
  /\ wiped = FALSE

\* An infrastructure failure: a 5xx, a timeout, a broken connection.
Fault == faults < MaxFaults /\ faults' = faults + 1

\* A statement that touches the row waits while an uncommitted DELETE holds it.
RowFree == lock = None

HasTicket == \E t \in Tickets : tpc[t] = "created"

Goto(m, step) == pc' = [pc EXCEPT ![m] = step]

-----------------------------------------------------------------------------
(* Appending a message: post_message.                                      *)

\* create_if_absent: the statement takes its snapshot.
BeginInsertOrGet(m) ==
  /\ pc[m] = "idle"
  /\ Goto(m, "conflict")
  /\ seen' = [seen EXCEPT ![m] = IF exists THEN created ELSE 0]
  /\ UNCHANGED <<dbVars, gcsVars, rmwVars, ordinal, dpc, tpc, faults>>

\* _check_timestamp, then the is_new branch.
AfterCreate(m, isNew, createdAt) ==
  Goto(m, IF m \in Future \/ Stamp[m] < createdAt THEN "422_timestamp"
          ELSE IF isNew THEN "create_header" ELSE "download")

\* create_if_absent: INSERT ... ON CONFLICT DO NOTHING, then the SELECT
\* branch, which sees the snapshot and not a row committed since.
InsertOrGet(m) ==
  /\ pc[m] = "conflict"
  /\ RowFree
  /\ \/ /\ ~exists
        /\ exists' = TRUE /\ created' = Stamp[m] /\ count' = 0
        /\ AfterCreate(m, TRUE, Stamp[m])
     \/ /\ exists
        /\ seen[m] # 0
        /\ AfterCreate(m, FALSE, seen[m])
        /\ UNCHANGED rowVars
     \/ /\ exists
        /\ seen[m] = 0
        /\ Goto(m, "422_user")
        /\ UNCHANGED rowVars
  /\ UNCHANGED <<rows, lock, gcsVars, locals, dpc, tpc, faults>>

\* A database error is not caught; the new row may have been committed.
InsertOrGetFails(m) ==
  /\ pc[m] = "conflict"
  /\ Fault
  /\ Goto(m, "500")
  /\ \/ UNCHANGED rowVars
     \/ RowFree /\ ~exists /\ exists' = TRUE /\ created' = Stamp[m] /\ count' = 0
  /\ UNCHANGED <<rows, lock, gcsVars, locals, dpc, tpc>>

\* The object gets a generation no object ever had.
Store(text) ==
  /\ objGen' = lastGen + 1
  /\ lastGen' = lastGen + 1
  /\ blocks' = text

StoreHeader == Store(<<>>) /\ UNCHANGED written

\* Variant of UploadHeader: a self-heal retries when the object exists.
UploadHeaderRetries(m) ==
  /\ pc[m] \in {"create_header", "heal_header"}
  /\ \/ objGen = 0 /\ StoreHeader /\ Goto(m, "header_reload")
     \/ /\ objGen # 0
        /\ Goto(m, IF pc[m] = "heal_header" THEN pc[m] ELSE "409_exists")
        /\ UNCHANGED objVars
  /\ UNCHANGED <<dbVars, wiped, locals, dpc, tpc, faults>>

\* _upload_header, if_generation_match=0.  A new conversation answers 409 when
\* the object exists; a self-heal ignores it.
UploadHeader(m) ==
  /\ pc[m] \in {"create_header", "heal_header"}
  /\ \/ /\ objGen = 0
        /\ StoreHeader
        /\ Goto(m, "header_reload")
     \/ /\ objGen # 0
        /\ Goto(m, IF pc[m] = "heal_header" THEN "download" ELSE "409_exists")
        /\ UNCHANGED objVars
  /\ UNCHANGED <<dbVars, wiped, locals, dpc, tpc, faults>>

\* The upload fails; GCS may have stored the header all the same.
UploadHeaderFails(m) ==
  /\ pc[m] \in {"create_header", "heal_header"}
  /\ Fault
  /\ Goto(m, "503")
  /\ UNCHANGED objVars \/ (objGen = 0 /\ StoreHeader)
  /\ UNCHANGED <<dbVars, wiped, locals, dpc, tpc>>

\* blob.reload() after the header: its errors are not caught.
ReloadHeader(m) ==
  /\ pc[m] = "header_reload"
  /\ \/ objGen # 0 /\ Goto(m, "download") /\ UNCHANGED faults
     \/ objGen = 0 /\ Goto(m, "500") /\ UNCHANGED faults
     \/ Fault /\ Goto(m, "500")
  /\ UNCHANGED <<dbVars, gcsVars, locals, dpc, tpc>>

\* _read_modify_write: the read.  A missing object is recreated once.
Download(m) ==
  /\ pc[m] = "download"
  /\ \/ /\ objGen # 0
        /\ Goto(m, "upload")
        /\ gen' = [gen EXCEPT ![m] = objGen]
        /\ copy' = [copy EXCEPT ![m] = blocks]
        /\ UNCHANGED <<healed, attempt>>
     \/ /\ objGen = 0
        /\ ~healed[m]
        /\ Goto(m, "heal_header")
        /\ healed' = [healed EXCEPT ![m] = TRUE]
        /\ attempt' = [attempt EXCEPT ![m] = 0]
        /\ UNCHANGED <<gen, copy>>
     \/ /\ objGen = 0
        /\ healed[m]
        /\ Goto(m, "500")
        /\ UNCHANGED rmwVars
  /\ UNCHANGED <<dbVars, gcsVars, seen, ordinal, dpc, tpc, faults>>

DownloadFails(m) ==
  /\ pc[m] = "download"
  /\ Fault
  /\ Goto(m, "503")
  /\ UNCHANGED <<dbVars, gcsVars, locals, dpc, tpc>>

\* The block goes after the copy that was downloaded.
StoreBlock(m) ==
  /\ Store(Append(copy[m], m))
  /\ written' = written \cup {m}

Forget(m) ==
  /\ gen' = [gen EXCEPT ![m] = 0]
  /\ copy' = [copy EXCEPT ![m] = <<>>]

\* Variant of Upload: no generation precondition.
BlindUpload(m) ==
  /\ pc[m] = "upload"
  /\ Forget(m)
  /\ StoreBlock(m)
  /\ Goto(m, "reload")
  /\ UNCHANGED <<dbVars, wiped, seen, healed, attempt, ordinal, dpc, tpc, faults>>

\* _read_modify_write: the write, if_generation_match = the generation read.
\* A failed precondition reads again, up to MaxAttempts in all.
Upload(m) ==
  /\ pc[m] = "upload"
  /\ Forget(m)
  /\ \/ /\ objGen = gen[m]
        /\ StoreBlock(m)
        /\ Goto(m, "reload")
        /\ UNCHANGED attempt
     \/ /\ objGen # gen[m]
        /\ attempt[m] + 1 < MaxAttempts
        /\ Goto(m, "download")
        /\ attempt' = [attempt EXCEPT ![m] = @ + 1]
        /\ UNCHANGED objVars
     \/ /\ objGen # gen[m]
        /\ attempt[m] + 1 >= MaxAttempts
        /\ Goto(m, "409_concurrent")
        /\ UNCHANGED <<objVars, attempt>>
  /\ UNCHANGED <<dbVars, wiped, seen, healed, ordinal, dpc, tpc, faults>>

\* The upload fails; GCS may have stored the block all the same.
UploadFails(m) ==
  /\ pc[m] = "upload"
  /\ Fault
  /\ Goto(m, "503")
  /\ Forget(m)
  /\ UNCHANGED objVars \/ (objGen = gen[m] /\ StoreBlock(m))
  /\ UNCHANGED <<dbVars, wiped, seen, healed, attempt, ordinal, dpc, tpc>>

\* blob.reload() after the block: its errors are not caught.
Reload(m) ==
  /\ pc[m] = "reload"
  /\ \/ objGen # 0 /\ Goto(m, "increment") /\ UNCHANGED faults
     \/ objGen = 0 /\ Goto(m, "500") /\ UNCHANGED faults
     \/ Fault /\ Goto(m, "500")
  /\ UNCHANGED <<dbVars, gcsVars, locals, dpc, tpc>>

\* Variant of IncrementMessageCount: the ordinal is one too low.
IncrementOffByOne(m) ==
  /\ pc[m] = "increment"
  /\ RowFree
  /\ exists
  /\ count' = count + 1
  /\ ordinal' = [ordinal EXCEPT ![m] = count - 1]
  /\ Goto(m, "insert")
  /\ UNCHANGED <<exists, created, rows, lock, gcsVars, seen, rmwVars, dpc, tpc, faults>>

\* increment_message_count.  With the row gone the UPDATE returns nothing and
\* int(None) is an uncaught TypeError.
IncrementMessageCount(m) ==
  /\ pc[m] = "increment"
  /\ RowFree
  /\ \/ /\ exists
        /\ count' = count + 1
        /\ ordinal' = [ordinal EXCEPT ![m] = count]
        /\ Goto(m, "insert")
     \/ /\ ~exists
        /\ Goto(m, "500")
        /\ UNCHANGED <<count, ordinal>>
  /\ UNCHANGED <<exists, created, rows, lock, gcsVars, seen, rmwVars, dpc, tpc, faults>>

\* Variant of IncrementFails: the structured insert is not skipped.
IncrementFailsInserts(m) ==
  /\ pc[m] = "increment"
  /\ Fault
  /\ Goto(m, "insert")
  /\ ordinal' = [ordinal EXCEPT ![m] = count]
  /\ UNCHANGED <<dbVars, gcsVars, seen, rmwVars, dpc, tpc>>

\* A database error is logged, the structured insert skipped, the response a
\* 201; the UPDATE may have been committed.
IncrementFails(m) ==
  /\ pc[m] = "increment"
  /\ Fault
  /\ Goto(m, "201")
  /\ \/ UNCHANGED count
     \/ RowFree /\ exists /\ count' = count + 1
  /\ UNCHANGED <<exists, created, rows, lock, gcsVars, locals, dpc, tpc>>

\* UNIQUE (conversation_id, ordinal)
OrdinalFree(m) == \A r \in rows : r.ordinal # ordinal[m]

InsertRow(m) ==
  /\ RowFree
  /\ exists
  /\ OrdinalFree(m)
  /\ rows' = rows \cup {[ordinal |-> ordinal[m], msg |-> m]}

\* _insert_message_best_effort: any database error is swallowed, the foreign
\* key and the unique constraint included.
InsertMessage(m) ==
  /\ pc[m] = "insert"
  /\ RowFree
  /\ Goto(m, "201")
  /\ \/ InsertRow(m)
     \/ ~(exists /\ OrdinalFree(m)) /\ UNCHANGED rows
  /\ UNCHANGED <<rowVars, lock, gcsVars, locals, dpc, tpc, faults>>

InsertMessageFails(m) ==
  /\ pc[m] = "insert"
  /\ Fault
  /\ Goto(m, "201")
  /\ UNCHANGED rows \/ InsertRow(m)
  /\ UNCHANGED <<rowVars, lock, gcsVars, locals, dpc, tpc>>

PostMessage(m) ==
  \/ BeginInsertOrGet(m) \/ InsertOrGet(m) \/ InsertOrGetFails(m)
  \/ UploadHeader(m) \/ UploadHeaderFails(m) \/ ReloadHeader(m)
  \/ Download(m) \/ DownloadFails(m)
  \/ Upload(m) \/ UploadFails(m) \/ Reload(m)
  \/ IncrementMessageCount(m) \/ IncrementFails(m)
  \/ InsertMessage(m) \/ InsertMessageFails(m)

-----------------------------------------------------------------------------
(* Deleting the conversation: delete_conversation.                         *)

DGoto(d, step) == dpc' = [dpc EXCEPT ![d] = step]

\* Rolling the transaction back releases the row when it held it.
Release(d) == lock' = IF lock = d THEN None ELSE lock

\* fetch_owned_conversation_for_delete: a plain SELECT, so it neither waits
\* for an uncommitted DELETE nor keeps what it read from changing.
SelectOwned(d) ==
  /\ dpc[d] = "idle"
  /\ \/ ~exists /\ DGoto(d, "404")
     \/ exists /\ HasTicket /\ DGoto(d, "409")
     \/ exists /\ ~HasTicket /\ DGoto(d, "delete_row")
  /\ UNCHANGED <<dbVars, gcsVars, pc, locals, tpc, faults>>

\* Variant of DeleteRow: tickets do not restrict the delete.
DeleteRowUnrestricted(d) ==
  /\ dpc[d] = "delete_row"
  /\ RowFree
  /\ lock' = IF exists THEN d ELSE None
  /\ DGoto(d, "gcs_delete")
  /\ UNCHANGED <<rowVars, rows, gcsVars, pc, locals, tpc, faults>>

\* delete_conversation_row: ON DELETE RESTRICT refuses a row with a ticket,
\* and a row already deleted by another request is not an error.
DeleteRow(d) ==
  /\ dpc[d] = "delete_row"
  /\ RowFree
  /\ \/ exists /\ ~HasTicket /\ lock' = d /\ DGoto(d, "gcs_delete")
     \/ exists /\ HasTicket /\ UNCHANGED lock /\ DGoto(d, "503")
     \/ ~exists /\ UNCHANGED lock /\ DGoto(d, "gcs_delete")
  /\ UNCHANGED <<rowVars, rows, gcsVars, pc, locals, tpc, faults>>

\* The object is removed; an absent object counts as removed.
RemoveObject ==
  /\ objGen' = 0
  /\ blocks' = <<>>
  /\ wiped' = (wiped \/ objGen # 0)
  /\ UNCHANGED <<lastGen, written>>

\* delete_object
GcsDelete(d) ==
  /\ dpc[d] = "gcs_delete"
  /\ RemoveObject
  /\ DGoto(d, "commit")
  /\ UNCHANGED <<dbVars, pc, locals, tpc, faults>>

\* The GCS delete fails or its answer is lost, and the transaction rolls back;
\* GCS may have removed the object all the same.
GcsDeleteFails(d) ==
  /\ dpc[d] = "gcs_delete"
  /\ Fault
  /\ RemoveObject \/ UNCHANGED gcsVars
  /\ Release(d)
  /\ DGoto(d, "503")
  /\ UNCHANGED <<rowVars, rows, pc, locals, tpc>>

\* The row disappears, and its conversation_messages by ON DELETE CASCADE; a
\* transaction that deleted no row commits nothing.
RemoveRow(d) ==
  IF lock = d
  THEN exists' = FALSE /\ created' = 0 /\ count' = 0 /\ rows' = {}
  ELSE UNCHANGED <<rowVars, rows>>

Commit(d) ==
  /\ dpc[d] = "commit"
  /\ RemoveRow(d)
  /\ Release(d)
  /\ DGoto(d, "204")
  /\ UNCHANGED <<gcsVars, pc, locals, tpc, faults>>

\* The commit fails or its answer is lost.
CommitFails(d) ==
  /\ dpc[d] = "commit"
  /\ Fault
  /\ RemoveRow(d) \/ UNCHANGED <<rowVars, rows>>
  /\ Release(d)
  /\ DGoto(d, "503")
  /\ UNCHANGED <<gcsVars, pc, locals, tpc>>

\* A query of the transaction fails before anything was deleted.
DeleteQueryFails(d) ==
  /\ dpc[d] \in {"idle", "delete_row"}
  /\ Fault
  /\ DGoto(d, "503")
  /\ UNCHANGED <<dbVars, gcsVars, pc, locals, tpc>>

DeleteConversation(d) ==
  \/ SelectOwned(d) \/ DeleteRow(d) \/ DeleteQueryFails(d)
  \/ GcsDelete(d) \/ GcsDeleteFails(d)
  \/ Commit(d) \/ CommitFails(d)

-----------------------------------------------------------------------------
(* Inserting a ticket: the last statement of _run_transaction.             *)

\* The foreign key to the conversation waits for an uncommitted DELETE; its
\* violation is one of the errors that answer skipped_error.
InsertTicket(t) ==
  /\ tpc[t] = "idle"
  /\ RowFree
  /\ tpc' = [tpc EXCEPT
               ![t] = IF exists THEN "created" ELSE "skipped_error"]
  /\ UNCHANGED <<dbVars, gcsVars, pc, locals, dpc, faults>>

InsertTicketFails(t) ==
  /\ tpc[t] = "idle"
  /\ Fault
  /\ tpc' = [tpc EXCEPT ![t] = "skipped_error"]
  /\ UNCHANGED <<dbVars, gcsVars, pc, locals, dpc>>

CreateTicket(t) == InsertTicket(t) \/ InsertTicketFails(t)

-----------------------------------------------------------------------------

\* Every request has been answered.
Quiescent ==
  /\ \A m \in Msgs : pc[m] \in Responses
  /\ \A d \in Deletes : dpc[d] \in DeleteResponses
  /\ \A t \in Tickets : tpc[t] # "idle"

Finished == Quiescent /\ UNCHANGED vars

Next ==
  \/ \E m \in Msgs : PostMessage(m)
  \/ \E d \in Deletes : DeleteConversation(d)
  \/ \E t \in Tickets : CreateTicket(t)
  \/ Finished

Spec == Init /\ [][Next]_vars

\* A request that has started goes on: every await ends, by an answer, an
\* error or a timeout of the client library.
Fairness ==
  /\ \A m \in Msgs : WF_vars(pc[m] # "idle" /\ PostMessage(m))
  /\ \A d \in Deletes : WF_vars(dpc[d] # "idle" /\ DeleteConversation(d))

FairSpec == Spec /\ Fairness

-----------------------------------------------------------------------------
(* Properties.                                                             *)

Acked == {m \in Msgs : pc[m] = "201"}

InTranscript(m) == \E i \in DOMAIN blocks : blocks[i] = m

T == INSTANCE Transcript WITH
       exists <- (objGen # 0), log <- blocks, acked <- Acked

\* The two-store append implements the abstract transcript: whatever appends
\* and deletes interleave, _read_modify_write only ever extends the stored
\* blocks by its own, no message is stored twice in spite of the retries and
\* the self-heal, and post_message answers 201 only for a stored message.
ImplementsTranscript == T!Spec

\* Until a delete removes the transcript, a message answered 201 is in it: no
\* other append, retry or self-heal of post_message overwrites its block.
AckedIsStored == ~wiped => \A m \in Acked : InTranscript(m)

\* Until a delete removes the transcript, the Postgres index agrees with it:
\* the ordinals of conversation_messages are below message_count, each row
\* stands for a stored block, and an ordinal handed out by
\* increment_message_count is still free when insert_message uses it, so the
\* swallowed unique violation never happens.
IndexSound ==
  ~wiped =>
    /\ count <= Len(blocks)
    /\ \A r \in rows : r.ordinal < count /\ InTranscript(r.msg)
    /\ \A m \in Msgs : pc[m] = "insert" => exists /\ OrdinalFree(m)

\* INV-7 of specs/properties.md: a ticket references an existing conversation,
\* although delete_conversation looks for tickets before it locks the row.
TicketHasConversation == HasTicket => exists

\* Every append and every delete that starts is answered: no await order of
\* the two stores leaves a request waiting for a row lock, or retrying, for
\* ever.
RequestsAnswered ==
  /\ \A m \in Msgs : pc[m] # "idle" ~> pc[m] \in Responses
  /\ \A d \in Deletes : dpc[d] # "idle" ~> dpc[d] \in DeleteResponses

-----------------------------------------------------------------------------
(* What the code's comments say, and the interleavings refute.             *)

\* handlers/conversations.rs:427: "permanently delete the caller's own
\* conversation".  Once every request is answered, a deleted conversation has
\* no transcript left.
DeletedIsGone ==
  /\ Quiescent
  /\ \E d \in Deletes : dpc[d] = "204"
  /\ ~exists
  => objGen = 0
=============================================================================
