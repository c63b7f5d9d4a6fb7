# Archiviste Nocilia in TLA+

Archiviste Nocilia answers questions about the world of Nocilia from a corpus
of lore, keeps the conversations, and collects the gaps and inconsistencies its
readers find. This directory holds TLA+ models of the parts of it whose
correctness depends on the order in which things happen, TLC configurations
that check them on small instances, and TLAPS proofs of their safety properties
for instances of every size.

## The system

| part | where | what it does |
|---|---|---|
| web clients | `frontend/src`, `gateway/static` | two of them: the Next.js client (through its own server, the BFF) streams answers over SSE; the static page posts and waits |
| gateway | `gateway/src` (Rust, Axum) | identity, login and sessions, ownership checks, proxies to the workers, deletes conversations, signs GCS URLs, public board and status |
| workers | `workers/src` (Python, FastAPI) | the chat pipeline, conversation storage, contradiction reports, tickets, retrieval, ingestion |
| stores | `migrations`, GCS | Postgres rows (users, sessions, conversations, messages, tickets, query_log, documents, chunks) and one Markdown transcript per conversation in GCS |
| Drive export | `scripts/gdrive_export` | turns a Google Drive folder into the Markdown corpus |
| evaluation | `eval` | runs a golden set against the deployed service and gates regressions |

A question goes page → gateway → worker. The worker reads the conversation's
last messages, decides on a mode (canon, mystery, lore gap, off topic),
retrieves passages, calls the language model, and then persists: it appends the
question and the answer to the conversation (a call to itself,
`POST /v1/conversations/messages`), raises a ticket for a lore gap, and writes a
`query_log` row. A report of an inconsistency goes the same way to three judges
and may raise a ticket too. A conversation can be deleted at any time, unless a
ticket references it.

Everything here runs concurrently with everything else: each handler is a
sequence of awaits, several instances share the two stores, every caller has a
timeout after which the callee runs on, and there is no transaction across
Postgres and GCS. The hazards in `PROJECT.json` list, line by line, where that
matters.

## Modules

| module | models | kind |
|---|---|---|
| `Transcript` | what a conversation promises: an append-only log | abstract specification |
| `ConversationStore` | `post_message`, `delete_conversation`, ticket insertion on one conversation | detailed specification |
| `ConversationStoreProofs` | type correctness, no lost message, refinement of `Transcript`, tickets keep their conversation, the index agrees | proofs |
| `MCConversationStore` | instances of `ConversationStore` | model checking |
| `ChatTurn` | a reader's questions through page, gateway and worker | specification |
| `ChatTurnProofs` | answers are remembered, failures leave nothing, tickets and log rows tell the truth | proofs |
| `Signal` | contradiction reports, from the two clients to the ticket board | specification |
| `SignalProofs` | scores count the raises, responses and pages agree with the board | proofs |
| `Login` | signup, login and the login throttle for one email | specification |
| `LoginProofs` | locks are earned, and the wait a 429 announces is enough | proofs |
| `TokenCache` | the gateway's access-token cache and the calls that share it | specification |
| `TokenCacheProofs` | fetches are needed, retries use what was fetched after the 401 | proofs |
| `GDriveSync` | runs of the Drive export over a changing folder | specification |
| `MCGDriveSync` | instances of `GDriveSync` | model checking |
| `Corpus` | what retrieval may rely on: a source has all the passages of one text, or none | abstract specification |
| `Ingest` | executions of the ingestion job, and what a search sees | detailed specification |
| `IngestProofs` | the inductive invariant of ingestion, action by action | proofs |
| `IngestRefinement` | type correctness, refinement of `Corpus`, tiers follow texts, a run alone indexes | proofs |
| `MCIngest` | instances of `Ingest` | model checking |
| `Eval` | the evaluation runner against the workers | specification |
| `MCEval` | instances of `Eval` | model checking |
| `EvalProofs` | exit code 0 is earned, rows and log are complete, the baseline stays | proofs |
| `History` | the conversation list beside the chat thread | specification |

`PROJECT.json` maps every definition to the lines it models.

### ConversationStore and Transcript

The state is one conversation: its row (`exists`, `created`, `count`), its
`conversation_messages` (`rows`), the GCS object (`objGen`, `blocks`), and the
program counter and locals of each append, delete and ticket request. An action
is what a handler does between two awaits:

- an append runs `InsertOrGet` (the `INSERT … ON CONFLICT DO NOTHING … UNION
  SELECT` statement, whose `SELECT` reads the statement's snapshot:
  `BeginInsertOrGet` takes it), `UploadHeader` when it created the row,
  `Download`/`Upload` with the generation precondition and up to `MaxAttempts`
  retries, `heal_header` when the object is missing, `IncrementMessageCount`,
  and `InsertMessage`, whose failure is swallowed;
- a delete runs `SelectOwned`, `DeleteRow` (which takes the row lock inside its
  transaction and refuses when a ticket exists), `GcsDelete`, and `Commit`;
- a ticket request inserts a row that references the conversation.

Each call can also fail, and a GCS upload can be applied and then reported as
failed. `Transcript` has four actions (open, append, acknowledge, erase); the
refinement mapping is `exists <- objGen # 0, log <- blocks, acked <- Acked`.

### ChatTurn

The state is the page (`busy`, `current`, `shown`), the events on the wire, the
worker's program counter per turn, what it read (`window`), and what it wrote
(`stored`, `tickets`, `logged`). `page` chooses the client: the form learns the
conversation from its first answer; the static page makes it up. A connection is
lost in three ways. `Cut` breaks it, and the page shows an error. `EndsEarly` ends
a stream as if it were complete: `ChatForm` knows a stream that failed, not one
that ends without `done`, and takes what has arrived for the answer.
`GatewayTimesOut` is the gateway (90 s, or 35 s for a stream that has not begun)
or the BFF answering 504 in the worker's place. In all of them the blocking worker
runs on, stores its turn, raises its ticket and logs 200, while Starlette may
cancel a streaming one between any two steps. An append that timed out may be
stored later. The text of questions and answers is reduced to the turn they belong
to; the modes to the lore gap, which may raise a ticket, and the others. An answer
without text counts as a fault of the model.

So a reader who is told of a failure cannot conclude that nothing was stored.
`FailedTurnLeavesNothing` says exactly when they can: whenever the failure is the
worker's own or on the way to it, and the connection was not lost before.
`LogTellsOutcome` has the same exception, the other way round.

### Signal

The state is the static panel's four buttons and fold, the client form's phase,
one program counter per post, the committed `tickets` with their row locks, and
`by`, the posts each ticket counts. `DedupSelect`, `LockRow`, `Increment` and
`Insert` are the statements of `_run_transaction` under READ COMMITTED: the
`SELECT` sees committed rows, waits for the lock of the one it picked, and locks
nothing when none matches. `CommitLost` is the acknowledgement of a commit that
never arrives. Similar claims are those of one topic. The judges vote freely; a
judge that fails votes "unclear".

### Login

One email: its `FailureEntry` in the throttle, its row in `users`, and the
logins and signups in flight. Times are kept as ages in ticks up to the first
age at which every comparison with `WINDOW` is decided. Checking the throttle,
verifying the password and creating the session are separate steps, as in the
handler. `Restart` empties the in-process map and aborts what is in flight; it
counts as a fault. `wait` follows what one 429 announced: `is_throttled` answers
what is left of `WINDOW` since the fifth failure, but drops the entry `WINDOW`
after the first one, so the lock is often over before. `since` are the logins that
failed after that 429.

### TokenCache

The `RwLock` around the cached token, the call that holds it for writing (kept
across the fetch), and the calls of `call_sign_blob`: read, re-read under the
write lock, fetch, post, and after a 401 with a cached token, invalidate and try
once more. A token is a number. The metadata server hands its latest token out
again while it has not expired, or mints another one (`Token`), so a retry may be
made with the very token that was refused; what `invalidate` promises, and
`RetryFetchedAnew` says, is that it was asked for after the 401. `during` and
`after` are the calls refused before the fetch under way, and before that of the
cached token.

### GDriveSync

The folder (`drive`), the exported tree (`disk`, `sidecar`), the state file
(`state`) and one run: its listing, `taken`, `new` and the file in hand. A run
archives the entries that are gone, then takes the files in the order of their
ids. A document is fetched and its sidecar moved (`process_gdoc`), its images are
written (`process_doc_images`), it is compared and renamed (`decide`), orphans are
removed and the file is written; the other kinds skip what they do not have. These
are the points between which a killed run leaves different trees. `FileError` is
the handler of `_process_file`, which forgets the file. Two exceptions are outside
it and end the run without saving the state (`Raises`): a tab that cannot be renamed
(`TabRenameRaises`), and a file both of whose paths are taken (`CollisionRaises`).
`TooLarge` is what a text over 1 MiB meets, in every run. An image that cannot be
had is no error: it becomes a placeholder (`missed`), its good copy is removed, and
the run exits 0. A text is its version and the
image it refers to. A slug is a sequence, so that the suffixed path of one file may
be the plain path of another; a file's names are given by `Names`, in the order it
gets them, so a name does not come back. Each tab is a workbook of its own: the
suffixes of `resolve_tab_collisions`, for tabs of one name in one workbook, are left
out. `exit` is how the last run ended, and `quiet` counts the runs that ended by
themselves since anything last changed or failed.

`ExitZeroMeansMirrored` leaves two things out, which are so in the code. Tabs of two
workbooks of one name are written over each other, without an error. And a
placeholder may stay: when the run that wrote it is killed or raises before the
state file is saved, the next one gets the image, finds text and manifest as the
state file has them, and does not look at the file (`lost`).

### Ingest and Corpus

The state is the bucket, the committed rows of `documents` and `chunks`, and for
each execution of the job its files (`tree`, `todo`), the file in hand (`cur`) and
the rows its transaction has deleted (`snap`). `Start` and `Download` are
`download_corpus`; `StartIngest`, `RefuseFile` and `FetchExisting` take the files
in order and compare hashes; `InsertDocument`, `BeginDelete`, `DeleteChunks`,
`UpdateDocument` and `InsertChunks` are the statements of `repository.py` under
READ COMMITTED. A statement waits for the executions in `Waits`: those that hold
the unique key or the row it needs, or have deleted a row it deletes or would
collide with. `DELETE` works on the snapshot taken when it started
(`BeginDelete`), less what was deleted meanwhile. The writes of a transaction are
made visible by `Write`, at the commit. `Deadlock`, `DbError`, `CommitLost` and
`Die` are the ways to fail. A row carries the execution that wrote it, the text
and its number, so that rows of equal texts are told apart. A file is its text
and its header: a tier, or something `parse_frontmatter` refuses.

`Corpus` has two actions: a source gets a text, or all the passages of a text it
has had are published. The mapping takes the texts of `held`, and the passages of
the committed rows. `Search` and `Visible` are retrieval: one statement joins the
two tables, and the tier filter follows.

### Eval

One execution after the other: its command line (`inv`, one of the three the
repository runs), the entry in hand with its failed attempts, the results, the
judge's means, the baseline file and `eval_runs`; and of the workers the requests
that run on after their caller's timeout (`late`) and the `query_log` rows. `End`
carries the exit code of each early return. `Report` computes the two structural
means as pairs of integers, so that the comparisons of the gates are exact. The
judge and git are free to say anything. `CreateBaseline` truncates the file and
`WriteBaseline` fills it, with a kill possible in between.

### History

The list, the open conversation, `selectionRequestRef` and the requests under
way. Every handler of `ChatShell` is split at its awaits, and a deletion carries
the `selectedId` of the render it was clicked in, as its closure does. Lists are
fetched after a turn and after a deletion, read on the server in one step and shown
in another.

## What TLC checks

| run | module, configuration | result | what it shows |
|---|---|---|---|
| `conversation_store` | `MCConversationStore`, `ConversationStore.cfg` | pass | two appends contend for the generation until attempts run out, against a delete and a ticket, with two faults: `AckedIsStored`, `IndexSound`, `TicketHasConversation`, `ImplementsTranscript` and, under fairness, `RequestsAnswered` |
| `chat_turn` | `ChatTurn`, `ChatTurn.cfg` | pass | three questions from either page with a fault anywhere, lost connections and 504s among them: `AnswerRemembered`, `FailedTurnLeavesNothing`, `TicketHasTurn`, `LogTellsOutcome`, `OneConversation`, `ReaderAnswered` |
| `signal` | `Signal`, `Signal.cfg` | pass | three posts of one topic from the panel, the form and the chat, with a failure, timeout or deletion: `ScoreCountsSignals`, `ActionTellsBoard`, `OverrideVisible`, `PanelToldIsRecorded`, `PanelUsable`, `PageAnswered` |
| `login_throttle` | `Login`, `LoginThrottle.cfg` | pass | five logins, two signups, a fault or a restart: `LockIsEarned`, `RetryAfterKept`, `LockExpires` |
| `token_cache` | `TokenCache`, `TokenCache.cfg` | pass | three calls, tokens that expire, are refused and are handed out again: `FetchOnlyWhenStale`, `RetryFetchedAnew`, `CallsAnswered` |
| `gdrive_sync` | `MCGDriveSync`, `GDriveSync.cfg` | pass | six files of four kinds, two changes and a fault at any point of any number of runs: `ExitZeroMeansMirrored`, `RecoversInTwoRuns`, `GoneIsArchived`, `CompletesUnlessDisturbed` |
| `ingest` | `MCIngest`, `Ingest.cfg` | pass | three executions that may overlap, an upload and a failure anywhere: `TierFollowsText`, `ImplementsCorpus`, `SoloRunIndexes`, `RunsEnd` |
| `eval` | `MCEval`, `Eval.cfg` | pass | a run of any command over three entries, with retries, late workers, any verdict and a failure or kill: `ExitZeroMeansPassed`, `RowTellsRun`, `AnsweredIsLogged`, `BaselineKept`, `RunEnds` |
| `deleted_gone` | `MCConversationStore`, `DeletedGone.cfg` | violation | a delete comes between the row of a new conversation and the first upload of its object, and the transcript is made after all |
| `same_slug` | `MCGDriveSync`, `SameSlug.cfg` | violation | a new document of an exported one's title is recorded as exported and is not on disk |
| `ingest_exit` | `MCIngest`, `IngestExit.cfg` | violation | a failed start ends the job with status 0 (and so does a refused file) |
| `thread_kept` | `History`, `DeleteLeavesOthers.cfg` | violation | a deletion decides by what was open when it was confirmed: it leaves the deleted conversation open, or closes another |

Every violation is a statement of a comment or a test of the repository that a
behaviour of the code refutes; `PROJECT.json` quotes it. Every property of a passing run
has a mutant: a variant of a mapped definition, written as a plausible mistake,
under which TLC finds the property violated.

### Bounds

- Conversations, emails and caches share nothing with others of their kind, so
  one of each is modelled.
- Two appends are enough to conflict, and with a delete and its self-heal to make
  one of them lose twice; `MaxAttempts` is 2 (4 in the code) so that exhaustion is
  reached. One delete finds the row present, locked by nobody else, or gone.
- Three turns cover a turn that acts late on a turn, with a third reading the
  result. Three posts cover two raises waiting for the ticket of a first one.
- `MaxFailures` is 2 (5 in the code) with four failing logins, so that two are
  in flight when the limit is reached, and fail after a 429; `Window` is 2 ticks.
- In `GDriveSync` two changes let one file leave a name and another take it, or a
  file be exported, change and move; runs are not bounded. The second document may
  come to the first one's name, which is the collision that resolves; with the
  presentation created under its suffixed name, it does not, and the run raises. A
  collision that is not noticed is `same_slug`. A tab may come to the name another tab
  is created with. `Large` are the files whose text may grow past 1 MiB, a document
  and a tab. Texts and names do not return to earlier values: undoing
  a change after a killed run makes the state file agree with a tree it does not
  describe. Restored files are in the model and not in its properties.
- In `Ingest` three executions are two that overlap and one that comes alone
  before or after. The texts have no, one and two passages: two replacements of a
  document may collide in all, some or none of their numbers. One upload changes a
  text, a tier or both, adds a source, or breaks a header.
- In `Eval` three entries, two of them canon, make every mean reach 0, 1/2 and 1,
  and one or two failures lie on either side of the error rate (40 %, 10 % in the
  code). `Attempts` is 3 (4 in the code). One metric stands for the four, which the
  gates treat alike. A second execution meets only the baseline file the first one
  left, and the kinds of file there are (none, a torn one, a full run's, one with a
  failed entry and no scores) are initial states, so one execution is enough.
- In `History` four clicks are an opened conversation, a deletion, and one more of
  each.
- `MaxFaults` bounds failures, and in `Signal` timeouts and deletions too. One
  fault at every point of every interleaving is explored, and two in
  `ConversationStore`. The bound is a guard of the failing actions only, and the
  proofs hold for every value of it.
- No symmetry reduction is used: the runs are small without it, and it would be
  unsound for the liveness properties.

### Fairness

Fairness is weak, and only of steps the code is bound to take: a request that
has started continues because every await in it ends, by an answer, an error or
the timeout of its client library; an event loop delivers a response; the clock
ticks. No fairness is assumed of a person, of a fault, or of a step that another
request must make possible first (`ConversationStore` and `Signal` show that row
locks are always released, they do not assume it). In `Signal` it is the weakest
form, of some post being processed, rather than of each. In `Ingest` it is of each
execution's own steps, the detection of a deadlock by Postgres among them; in `Eval`
of the runner: its HTTP calls have a time limit each, and the insert of `persist.py`,
which has none, that of the job (`infra/terraform/eval_job.tf`).

`CHECK_DEADLOCK FALSE` is set where the modelled people may simply have done
everything the bounds allow: `ChatTurn`, `Signal`, `TokenCache`, `Ingest`,
`Eval` and `History`.
`ConversationStore` ends in the explicit step `Finished`, and its runs check that
nothing else stops.

## What TLAPS proves

Each theorem holds for every value of the module's constants that satisfies its
`ASSUME`s: any number of requests, turns, posts, executions, entries, paths, texts,
calls or logins, and any bound on attempts, faults and uploads. Every safety
property that a passing run checks is proved, except those of `GDriveSync`.

| theorem | module | statement |
|---|---|---|
| `TypeCorrect` | `ConversationStoreProofs` | `Spec => []TypeOK` |
| `AckedStored` | `ConversationStoreProofs` | `Spec => []AckedIsStored` |
| `TranscriptRefinement` | `ConversationStoreProofs` | `Spec => ImplementsTranscript` |
| `TicketsKeepConversation` | `ConversationStoreProofs` | `Spec => []TicketHasConversation` |
| `IndexAgrees` | `ConversationStoreProofs` | `Spec => []IndexSound` |
| `ChatTypes` | `ChatTurnProofs` | `Spec => []TypeOK` |
| `AnswersRemembered` | `ChatTurnProofs` | `Spec => []AnswerRemembered` |
| `FailuresLeaveNothing` | `ChatTurnProofs` | `Spec => []FailedTurnLeavesNothing` |
| `TicketsHaveTurns` | `ChatTurnProofs` | `Spec => []TicketHasTurn` |
| `LogsTellOutcome` | `ChatTurnProofs` | `Spec => []LogTellsOutcome` |
| `ConversationIsOne` | `ChatTurnProofs` | `Spec => []OneConversation` |
| `SignalTypes` | `SignalProofs` | `Spec => []TypeOK` |
| `ScoresCount` | `SignalProofs` | `Spec => []ScoreCountsSignals` |
| `ActionsTellBoard` | `SignalProofs` | `Spec => []ActionTellsBoard` |
| `OverridesVisible` | `SignalProofs` | `Spec => []OverrideVisible` |
| `PanelsTellTruth` | `SignalProofs` | `Spec => []PanelToldIsRecorded` |
| `PanelsUsable` | `SignalProofs` | `Spec => []PanelUsable` |
| `LoginTypes` | `LoginProofs` | `Spec => []TypeOK` |
| `LocksEarned` | `LoginProofs` | `Spec => []LockIsEarned` |
| `RetryAftersKept` | `LoginProofs` | `Spec => []RetryAfterKept` |
| `TokenTypes` | `TokenCacheProofs` | `Spec => []TypeOK` |
| `FetchesNeeded` | `TokenCacheProofs` | `Spec => []FetchOnlyWhenStale` |
| `RetriesFetchAnew` | `TokenCacheProofs` | `Spec => RetryFetchedAnew` |
| `IngestTypes` | `IngestRefinement` | `Spec => []TypeOK` |
| `CorpusRefinement` | `IngestRefinement` | `Spec => ImplementsCorpus` |
| `TiersFollowTexts` | `IngestRefinement` | `Spec => []TierFollowsText` |
| `SoloRunsIndex` | `IngestRefinement` | `Spec => SoloRunIndexes` |
| `ExitZeroEarned` | `EvalProofs` | `Spec => []ExitZeroMeansPassed` |
| `RowsTellRuns` | `EvalProofs` | `Spec => []RowTellsRun` |
| `AnswersLogged` | `EvalProofs` | `Spec => []AnsweredIsLogged` |
| `BaselineStays` | `EvalProofs` | `Spec => BaselineKept` |

The runs of `Login`, `TokenCache` and `Ingest` leave `TypeOK` out, as it is proved.

The assumptions are about constants only. `Eval` has the ones that say something:
the golden set is finite and has a canon entry, scores and thresholds are integers
(percentages), and a readable baseline found at the start is one an earlier run
wrote, with means for its metrics and few enough errors. The others give constants
their types.

### Conversation store

`TypeOK` alone is not inductive: `InsertMessage` uses an ordinal that may be -1,
so it is proved together with `OrdinalGiven` (an append that inserts has been
given one).

`AckedIsStored` rests on `TranscriptInv`: generations handed out never repeat
and the object's is among them (`GenerationInv`); the copy an append holds is
what the object holds as long as the object still has the generation the append
downloaded (`CopyInv`), which is why a precondition on the generation is enough;
an append's message is not in the object before its upload succeeded
(`WrittenInv`), which is why no retry stores it twice; and until a delete, what
was stored stays (`KeptInv`). The proof has one step per action, and the actions
that only move a program counter share the lemma `MoveKeeps`. The refinement
uses the same invariant: each action of the store maps to an action of
`Transcript` or to a stutter.

`TicketHasConversation` rests on `LockInv`: a delete past `DeleteRow` holds the
row lock, saw no ticket when it took it, and no ticket can be inserted while it
is held.

`IndexSound` rests on `IndexInv`. `message_count` is at most the number of appends
past the increment (`CountInv`), each of which has its block in the transcript. Two
appends that are about to insert hold different ordinals below the count, and no
row has them (`OrdinalInv`): that is why the unique violation `insert_message`
swallows does not happen. `OrdinalInv` must survive the delete of the row, which
starts the count again; `CommitInv` says that a delete that commits without having
removed an object held the row before any append got to its insert.

### Chat

The invariant speaks of one turn at a time (`TurnOK`), and of the page (`PageOK`).
`SaveOK` follows the worker: a turn that has not reached its appends is in no row,
no late append and no ticket (`Clean`), and one acknowledged twice has its two rows
in order. `WireOK` ties the events sent to the row of the log, and says that
an error or a refusal is only sent, and a failure only logged, for a clean turn, and
that a page is told of a timeout only when its worker is no longer heard. `Recalls`
is `AnswerRemembered` from the moment the window is read: rows are never removed, and
an answer is completed only once its worker has ended (`CompletedEnds`), when the
appends that were acknowledged are in their rows. A step of turn `t` leaves the facts of the others alone
because rows only grow by rows of `t` (`Frame`); the page's steps change no fact of
a worker.

### Contradiction reports

`ScoreCountsSignals` and `OverrideVisible` are inductive once a post that has not
been answered is counted nowhere (`Uncounted`), a post that waits for a row has
picked one that exists, and a raise that overrides the judges never gets to the
search for a similar ticket (`PostsOK`). `PanelUsable` needs `PanelOK`: as long as
nothing was sent anyway, the second row's buttons are enabled, and the submit button
is enabled, or the second row is visible, or a response is awaited.

### Evaluation

`ResultOK` says which entries have a result at each step. `BaselineOK` ties what the
run read to the file there is now: the runner holds no lock on it, and the
comparison is with the file as it is at the end, so it must be shown that between
reading and comparing nothing but the run itself writes it. `LogOK` says that a
request id belongs to one entry. Overlap, recall and the error rate are compared as
products of integers, and the proof never divides.

### Login throttle

`LockIsEarned` speaks of the counter. `Counted` says what it counts: at least as
many logins have failed since `first_fail_at`. A login must not be counted twice,
hence `Unfailed`: one that has not been verified has not failed. `RetryAfterKept` is
about a promise made earlier, and `Promised` says what has become of it: the lock of
that 429 is still the one in force, with the rest of it counted down, or all the
failures counted now came after it.

### Token cache

`FetchOnlyWhenStale` is inductive with `TypeOK`: the write lock belongs to the one
call that fetches. `RetryFetchedAnew` needs `RefetchedAfter`: from the moment a
refused call has emptied the cache, whatever is cached, or being fetched, was asked
for after its 401. That holds because `invalidate` takes the write lock, which a fetch
under way still holds.

### Ingestion

The refinement rests on the unique `(document_id, ord)`, and the invariant says why
that is enough. The rows of a document are all those that one execution wrote for
one text (`OneText`). An execution that replaces them has deleted all of them or
none (`AllOrNone`): a snapshot is one such set, and another execution commits a
whole one in its place. So when its own rows collide with none that is left, either
nothing is left or it has nothing to add (`Checked`), and no other execution is at
the same point for the same document (`Exclusive`). `Authors` says that a row its
author has still to write is neither stored nor in a snapshot, which keeps rows of
equal texts apart. `IngestProofs` has the invariant, the steps that only move, the
statements of the transactions and the commit; `IngestRefinement` has the types, puts
them together, and maps `Upload` to `Edit`, a commit to `Publish`, and every other
step to a stutter.

`TierFollowsText` and `SoloRunIndexes` add `Told`: a row of `documents` tells the
text and the tier of one file the path has had and, unless that text is empty, the
passages beside it are those of the text. Hence a file whose hash is found
unchanged needs no work. For an execution that is alone (`Alone`), the files it is
done with are indexed unless it counted an error (`Done`): nobody else writes, and a
commit touches one path.

## What is only model-checked

- Liveness (`RequestsAnswered`, `ReaderAnswered`, `PageAnswered`, `LockExpires`,
  `CallsAnswered`, `RunsEnd`, `RunEnds`), which is beyond the prover.
- `GDriveSync`. `ExitZeroMeansMirrored` does not hold for every folder: that of `same_slug`
  refutes it, so a proof needs the exact condition on `Names` under which paths do not
  collide, across renames. `TypeOK`, `GoneIsArchived`, `RecoversInTwoRuns` and
  `CompletesUnlessDisturbed` are not proved yet.
- `History`, whose one run is a violation.

## Disagreements found

Four are checked by the violation runs above. Others met on the way, without a
run of their own:

- `conversation/repository.py:119` says the `SELECT` branch of `create_if_absent`
  always returns; the loser of two first messages has a snapshot without the row, and
  is answered 422 (reached in `conversation_store`).
- `gateway/static/assets/app.js:315` says both buttons are re-enabled "so the panel is
  not stuck after a send-anyway failure"; the row they are in has been hidden at line
  306, and the submit button is disabled. After a successful send-anyway the two stay
  disabled, so the next refusal shows a row without a usable button. `PanelUsable`
  says that the panel is usable otherwise, and excepts what follows a send-anyway.
- `SignalForm.tsx:7` calls the confirmed outcome "recorded"; `mapOutcomeToState`
  ignores `ticket_action`, so a report whose ticket could not be written is announced
  as recorded.
- `ingest/pipeline.py:59` says `process_file` never raises; an error of
  `fetch_existing` or of the embedder ends the whole run. The hash it compares is of
  the body alone, so an edit of the front matter (the tier included) of an unchanged
  text is skipped.
- A replacement by an empty text inserts nothing and so collides with nothing: two
  overlapping executions may leave the passages of one text under the hash of the
  empty one. `TierFollowsText` and `SoloRunIndexes` except it.
- `eval/README.md` says exit code 0 means all gates passed or were skipped; a run that
  creates the baseline exits 0 whatever gate A says. A metric that is null or NaN
  violates no gate.
- A request that failed, was retried and then answered has the `query_log` row of its
  first attempt (502 or 504): `request_id` is unique, and the second row is dropped. A
  lost acknowledgement of the insert into `eval_runs` exits 4 with the row stored.
- Two first raises of one topic find no ticket, lock nothing and insert two.
  `ticket_service.py` does not promise otherwise.
- A conversation started in an empty thread is not `ChatShell`'s `selectedId`, so its
  deletion leaves the thread open.
- `gateway/src/auth/throttle.rs:4` says an email is locked until 15 minutes after the
  5th failure (lines 29 and 42 too); `is_throttled` first drops the entry 15 minutes
  after the 1st. The `Retry-After` it announces is counted from the 5th, in whole
  seconds.
- `gateway/src/auth_metadata/token.rs` evicts a refused token so that a fresh one is
  fetched; the metadata server may return the same one, and the retry is refused too.
- `generate/stream_router.py:293` and 337 say a failure is logged in parity with the
  blocking router; that one answers 502 for a failed retrieval without a row
  (`LogTellsOutcome` allows for it).
- `ChatForm.tsx:195` shows a stream that ended without `done` as a complete answer; what
  was shown may then not be in the conversation.
- `specs/openapi/gateway-to-workers.yml:427` says of a forced report "Cosine dedup
  still applies (anti-spam)"; `ticket_service.py` skips it when `force` is set, as
  its own comments say (#175).
- `contradiction/service.py:4` says "Any non-present >=2 winner raises a ticket";
  an "unclear" majority raises none since #172.
- `contradiction/service.py:243` says a forced report is still raised when the
  judges did not confirm it; without sources it is answered `not_raised`.
- `generate/stream_router.py:4` says `meta` is the first event of a stream; when
  retrieval fails the stream is a single `error`.
- `gateway/tests/auth_signup_test.rs:116` says a signup of a registered email is
  answered 409; of two signups at once the loser is refused by the unique index and
  answered 500.
- `scripts/tests/test_sync_integration.py:361` says a Drive rename renames the local
  file; a PNG with unchanged bytes keeps its path. Line 390 says a deleted file is
  archived; one that failed in the run before its deletion is no longer recorded,
  and its copy stays as it is.
- `gdrive_export/frontmatter_merge.py:22` says user keys are preserved on re-export;
  they are read from the path written to, so a file that failed and was then renamed
  starts from the defaults.
- `gdrive_export/paths.py:18` says every path component is slugified; `images.py:213`
  writes images under the folder's own name, so in a folder such as "Chapitre 1" a
  document's links and the orphan cleanup look elsewhere.
- `.github/workflows/gdrive-sync.yml:53` takes exit code 1 for errors of single files
  and others for a crash; an exception that ends the run exits 1 too.
- `gateway/src/lib.rs:52` says no pooled connection outlives its token; the
  lifetime is counted from the connection's start, not from the token's.

## Not modelled

- Text: prompts, answers, Markdown renderers, the wording of messages, similarity of
  embeddings, password hashing. They are values to the models, and what a renderer
  makes of a document has no order of events.
- Single reads: listings, signed URLs, dashboards, costs, the public board. Each is one
  query, and nothing is written.
- Configuration, start-up and infrastructure.
- Sessions beyond their creation (revocation, expiry, the anonymous cookie): each
  request reads one row once.
- The status snapshot (`health_cache.rs`): the same double-checked lock as the token
  cache, around probes instead of a fetch. Its snapshot is dated before the probes run.
- The migration runner: each migration and its record are one transaction, and it is
  started by one job.
- The Cloud SQL tokens of `lib.rs` and `auth_metadata/token.py`, which are caches of the
  shape of `TokenCache` without the retry.
- The weekly job of the Drive export checks out the state file without the tree, which
  `.gitignore` excludes; `GDriveSync` keeps the tree between runs, as on a person's
  machine. User keys of the front matter are left out of it.
- `Ingest` takes its files from uploads of its own, not from the tree of `GDriveSync`:
  `gcloud storage rsync` lies between them, and deletes nothing.
- `Eval` reads floats as exact percentages: what rounding does at the edge of a
  tolerance is not covered.

`PROJECT.json` lists every part with its status and the reason.
