------------------------------- MODULE Ingest -------------------------------
(***************************************************************************)
(* Executions of the ingestion job: download the bucket, then take the     *)
(* files in order, compare the hash of each text with the documents row,   *)
(* and insert the document or replace its passages in one transaction.     *)
(* Executions may overlap, and the bucket is uploaded to at any time.      *)
(*                                                                         *)
(* A transaction is modelled by its statements under READ COMMITTED: each  *)
(* reads the rows committed when it starts, waits for the rows and unique  *)
(* keys that another open transaction holds, and then acts on what is      *)
(* left of its snapshot.  Its writes become visible at the commit.         *)
(***************************************************************************)
EXTENDS Naturals, FiniteSets

CONSTANTS Runs,       \* the executions of the job
          Paths,      \* the source paths, numbers in their sorted order
          Bodies,     \* the texts, after normalize_body; equal hashes, equal texts
          Passages,   \* how many chunks the splitter makes of a text
          Headers,    \* the front matters: an access tier, or one that is refused
          Refused,    \* the headers parse_frontmatter refuses
          Uploads,    \* the objects that may be uploaded: a path and a file
          Initial,    \* what the bucket may hold at first
          Earlier,    \* an execution that ingested it before the others
          Users,      \* the tiers of the readers
          Allowed,    \* ALLOWED_ACCESS_TIERS_BY_USER_TIER
          MaxEdits,   \* bound on the uploads to the bucket
          MaxFaults   \* bound on the failures

Files == [body : Bodies, header : Headers]

ASSUME PathsAssumption == Paths \subseteq Nat \ {0}
ASSUME PassagesAssumption == Passages \in [Bodies -> Nat]
ASSUME FilesAssumption ==
  /\ Refused \subseteq Headers
  /\ Uploads \subseteq Paths \X Files
  /\ \A b \in Initial : /\ DOMAIN b \subseteq Paths
                        /\ \A p \in DOMAIN b : b[p] \in Files
  /\ Earlier \notin Runs
ASSUME BoundsAssumption == MaxEdits \in Nat /\ MaxFaults \in Nat

VARIABLES bucket,   \* the objects of LORE_CORPUS_BUCKET
          docs,     \* the committed rows of documents, by source_path
          chunks,   \* the committed rows of chunks, by source_path
          pc,       \* where each execution is
          tree,     \* the files it has downloaded
          todo,     \* what it has still to download, then to process
          cur,      \* the file in hand
          snap,     \* the rows its DELETE sees, then the rows it has deleted
          errors,   \* counters.errors
          exit,     \* the code main returned and the status of the ended process
          held,     \* history: the files each path has had
          solo,     \* history: no other execution has run at the same time
          edits, faults

vars == <<bucket, docs, chunks, pc, tree, todo, cur, snap, errors, exit,
          held, solo, edits, faults>>

world == <<bucket, held, edits>>
job == <<pc, tree, todo, cur, snap, errors, exit>>

Row == (Runs \cup {Earlier}) \X Bodies \X Nat

\* The rows _insert_chunks writes: one per chunk, numbered from 0.
Ords(b) == 0 .. Passages[b] - 1
NewRows(r, b) == {<<r, b, o>> : o \in Ords(b)}

Body(r) == tree[r][cur[r]].body
Header(r) == tree[r][cur[r]].header

Active(r) == pc[r] \notin {"idle", "ended"}

\* The document row of the file in hand, or its unique key, is held by r.
Holds(r, p) == pc[r] \in {"inserting", "commit"} /\ cur[r] = p

\* The chunk rows r has deleted and not yet committed.
Deleted(r) == IF pc[r] \in {"deleted", "inserting", "commit"} THEN snap[r] ELSE {}

\* The executions the next statement of r waits for: they hold the document's
\* unique key or row, or have deleted a row that r deletes or would collide with.
Waits(r) ==
  {q \in Runs \ {r} :
     \/ pc[r] \in {"absent", "deleted"} /\ Holds(q, cur[r])
     \/ pc[r] = "deleting" /\ snap[r] \cap Deleted(q) # {}
     \/ /\ pc[r] = "inserting"
        /\ \E row \in chunks[cur[r]] \cap Deleted(q) : row[3] \in Ords(Body(r))}

Init ==
  /\ bucket \in Initial
  /\ \E D \in {{}, {p \in DOMAIN bucket : bucket[p].header \notin Refused}} :
       /\ docs = [p \in D |-> [hash |-> bucket[p].body, tier |-> bucket[p].header]]
       /\ chunks = [p \in Paths |-> IF p \in D THEN NewRows(Earlier, bucket[p].body) ELSE {}]
  /\ pc = [r \in Runs |-> "idle"]
  /\ tree = [r \in Runs |-> [p \in {} |-> p]]
  /\ todo = [r \in Runs |-> {}]
  /\ cur = [r \in Runs |-> 0]
  /\ snap = [r \in Runs |-> {}]
  /\ errors = [r \in Runs |-> 0]
  /\ exit = [r \in {} |-> 0]
  /\ held = [p \in Paths |-> IF p \in DOMAIN bucket THEN {bucket[p]} ELSE {}]
  /\ solo = [r \in Runs |-> TRUE]
  /\ edits = 0
  /\ faults = 0

-----------------------------------------------------------------------------
\* The bucket: gcloud storage rsync adds and overwrites objects, and deletes none.

Upload(p, f) ==
  /\ edits < MaxEdits
  /\ edits' = edits + 1
  /\ bucket' = [q \in DOMAIN bucket \cup {p} |-> IF q = p THEN f ELSE bucket[q]]
  /\ held' = [held EXCEPT ![p] = @ \cup {f}]
  /\ UNCHANGED <<docs, chunks, job, solo, faults>>

-----------------------------------------------------------------------------
\* download_corpus: the objects are listed, then downloaded one after the other.

Start(r) ==
  /\ pc[r] = "idle"
  /\ pc' = [pc EXCEPT ![r] = "download"]
  /\ todo' = [todo EXCEPT ![r] = DOMAIN bucket]
  /\ solo' = [q \in Runs |-> IF q = r THEN \A s \in Runs : ~Active(s)
                                      ELSE solo[q] /\ ~Active(q)]
  /\ UNCHANGED <<world, docs, chunks, tree, cur, snap, errors, exit, faults>>

Download(r) ==
  /\ pc[r] = "download"
  /\ \E p \in todo[r] :
       /\ tree' = [tree EXCEPT ![r] =
            [q \in DOMAIN tree[r] \cup {p} |-> IF q = p THEN bucket[p] ELSE tree[r][q]]]
       /\ todo' = [todo EXCEPT ![r] = @ \ {p}]
  /\ UNCHANGED <<world, docs, chunks, pc, cur, snap, errors, exit, solo, faults>>

\* The ingest process runs once the download has succeeded: embedder, splitter
\* and pool are built, and the files are taken in their sorted order.
StartIngest(r) ==
  /\ pc[r] = "download"
  /\ todo[r] = {}
  /\ pc' = [pc EXCEPT ![r] = "file"]
  /\ todo' = [todo EXCEPT ![r] = DOMAIN tree[r]]
  /\ UNCHANGED <<world, docs, chunks, tree, cur, snap, errors, exit, solo, faults>>

-----------------------------------------------------------------------------
\* The end of an execution.

\* __main__.py calls main() and drops the code it returns.
ExitStatus(returned) == 0

End(r, returned, status) ==
  /\ pc' = [pc EXCEPT ![r] = "ended"]
  /\ exit' = [q \in DOMAIN exit \cup {r} |-> 
       IF q = r THEN [returned |-> returned, status |-> status] ELSE exit[q]]
  /\ todo' = [todo EXCEPT ![r] = {}]
  /\ cur' = [cur EXCEPT ![r] = 0]
  /\ snap' = [snap EXCEPT ![r] = {}]
  /\ tree' = [tree EXCEPT ![r] = [p \in {} |-> p]]
  /\ errors' = [errors EXCEPT ![r] = 0]
  /\ solo' = [solo EXCEPT ![r] = TRUE]
  /\ UNCHANGED <<world, docs, chunks>>

\* All files are done: EXIT_FILE_ERRORS or EXIT_OK.
Finish(r) ==
  /\ pc[r] = "file"
  /\ todo[r] = {}
  /\ LET returned == IF errors[r] > 0 THEN 1 ELSE 0
     IN End(r, returned, ExitStatus(returned))
  /\ UNCHANGED faults

\* The embedder, the splitter or the pool cannot be built: EXIT_INIT_FAILURE.
InitFails(r) ==
  /\ pc[r] = "download"
  /\ todo[r] = {}
  /\ faults < MaxFaults
  /\ faults' = faults + 1
  /\ End(r, 2, ExitStatus(2))

\* An exception leaves the process (a download, fetch_existing or encode_batch
\* that fails is caught nowhere), or the container is killed: an open transaction
\* is rolled back, and the files after this one are not reached.
Die(r) ==
  /\ Active(r)
  /\ faults < MaxFaults
  /\ faults' = faults + 1
  /\ End(r, 1, 1)

-----------------------------------------------------------------------------
\* process_file

First(r, p) == p \in todo[r] /\ \A q \in todo[r] : p <= q

Turn(r, p) ==
  /\ pc' = [pc EXCEPT ![r] = "file"]
  /\ todo' = [todo EXCEPT ![r] = @ \ {p}]
  /\ cur' = [cur EXCEPT ![r] = 0]
  /\ snap' = [snap EXCEPT ![r] = {}]
  /\ UNCHANGED <<world, tree, exit, solo>>

\* Unreadable, larger than 1 MiB, or without a valid front matter.
RefuseFile(r) ==
  /\ pc[r] = "file"
  /\ \E p \in Paths :
       /\ First(r, p)
       /\ tree[r][p].header \in Refused
       /\ Turn(r, p)
  /\ errors' = [errors EXCEPT ![r] = @ + 1]
  /\ UNCHANGED <<docs, chunks, faults>>

\* Mutant: any text of a path that has a row is skipped.
FetchExistingByPath(r) ==
  /\ pc[r] = "file"
  /\ \E p \in Paths :
       /\ First(r, p)
       /\ tree[r][p].header \notin Refused
       /\ IF p \in DOMAIN docs
          THEN Turn(r, p)
          ELSE /\ cur' = [cur EXCEPT ![r] = p]
               /\ pc' = [pc EXCEPT ![r] = "absent"]
               /\ UNCHANGED <<world, tree, todo, snap, exit, solo>>
  /\ UNCHANGED <<docs, chunks, errors, faults>>

\* A text whose hash the row has is skipped, whatever its front matter.
FetchExisting(r) ==
  /\ pc[r] = "file"
  /\ \E p \in Paths :
       /\ First(r, p)
       /\ tree[r][p].header \notin Refused
       /\ IF p \in DOMAIN docs /\ docs[p].hash = tree[r][p].body
          THEN Turn(r, p)
          ELSE /\ cur' = [cur EXCEPT ![r] = p]
               /\ pc' = [pc EXCEPT ![r] = IF p \in DOMAIN docs THEN "present" ELSE "absent"]
               /\ UNCHANGED <<world, tree, todo, snap, exit, solo>>
  /\ UNCHANGED <<docs, chunks, errors, faults>>

\* A PostgresError rolls back, and is counted.
RollBack(r) ==
  /\ Turn(r, cur[r])
  /\ errors' = [errors EXCEPT ![r] = @ + 1]
  /\ UNCHANGED <<docs, chunks>>

\* insert_document_with_chunks: source_path is unique.
InsertDocument(r) ==
  /\ pc[r] = "absent"
  /\ Waits(r) = {}
  /\ IF cur[r] \in DOMAIN docs
     THEN RollBack(r)
     ELSE /\ pc' = [pc EXCEPT ![r] = "inserting"]
          /\ UNCHANGED <<world, docs, chunks, tree, todo, cur, snap, errors, exit, solo>>
  /\ UNCHANGED faults

\* update_document_replace_chunks: DELETE takes its snapshot, ...
BeginDelete(r) ==
  /\ pc[r] = "present"
  /\ pc' = [pc EXCEPT ![r] = "deleting"]
  /\ snap' = [snap EXCEPT ![r] = chunks[cur[r]]]
  /\ UNCHANGED <<world, docs, chunks, tree, todo, cur, errors, exit, solo, faults>>

\* ... waits for those who have deleted a row of it, and deletes what is left,
DeleteChunks(r) ==
  /\ pc[r] = "deleting"
  /\ Waits(r) = {}
  /\ pc' = [pc EXCEPT ![r] = "deleted"]
  /\ snap' = [snap EXCEPT ![r] = @ \cap chunks[cur[r]]]
  /\ UNCHANGED <<world, docs, chunks, tree, todo, cur, errors, exit, solo, faults>>

\* UPDATE waits for the row,
UpdateDocument(r) ==
  /\ pc[r] = "deleted"
  /\ Waits(r) = {}
  /\ pc' = [pc EXCEPT ![r] = "inserting"]
  /\ UNCHANGED <<world, docs, chunks, tree, todo, cur, snap, errors, exit, solo, faults>>

\* Mutant: (document_id, ord) is not unique.
InsertChunksUnchecked(r) ==
  /\ pc[r] = "inserting"
  /\ Waits(r) = {}
  /\ pc' = [pc EXCEPT ![r] = "commit"]
  /\ UNCHANGED <<world, docs, chunks, tree, todo, cur, snap, errors, exit, solo, faults>>

\* and the new rows must not collide with a (document_id, ord) that is there.
InsertChunks(r) ==
  /\ pc[r] = "inserting"
  /\ Waits(r) = {}
  /\ IF \E row \in chunks[cur[r]] \ snap[r] : row[3] \in Ords(Body(r))
     THEN RollBack(r)
     ELSE /\ pc' = [pc EXCEPT ![r] = "commit"]
          /\ UNCHANGED <<world, docs, chunks, tree, todo, cur, snap, errors, exit, solo>>
  /\ UNCHANGED faults

\* Mutant: UPDATE documents leaves access_tier out.
WriteKeepsTier(r) ==
  /\ docs' = [p \in DOMAIN docs \cup {cur[r]} |->
                IF p = cur[r]
                THEN [hash |-> Body(r),
                      tier |-> IF p \in DOMAIN docs THEN docs[p].tier ELSE Header(r)]
                ELSE docs[p]]
  /\ chunks' = [chunks EXCEPT ![cur[r]] = (@ \ snap[r]) \cup NewRows(r, Body(r))]
  /\ Turn(r, cur[r])

\* The writes of a transaction become visible at its commit.
Write(r) ==
  /\ docs' = [p \in DOMAIN docs \cup {cur[r]} |->
                IF p = cur[r] THEN [hash |-> Body(r), tier |-> Header(r)] ELSE docs[p]]
  /\ chunks' = [chunks EXCEPT ![cur[r]] = (@ \ snap[r]) \cup NewRows(r, Body(r))]
  /\ Turn(r, cur[r])

Commit(r) ==
  /\ pc[r] = "commit"
  /\ Write(r)
  /\ UNCHANGED <<errors, faults>>

\* The commit is made and its acknowledgement lost: counted as an error.
CommitLost(r) ==
  /\ pc[r] = "commit"
  /\ faults < MaxFaults
  /\ faults' = faults + 1
  /\ Write(r)
  /\ errors' = [errors EXCEPT ![r] = @ + 1]

DbError(r) ==
  /\ pc[r] \in {"absent", "present", "deleting", "deleted", "inserting", "commit"}
  /\ faults < MaxFaults
  /\ faults' = faults + 1
  /\ RollBack(r)

\* Mutant: the statement that meets a deadlock is tried again in its transaction,
\* which keeps its locks.
DeadlockRetried(r) ==
  /\ pc[r] \in {"deleted", "inserting"}
  /\ \E q \in Waits(r) : r \in Waits(q)
  /\ UNCHANGED vars

\* Two transactions that wait for each other: Postgres fails one of them.
Deadlock(r) ==
  /\ pc[r] \in {"deleted", "inserting"}
  /\ \E q \in Waits(r) : r \in Waits(q)
  /\ RollBack(r)
  /\ UNCHANGED faults

-----------------------------------------------------------------------------
Step(r) ==
  \/ Download(r) \/ StartIngest(r) \/ Finish(r)
  \/ RefuseFile(r) \/ FetchExisting(r)
  \/ InsertDocument(r) \/ BeginDelete(r) \/ DeleteChunks(r) \/ UpdateDocument(r)
  \/ InsertChunks(r) \/ Commit(r) \/ Deadlock(r)

Failure(r) == InitFails(r) \/ Die(r) \/ CommitLost(r) \/ DbError(r)

Next ==
  \/ \E u \in Uploads : Upload(u[1], u[2])
  \/ \E r \in Runs : Start(r) \/ Step(r) \/ Failure(r)

Spec == Init /\ [][Next]_vars

\* An execution that has started goes on: statements return, and a deadlock is
\* noticed.
FairSpec == Spec /\ \A r \in Runs : WF_vars(Step(r))

-----------------------------------------------------------------------------
\* Retrieval: one statement joins the committed chunks and documents; the
\* passages whose tier the reader may not see are dropped afterwards.
Search == UNION {{p} \X chunks[p] : p \in DOMAIN docs}
Visible(u) == {hit \in Search : docs[hit[1]].tier \in Allowed[u]}

-----------------------------------------------------------------------------
Stages == {"idle", "download", "file", "absent", "present", "deleting", "deleted",
           "inserting", "commit", "ended"}

\* The types of the variables; a row of chunks carries a document and a text.
TypeOK ==
  /\ DOMAIN bucket \subseteq Paths /\ \A p \in DOMAIN bucket : bucket[p] \in Files
  /\ DOMAIN docs \subseteq Paths
  /\ \A p \in DOMAIN docs : docs[p] \in [hash : Bodies, tier : Headers \ Refused]
  /\ chunks \in [Paths -> SUBSET Row]
  /\ pc \in [Runs -> Stages]
  /\ DOMAIN tree = Runs
  /\ \A r \in Runs : /\ DOMAIN tree[r] \subseteq Paths
                     /\ \A p \in DOMAIN tree[r] : tree[r][p] \in Files
  /\ todo \in [Runs -> SUBSET Paths]
  /\ cur \in [Runs -> Paths \cup {0}]
  /\ snap \in [Runs -> SUBSET Row]
  /\ errors \in [Runs -> Nat]
  /\ DOMAIN exit \subseteq Runs
  /\ \A r \in DOMAIN exit : exit[r] \in [returned : 0 .. 2, status : 0 .. 2]
  /\ held \in [Paths -> SUBSET Files]
  /\ solo \in [Runs -> BOOLEAN]
  /\ edits \in 0 .. MaxEdits
  /\ faults \in 0 .. MaxFaults

\* The passages of a document are replaced in one step by all those of one text
\* its file has had, whatever executions overlap, fail or are killed: the two
\* transactions of repository.py, and the unique (document_id, ord) that stops
\* the second of two concurrent replacements.
C == INSTANCE Corpus WITH
       held <- [p \in Paths |-> {f.body : f \in held[p]}],
       index <- [p \in Paths |-> {<<row[2], row[3]>> : row \in chunks[p]}]

ImplementsCorpus == C!CorpusSpec

\* A reader finds a passage only when its author gave that text a tier the reader
\* may see: row and passages change together, and retrieval joins them in one
\* statement.  A document that became empty is excepted: a replacement by nothing
\* collides with nothing, and leaves the passages of a concurrent one in place.
TierFollowsText ==
  \A u \in Users : \A hit \in Visible(u) :
    LET p == hit[1] IN
    \/ Passages[docs[p].hash] = 0
    \/ \E f \in held[p] : f.body = hit[2][2] /\ f.header \in Allowed[u]

\* An execution that reports no error, and met no other, leaves every file it
\* downloaded indexed with the text it downloaded (_persist skips, inserts or
\* replaces), also after executions that failed anywhere or overlapped.
Indexed(p, b) ==
  /\ p \in DOMAIN docs
  /\ docs[p].hash = b
  /\ Passages[b] = 0 \/ {<<row[2], row[3]>> : row \in chunks[p]} = C!Split(b)

SoloRunIndexes ==
  [][\A r \in Runs :
       (r \in DOMAIN exit' \ DOMAIN exit /\ exit'[r].returned = 0 /\ solo[r])
         => \A p \in DOMAIN tree[r], b \in Bodies :
              tree[r][p].body = b => Indexed(p, b)']_vars

\* Every execution comes to an end: each statement waits only for transactions
\* that go on, or the two of a deadlock are told apart.  An execution runs once, so
\* when none is active all that were have ended.
RunsEnd == (\E r \in Runs : Active(r)) ~> (\A r \in Runs : ~Active(r))

\* cloud_run_job.tf: exit 1 signals at least one file error, and exit 2 a failed
\* start, to the workflow that executes the job.
JobTellsErrors ==
  \A r \in DOMAIN exit : exit[r].returned # 0 => exit[r].status # 0
=============================================================================
