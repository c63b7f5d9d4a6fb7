---------------------------- MODULE IngestProofs ----------------------------
(***************************************************************************)
(* Why ingestion publishes whole texts, for any number of executions,      *)
(* paths, texts, uploads and failures: the invariant, and that every step  *)
(* of an execution keeps its order.  IngestRefinement has the types and    *)
(* the theorems.                                                           *)
(*                                                                         *)
(* The invariant says why the unique (document_id, ord) is enough.  The    *)
(* rows of a document are all those one execution wrote for one text       *)
(* (OneText); an execution that replaces them has deleted all of them or   *)
(* none (AllOrNone); so when its own rows collide with none, there is      *)
(* nothing left or nothing to add (Checked), and no other execution is at  *)
(* the same point for the same document (Exclusive).  Authors says that a  *)
(* row its author has still to write is neither stored nor in a snapshot.  *)
(***************************************************************************)
EXTENDS Ingest, TLAPS

Replacing == {"deleting", "deleted", "inserting", "commit"}
Working == Replacing \cup {"absent", "present"}

\* The file in hand is one of those to do, and its front matter is valid.
InHand ==
  \A r \in Runs : pc[r] \in Working =>
    cur[r] \in todo[r] /\ tree[r][cur[r]].header \notin Refused

\* What is to do has been downloaded, or is still in the bucket.
Queue ==
  \A r \in Runs :
    /\ pc[r] \in Working \cup {"file"} => todo[r] \subseteq DOMAIN tree[r]
    /\ pc[r] = "download" => todo[r] \subseteq DOMAIN bucket

\* The files of the bucket and of the executions are files the paths have had.
Known ==
  /\ \A p \in DOMAIN bucket : bucket[p] \in held[p]
  /\ \A r \in Runs : \A p \in DOMAIN tree[r] : tree[r][p] \in held[p]

\* r may have written rows of p.
Wrote(r, p) == pc[r] \notin {"idle", "download"} /\ p \notin todo[r]

Authors ==
  \A r \in Runs :
    /\ \A p \in Paths : \A row \in chunks[p] : row[1] = r => Wrote(r, p)
    /\ \A q \in Runs : pc[q] \in Replacing =>
         \A row \in snap[q] : row[1] = r => Wrote(r, cur[q])

OneText ==
  \A p \in Paths :
    \/ chunks[p] = {}
    \/ \E s \in Runs \cup {Earlier}, f \in held[p] :
         Passages[f.body] > 0 /\ chunks[p] = NewRows(s, f.body)

AllOrNone ==
  \A r \in Runs : pc[r] \in Replacing =>
    chunks[cur[r]] \subseteq snap[r] \/ chunks[cur[r]] \cap snap[r] = {}

Checked ==
  \A r \in Runs : pc[r] = "commit" =>
    Passages[tree[r][cur[r]].body] = 0 \/ chunks[cur[r]] \subseteq snap[r]

Exclusive ==
  \A r, q \in Runs :
    (r # q /\ pc[r] \in {"inserting", "commit"} /\ pc[q] \in {"inserting", "commit"})
      => cur[r] # cur[q]

NoSnap == \A r \in Runs : pc[r] \notin Replacing => snap[r] = {}

Order == /\ InHand /\ Queue /\ Known /\ Authors /\ OneText
         /\ AllOrNone /\ Checked /\ Exclusive /\ NoSnap

Inv == TypeOK /\ Order

-----------------------------------------------------------------------------
\* The rows of a text are there exactly when it has passages, and all begin at 0.
LEMMA Rows ==
  ASSUME NEW s \in Runs \cup {Earlier}, NEW b \in Bodies
  PROVE  /\ NewRows(s, b) \subseteq Row
         /\ Passages[b] = 0 => NewRows(s, b) = {} /\ Ords(b) = {}
         /\ Passages[b] > 0 => 0 \in Ords(b) /\ <<s, b, 0>> \in NewRows(s, b)
         /\ Passages[b] \in Nat
         /\ \A row \in NewRows(s, b) : row[1] = s
  BY PassagesAssumption DEF PassagesAssumption, NewRows, Ords, Row

-----------------------------------------------------------------------------
\* The steps, one after the other.

LEMMA UploadOrder ==
  ASSUME Inv, TypeOK', NEW p \in Paths, NEW f \in Files, Upload(p, f)
  PROVE  Order'
<1> USE DEF Inv, Order, Upload, job
<1>1. /\ DOMAIN bucket \subseteq DOMAIN bucket'
      /\ \A q \in DOMAIN bucket' : bucket'[q] = IF q = p THEN f ELSE bucket[q]
      /\ \A q \in Paths : held[q] \subseteq held'[q]
      /\ f \in held'[p]
  BY ZenonT(60) DEF TypeOK
<1>2. InHand' /\ NoSnap' /\ Exclusive' /\ AllOrNone' /\ Checked'
  BY DEF InHand, NoSnap, Exclusive, AllOrNone, Checked
<1>3. Authors'
  BY DEF Authors, Wrote
<1>4. Queue'
  BY <1>1, Zenon DEF Queue
<1>5. Known'
  BY <1>1, Zenon DEF Known, TypeOK
<1>6. OneText'
  BY <1>1, Zenon DEF OneText
<1> QED BY <1>2, <1>3, <1>4, <1>5, <1>6, Zenon

LEMMA StartOrder ==
  ASSUME Inv, TypeOK', NEW r \in Runs, Start(r)
  PROVE  Order'
<1> USE DEF Inv, Order
<1>1. /\ \A q \in Runs : pc'[q] = IF q = r THEN "download" ELSE pc[q]
      /\ \A q \in Runs : todo'[q] = IF q = r THEN DOMAIN bucket ELSE todo[q]
      /\ pc[r] = "idle"
      /\ UNCHANGED <<bucket, held, chunks, tree, cur, snap>>
  BY DEF TypeOK, Start, world
<1>2. InHand' /\ NoSnap' /\ Exclusive' /\ AllOrNone' /\ Checked'
  BY <1>1, ZenonT(30) DEF InHand, NoSnap, Exclusive, AllOrNone, Checked, Working, Replacing
<1>3. Authors'
  BY <1>1, ZenonT(60) DEF Authors, Wrote, Replacing
<1>4. Queue'
  BY <1>1 DEF Queue, Working, Replacing
<1>5. Known'
  BY <1>1, Zenon DEF Known
<1>6. OneText'
  BY <1>1, Zenon DEF OneText
<1> QED BY <1>2, <1>3, <1>4, <1>5, <1>6

LEMMA DownloadOrder ==
  ASSUME Inv, TypeOK', NEW r \in Runs, Download(r)
  PROVE  Order'
<1> USE DEF Inv, Order
<1>0. PICK p \in todo[r] :
        /\ tree' = [tree EXCEPT ![r] =
             [q \in DOMAIN tree[r] \cup {p} |-> IF q = p THEN bucket[p] ELSE tree[r][q]]]
        /\ todo' = [todo EXCEPT ![r] = @ \ {p}]
  BY Zenon DEF Download
<1>1. /\ pc[r] = "download"
      /\ p \in DOMAIN bucket
      /\ \A q \in Runs : q # r => tree'[q] = tree[q]
      /\ DOMAIN tree'[r] = DOMAIN tree[r] \cup {p}
      /\ \A q \in DOMAIN tree'[r] : tree'[r][q] = IF q = p THEN bucket[p] ELSE tree[r][q]
      /\ \A q \in Runs : todo'[q] = IF q = r THEN todo[q] \ {p} ELSE todo[q]
      /\ UNCHANGED <<bucket, held, chunks, pc, cur, snap>>
  BY <1>0, Zenon DEF Download, world, Queue, TypeOK
<1>2. InHand' /\ NoSnap' /\ Exclusive' /\ AllOrNone' /\ Checked'
  BY <1>1, ZenonT(30) DEF InHand, NoSnap, Exclusive, AllOrNone, Checked, Working, Replacing
<1>3. Authors'
  BY <1>1, ZenonT(60) DEF Authors, Wrote, Replacing
<1>4. Queue'
  BY <1>1, Zenon DEF Queue, Working, Replacing
<1>5. Known'
  BY <1>1 DEF Known
<1>6. OneText'
  BY <1>1 DEF OneText
<1> QED BY <1>2, <1>3, <1>4, <1>5, <1>6

LEMMA StartIngestOrder ==
  ASSUME Inv, TypeOK', NEW r \in Runs, StartIngest(r)
  PROVE  Order'
<1> USE DEF Inv, Order, StartIngest, world
<1>1. /\ pc[r] = "download"
      /\ \A q \in Runs : pc'[q] = IF q = r THEN "file" ELSE pc[q]
      /\ \A q \in Runs : todo'[q] = IF q = r THEN DOMAIN tree[r] ELSE todo[q]
      /\ UNCHANGED <<bucket, held, chunks, tree, cur, snap>>
  BY Zenon DEF TypeOK
<1>2. InHand' /\ NoSnap' /\ Exclusive' /\ AllOrNone' /\ Checked'
  BY <1>1 DEF InHand, NoSnap, Exclusive, AllOrNone, Checked, Working, Replacing
<1>3. Authors'
  BY <1>1 DEF Authors, Wrote, Replacing
<1>4. Queue'
  BY <1>1 DEF Queue, Working, Replacing
<1>5. Known' /\ OneText'
  BY <1>1 DEF Known, OneText
<1> QED BY <1>2, <1>3, <1>4, <1>5

LEMMA EndOrder ==
  ASSUME Inv, TypeOK', NEW r \in Runs, Active(r), NEW a, NEW b, End(r, a, b)
  PROVE  Order'
<1> USE DEF Inv, Order
<1>1. /\ pc[r] # "idle"
      /\ \A q \in Runs : pc'[q] = IF q = r THEN "ended" ELSE pc[q]
      /\ \A q \in Runs : todo'[q] = IF q = r THEN {} ELSE todo[q]
      /\ \A q \in Runs : cur'[q] = IF q = r THEN 0 ELSE cur[q]
      /\ \A q \in Runs : snap'[q] = IF q = r THEN {} ELSE snap[q]
      /\ \A q \in Runs : q # r => tree'[q] = tree[q]
      /\ DOMAIN tree'[r] = {}
      /\ UNCHANGED <<bucket, held, chunks>>
  BY Zenon DEF TypeOK, Active, End, world
<1>2. InHand' /\ NoSnap' /\ Exclusive' /\ AllOrNone' /\ Checked'
  BY <1>1 DEF InHand, NoSnap, Exclusive, AllOrNone, Checked, Working, Replacing
<1>3. Authors'
  BY <1>1, ZenonT(30) DEF Authors, Wrote, Replacing
<1>4. Queue'
  BY <1>1, ZenonT(60) DEF Queue, Working, Replacing
<1>5. Known' /\ OneText'
  BY <1>1 DEF Known, OneText
<1> QED BY <1>2, <1>3, <1>4, <1>5, Zenon

\* A file is done, and nothing was written.
LEMMA TurnOrder ==
  ASSUME Inv, TypeOK', NEW r \in Runs, NEW p, pc[r] \in Working \cup {"file"},
         Turn(r, p), UNCHANGED chunks
  PROVE  Order'
<1> USE DEF Inv, Order
<1>1. /\ \A q \in Runs : pc'[q] = IF q = r THEN "file" ELSE pc[q]
      /\ \A q \in Runs : todo'[q] = IF q = r THEN todo[q] \ {p} ELSE todo[q]
      /\ \A q \in Runs : cur'[q] = IF q = r THEN 0 ELSE cur[q]
      /\ \A q \in Runs : snap'[q] = IF q = r THEN {} ELSE snap[q]
      /\ UNCHANGED <<bucket, held, chunks, tree>>
  BY Zenon DEF TypeOK, Turn, world
<1>2. NoSnap' /\ Exclusive'
  BY <1>1 DEF NoSnap, Exclusive, Replacing
<1>7. InHand'
  BY <1>1, Zenon DEF InHand, Working, Replacing
<1>6. AllOrNone' /\ Checked'
  BY <1>1 DEF AllOrNone, Checked, Replacing
<1>3. Authors'
  BY <1>1, ZenonT(30) DEF Authors, Wrote, Working, Replacing
<1>4. Queue'
  BY <1>1, ZenonT(60) DEF Queue, Working, Replacing
<1>5. Known' /\ OneText'
  BY <1>1 DEF Known, OneText
<1> QED BY <1>2, <1>3, <1>4, <1>5, <1>6, <1>7, Zenon

\* FetchExisting: a skipped text is a turn without a write, another is taken up.
LEMMA FetchOrder ==
  ASSUME Inv, TypeOK', NEW r \in Runs, FetchExisting(r)
  PROVE  Order'
<1> USE DEF Inv, Order
<1>0. PICK p \in Paths :
        /\ First(r, p)
        /\ tree[r][p].header \notin Refused
        /\ \/ Turn(r, p)
           \/ /\ cur' = [cur EXCEPT ![r] = p]
              /\ pc' = [pc EXCEPT ![r] = IF p \in DOMAIN docs THEN "present" ELSE "absent"]
              /\ UNCHANGED <<world, tree, todo, snap, exit, solo>>
  BY DEF FetchExisting
<1>1. pc[r] = "file" /\ UNCHANGED chunks
  BY DEF FetchExisting
<1>2. CASE Turn(r, p)
  BY <1>1, <1>2, TurnOrder
<1>3. CASE /\ cur' = [cur EXCEPT ![r] = p]
           /\ pc' = [pc EXCEPT ![r] = IF p \in DOMAIN docs THEN "present" ELSE "absent"]
           /\ UNCHANGED <<world, tree, todo, snap, exit, solo>>
  <2>1. /\ \A q \in Runs : q # r => pc'[q] = pc[q]
        /\ pc'[r] \in {"present", "absent"}
        /\ \A q \in Runs : cur'[q] = IF q = r THEN p ELSE cur[q]
        /\ p \in todo[r]
        /\ UNCHANGED <<bucket, held, chunks, tree, todo, snap>>
    BY <1>0, <1>1, <1>3 DEF TypeOK, First, world
  <2>2. NoSnap' /\ Exclusive'
    BY <1>1, <2>1 DEF NoSnap, Exclusive, Replacing
  <2>3. InHand'
    BY <1>0, <2>1, Zenon DEF InHand, Working, Replacing
  <2>4. AllOrNone' /\ Checked'
    BY <2>1, Zenon DEF AllOrNone, Checked, Replacing
  <2>5. Authors'
    BY <1>1, <2>1, Zenon DEF Authors, Wrote, Replacing
  <2>6. Queue'
    BY <1>1, <2>1, Zenon DEF Queue, Working, Replacing
  <2>7. Known' /\ OneText'
    BY <2>1, Zenon DEF Known, OneText
  <2> QED BY <2>2, <2>3, <2>4, <2>5, <2>6, <2>7
<1> QED BY <1>0, <1>2, <1>3

\* A statement of r that writes nothing yet: only pc[r] and snap[r] change.
LEMMA AdvanceOrder ==
  ASSUME Inv, NEW r \in Runs, NEW to \in Replacing, pc[r] \in Working,
         pc' = [pc EXCEPT ![r] = to],
         UNCHANGED <<bucket, held, chunks, tree, todo, cur>>,
         \A q \in Runs : q # r => snap'[q] = snap[q],
         \A row \in snap'[r] : row \in chunks[cur[r]] \/ row \in snap[r],
         chunks[cur[r]] \subseteq snap'[r] \/ chunks[cur[r]] \cap snap'[r] = {}
  PROVE  InHand' /\ Queue' /\ Known' /\ Authors' /\ OneText' /\ AllOrNone' /\ NoSnap'
<1> USE DEF Inv, Order
<1>1. \A q \in Runs : pc'[q] = IF q = r THEN to ELSE pc[q]
  BY Zenon DEF TypeOK
<1>2. InHand'
  BY <1>1, Zenon DEF InHand, Working
<1>3. Queue'
  BY <1>1, ZenonT(60) DEF Queue, Working, Replacing
<1>4. Known' /\ OneText'
  BY Zenon DEF Known, OneText
<1>5. AllOrNone'
  BY <1>1, ZenonT(60) DEF AllOrNone
<1>6. NoSnap'
  BY <1>1, Zenon DEF NoSnap
<1>7. cur[r] \in Paths
  BY Zenon DEF InHand, TypeOK
<1>8. \A q \in Runs, p \in Paths : Wrote(q, p) => Wrote(q, p)'
  BY <1>1, Zenon DEF Wrote, Replacing
<1>9. pc[r] \notin Replacing => snap[r] = {}
  BY Zenon DEF NoSnap
<1>10. Authors'
  BY <1>1, <1>7, <1>8, <1>9 DEF Authors, InHand, Working, TypeOK
<1> QED BY <1>2, <1>3, <1>4, <1>5, <1>6, <1>10, Zenon

-----------------------------------------------------------------------------
(* The statements of a transaction. *)

LEMMA InsertDocumentOrder ==
  ASSUME Inv, TypeOK', NEW r \in Runs, InsertDocument(r)
  PROVE  Order'
<1> USE DEF Inv, Order
<1>1. CASE cur[r] \in DOMAIN docs
  BY <1>1, TurnOrder, Zenon DEF InsertDocument, RollBack, Working
<1>2. CASE cur[r] \notin DOMAIN docs
  <2>1. /\ pc[r] = "absent" /\ Waits(r) = {}
        /\ pc' = [pc EXCEPT ![r] = "inserting"]
        /\ UNCHANGED <<bucket, held, chunks, tree, todo, cur, snap>>
    BY <1>2, Zenon DEF InsertDocument, world
  <2>2. snap[r] = {}
    BY <2>1 DEF NoSnap, Replacing
  <2>3. InHand' /\ Queue' /\ Known' /\ Authors' /\ OneText' /\ AllOrNone' /\ NoSnap'
    BY <2>1, <2>2, AdvanceOrder, Zenon DEF Working, Replacing
  <2>4. \A q \in Runs : q # r => ~Holds(q, cur[r])
    BY <2>1, Zenon DEF Waits
  <2>5. Exclusive' /\ Checked'
    BY <2>1, <2>4, ZenonT(60) DEF Exclusive, Checked, Holds, TypeOK
  <2> QED BY <2>3, <2>5, Zenon
<1> QED BY <1>1, <1>2, Zenon

LEMMA BeginDeleteOrder ==
  ASSUME Inv, TypeOK', NEW r \in Runs, BeginDelete(r)
  PROVE  Order'
<1> USE DEF Inv, Order
<1>1. /\ pc[r] = "present"
      /\ pc' = [pc EXCEPT ![r] = "deleting"]
      /\ \A q \in Runs : snap'[q] = IF q = r THEN chunks[cur[r]] ELSE snap[q]
      /\ UNCHANGED <<bucket, held, chunks, tree, todo, cur>>
  BY DEF BeginDelete, world, TypeOK
<1>2. InHand' /\ Queue' /\ Known' /\ Authors' /\ OneText' /\ AllOrNone' /\ NoSnap'
  BY <1>1, AdvanceOrder, ZenonT(30) DEF Working, Replacing
<1>3. Exclusive' /\ Checked'
  BY <1>1, Zenon DEF Exclusive, Checked, TypeOK
<1> QED BY <1>2, <1>3

LEMMA DeleteChunksOrder ==
  ASSUME Inv, TypeOK', NEW r \in Runs, DeleteChunks(r)
  PROVE  Order'
<1> USE DEF Inv, Order
<1>1. /\ pc[r] = "deleting"
      /\ pc' = [pc EXCEPT ![r] = "deleted"]
      /\ \A q \in Runs : snap'[q] = IF q = r THEN snap[r] \cap chunks[cur[r]] ELSE snap[q]
      /\ UNCHANGED <<bucket, held, chunks, tree, todo, cur>>
  BY Zenon DEF DeleteChunks, world, TypeOK
<1>2. chunks[cur[r]] \subseteq snap'[r] \/ chunks[cur[r]] \cap snap'[r] = {}
  BY <1>1 DEF AllOrNone, Replacing
<1>3. InHand' /\ Queue' /\ Known' /\ Authors' /\ OneText' /\ AllOrNone' /\ NoSnap'
  BY <1>1, <1>2, AdvanceOrder, ZenonT(30) DEF Working, Replacing
<1>4. Exclusive' /\ Checked'
  BY <1>1, Zenon DEF Exclusive, Checked, TypeOK
<1> QED BY <1>3, <1>4

LEMMA UpdateDocumentOrder ==
  ASSUME Inv, TypeOK', NEW r \in Runs, UpdateDocument(r)
  PROVE  Order'
<1> USE DEF Inv, Order
<1>1. /\ pc[r] = "deleted" /\ Waits(r) = {}
      /\ pc' = [pc EXCEPT ![r] = "inserting"]
      /\ UNCHANGED <<bucket, held, chunks, tree, todo, cur, snap>>
  BY Zenon DEF UpdateDocument, world
<1>2. chunks[cur[r]] \subseteq snap[r] \/ chunks[cur[r]] \cap snap[r] = {}
  BY <1>1 DEF AllOrNone, Replacing
<1>3. InHand' /\ Queue' /\ Known' /\ Authors' /\ OneText' /\ AllOrNone' /\ NoSnap'
  BY <1>1, <1>2, AdvanceOrder, ZenonT(30) DEF Working, Replacing
<1>4. \A q \in Runs : q # r => ~Holds(q, cur[r])
  BY <1>1, ZenonT(30) DEF Waits
<1>5. Exclusive' /\ Checked'
  BY <1>1, <1>4, ZenonT(60) DEF Exclusive, Checked, Holds, TypeOK
<1> QED BY <1>3, <1>5

LEMMA InsertChunksOrder ==
  ASSUME Inv, TypeOK', NEW r \in Runs, InsertChunks(r)
  PROVE  Order'
<1> USE DEF Inv, Order
<1>1. CASE \E row \in chunks[cur[r]] \ snap[r] : row[3] \in Ords(Body(r))
  BY <1>1, TurnOrder DEF InsertChunks, RollBack, Working, Replacing
<1>2. CASE ~\E row \in chunks[cur[r]] \ snap[r] : row[3] \in Ords(Body(r))
  <2>1. /\ pc[r] = "inserting"
        /\ pc' = [pc EXCEPT ![r] = "commit"]
        /\ UNCHANGED <<bucket, held, chunks, tree, todo, cur, snap>>
    BY <1>2, Zenon DEF InsertChunks, world
  <2>2. chunks[cur[r]] \subseteq snap[r] \/ chunks[cur[r]] \cap snap[r] = {}
    BY <2>1 DEF AllOrNone, Replacing
  <2>3. InHand' /\ Queue' /\ Known' /\ Authors' /\ OneText' /\ AllOrNone' /\ NoSnap'
    BY <2>1, <2>2, AdvanceOrder, ZenonT(60) DEF Working, Replacing
  <2>4. Exclusive'
    BY <2>1, SMTT(30) DEF Exclusive, TypeOK
  <2>5. /\ cur[r] \in Paths /\ held[cur[r]] \subseteq Files
        /\ Body(r) \in Bodies
    BY <2>1 DEF InHand, Queue, Working, Replacing, TypeOK, Body, Files
  <2>6. Passages[Body(r)] = 0 \/ chunks[cur[r]] \subseteq snap[r]
    <3> SUFFICES ASSUME chunks[cur[r]] \cap snap[r] = {}, chunks[cur[r]] # {}
                 PROVE  Passages[Body(r)] = 0
      BY <2>2
    <3>1. PICK s \in Runs \cup {Earlier}, f \in held[cur[r]] :
            Passages[f.body] > 0 /\ chunks[cur[r]] = NewRows(s, f.body)
      BY <2>5 DEF OneText
    <3>2. f.body \in Bodies
      BY <2>5 DEF Files
    <3>3. <<s, f.body, 0>> \in chunks[cur[r]] \ snap[r]
      BY <3>1, <3>2, Rows
    <3>4. 0 \notin Ords(Body(r))
      BY <1>2, <3>3
    <3>5. /\ Passages[Body(r)] > 0 => 0 \in Ords(Body(r))
          /\ Passages[Body(r)] \in Nat
      BY <2>5, Rows, ZenonT(60)
    <3> QED BY <3>4, <3>5
  <2>7. Checked'
    BY <2>1, <2>6 DEF Checked, TypeOK, Body
  <2> QED BY <2>3, <2>4, <2>7, Zenon
<1> QED BY <1>1, <1>2, Zenon

\* What a commit leaves of the document: nothing, what was there, or its own rows.
LEMMA WriteRows ==
  ASSUME Inv, NEW r \in Runs, pc[r] = "commit", Write(r)
  PROVE  /\ cur[r] \in Paths /\ cur[r] \in todo[r]
         /\ tree[r][cur[r]] \in held[cur[r]] /\ Body(r) \in Bodies
         /\ \A p \in Paths : p # cur[r] => chunks'[p] = chunks[p]
         /\ \/ chunks'[cur[r]] = {} /\ Passages[Body(r)] = 0
            \/ chunks'[cur[r]] = chunks[cur[r]]
            \/ Passages[Body(r)] > 0 /\ chunks'[cur[r]] = NewRows(r, Body(r))
<1> USE DEF Inv, Order
<1>1. /\ cur[r] \in Paths /\ cur[r] \in todo[r]
      /\ tree[r][cur[r]] \in held[cur[r]] /\ Body(r) \in Bodies
  BY Zenon DEF InHand, Queue, Known, Working, Replacing, TypeOK, Body, Files
<1>2. /\ chunks'[cur[r]] = (chunks[cur[r]] \ snap[r]) \cup NewRows(r, Body(r))
      /\ \A p \in Paths : p # cur[r] => chunks'[p] = chunks[p]
  BY <1>1, Zenon DEF Write, TypeOK
<1>3. /\ Passages[Body(r)] = 0 \/ chunks[cur[r]] \subseteq snap[r]
      /\ chunks[cur[r]] \subseteq snap[r] \/ chunks[cur[r]] \cap snap[r] = {}
  BY Zenon DEF Checked, AllOrNone, Replacing, Body
<1>4. /\ Passages[Body(r)] \in Nat
      /\ Passages[Body(r)] = 0 => NewRows(r, Body(r)) = {}
  BY <1>1, Rows, Zenon
<1>5. CASE Passages[Body(r)] = 0
  BY <1>1, <1>2, <1>3, <1>4, <1>5, Zenon
<1>6. CASE Passages[Body(r)] # 0
  <2>1. Passages[Body(r)] > 0
    BY <1>4, <1>6
  <2>2. chunks'[cur[r]] = NewRows(r, Body(r))
    BY <1>2, <1>3, <1>6, Zenon
  <2> QED BY <1>1, <1>2, <2>1, <2>2, Zenon
<1> QED BY <1>5, <1>6, Zenon

LEMMA WriteOrder ==
  ASSUME Inv, TypeOK', NEW r \in Runs, pc[r] = "commit", Write(r)
  PROVE  Order'
<1> USE DEF Inv, Order
<1>1. /\ \A q \in Runs : pc'[q] = IF q = r THEN "file" ELSE pc[q]
      /\ \A q \in Runs : todo'[q] = IF q = r THEN todo[r] \ {cur[r]} ELSE todo[q]
      /\ \A q \in Runs : cur'[q] = IF q = r THEN 0 ELSE cur[q]
      /\ \A q \in Runs : snap'[q] = IF q = r THEN {} ELSE snap[q]
      /\ UNCHANGED <<bucket, held, tree>>
  BY Zenon DEF Write, Turn, TypeOK, world
<1>2. /\ cur[r] \in Paths /\ cur[r] \in todo[r]
      /\ tree[r][cur[r]] \in held[cur[r]] /\ Body(r) \in Bodies
      /\ \A p \in Paths : p # cur[r] => chunks'[p] = chunks[p]
      /\ \/ chunks'[cur[r]] = {}
         \/ chunks'[cur[r]] = chunks[cur[r]]
         \/ Passages[Body(r)] > 0 /\ chunks'[cur[r]] = NewRows(r, Body(r))
  BY WriteRows, Zenon
<1>3. \A row \in NewRows(r, Body(r)) : row[1] = r
  BY <1>2, Rows, Zenon
<1>4. InHand' /\ NoSnap'
  BY <1>1, ZenonT(60) DEF InHand, NoSnap, Working, Replacing
<1>5. Queue' /\ Known'
  BY <1>1 DEF Queue, Known, Working, Replacing
<1>6. Exclusive'
  BY <1>1, ZenonT(60) DEF Exclusive
<1>7. OneText'
  BY <1>1, <1>2 DEF OneText, Body
<1>8. \A q \in Runs : q # r /\ pc[q] \in Replacing => cur[q] \in Paths
  BY DEF InHand, Working, TypeOK
<1>9. \A q \in Runs : q # r /\ pc[q] \in Replacing /\ cur[q] = cur[r] =>
        \A row \in snap[q] : row[1] # r
  BY <1>2, ZenonT(60) DEF Authors, Wrote
<1>10. AllOrNone'
  <2> SUFFICES ASSUME NEW q \in Runs, pc'[q] \in Replacing
               PROVE  chunks'[cur'[q]] \subseteq snap'[q] \/ chunks'[cur'[q]] \cap snap'[q] = {}
    BY Zenon DEF AllOrNone
  <2>1. q # r /\ pc[q] \in Replacing /\ cur'[q] = cur[q] /\ snap'[q] = snap[q]
    BY <1>1, ZenonT(60) DEF Replacing
  <2>2. chunks[cur[q]] \subseteq snap[q] \/ chunks[cur[q]] \cap snap[q] = {}
    BY <2>1 DEF AllOrNone
  <2>3. CASE cur[q] # cur[r]
    BY <1>2, <1>8, <2>1, <2>2, <2>3, Zenon
  <2>4. CASE cur[q] = cur[r]
    BY <1>2, <1>3, <1>9, <2>1, <2>2, <2>4, ZenonT(60)
  <2> QED BY <2>3, <2>4
<1>11. Checked'
  <2> SUFFICES ASSUME NEW q \in Runs, pc'[q] = "commit"
               PROVE  \/ Passages[tree'[q][cur'[q]].body] = 0
                      \/ chunks'[cur'[q]] \subseteq snap'[q]
    BY Zenon DEF Checked
  <2>1. /\ q # r /\ pc[q] = "commit" /\ cur'[q] = cur[q] /\ snap'[q] = snap[q]
        /\ UNCHANGED tree
    BY <1>1, Zenon
  <2>2. cur[q] # cur[r] /\ cur[q] \in Paths
    BY <1>8, <2>1, Zenon DEF Exclusive, Replacing
  <2>3. chunks'[cur[q]] = chunks[cur[q]]
    BY <1>2, <2>2, Zenon
  <2> QED BY <2>1, <2>3, Zenon DEF Checked
<1>12. \A q \in Runs, p \in Paths : Wrote(q, p) \/ (q = r /\ p = cur[r]) => Wrote(q, p)'
  BY <1>1, Zenon DEF Wrote
<1>13. \A q \in Runs : pc'[q] \in Replacing =>
         /\ pc[q] \in Replacing /\ cur'[q] = cur[q] /\ snap'[q] = snap[q] /\ cur[q] \in Paths
  BY <1>1, <1>8 DEF Replacing
<1>14. Authors'
  <2>1. \A q \in Runs : \A p \in Paths : \A row \in chunks'[p] : row[1] = q => Wrote(q, p)'
    <3> SUFFICES ASSUME NEW q \in Runs, NEW p \in Paths, NEW row \in chunks'[p], row[1] = q
                 PROVE  Wrote(q, p)'
      BY Zenon
    <3>1. row \in chunks[p] \/ (p = cur[r] /\ q = r)
      BY <1>2, <1>3
    <3>2. row \in chunks[p] => Wrote(q, p)
      BY Zenon DEF Authors
    <3> QED BY <1>12, <3>1, <3>2, Zenon
  <2>2. ASSUME NEW s \in Runs, NEW q \in Runs, pc'[q] \in Replacing,
               NEW row \in snap'[q], row[1] = s
        PROVE  Wrote(s, cur[q])'
    <3>1. pc[q] \in Replacing /\ row \in snap[q] /\ cur'[q] = cur[q] /\ cur[q] \in Paths
      BY <1>13, <2>2, Zenon
    <3>2. Wrote(s, cur[q])
      BY <2>2, <3>1, Zenon DEF Authors
    <3> QED BY <1>1, <3>1, <3>2, Zenon DEF Wrote
  <2> QED BY <2>1, <2>2, Zenon DEF Authors
<1> QED BY <1>4, <1>5, <1>6, <1>7, <1>10, <1>11, <1>14, Zenon

LEMMA RunOrder ==
  ASSUME Inv, TypeOK', NEW r \in Runs, Start(r) \/ Step(r) \/ Failure(r)
  PROVE  Order'
<1>1. CASE Start(r)
  BY <1>1, StartOrder, Zenon
<1>2. CASE Download(r)
  BY <1>2, DownloadOrder, Zenon
<1>3. CASE StartIngest(r)
  BY <1>3, StartIngestOrder, Zenon
<1>4. CASE Finish(r)
  BY <1>4, EndOrder, Zenon DEF Finish, Active
<1>5. CASE RefuseFile(r)
  BY <1>5, TurnOrder, Zenon DEF RefuseFile
<1>6. CASE FetchExisting(r)
  BY <1>6, FetchOrder
<1>7. CASE InsertDocument(r)
  BY <1>7, InsertDocumentOrder
<1>8. CASE BeginDelete(r)
  BY <1>8, BeginDeleteOrder
<1>9. CASE DeleteChunks(r)
  BY <1>9, DeleteChunksOrder
<1>10. CASE UpdateDocument(r)
  BY <1>10, UpdateDocumentOrder
<1>11. CASE InsertChunks(r)
  BY <1>11, InsertChunksOrder
<1>12. CASE Commit(r)
  BY <1>12, WriteOrder, Zenon DEF Commit
<1>13. CASE CommitLost(r)
  BY <1>13, WriteOrder, Zenon DEF CommitLost
<1>14. CASE DbError(r)
  BY <1>14, TurnOrder, Zenon DEF DbError, RollBack, Working, Replacing
<1>15. CASE Deadlock(r)
  BY <1>15, TurnOrder, Zenon DEF Deadlock, RollBack, Working, Replacing
<1>16. CASE InitFails(r)
  BY <1>16, EndOrder, Zenon DEF InitFails, Active
<1>17. CASE Die(r)
  BY <1>17, EndOrder DEF Die
<1> QED BY <1>1, <1>2, <1>3, <1>4, <1>5, <1>6, <1>7, <1>8, <1>9, <1>10, <1>11, <1>12,
           <1>13, <1>14, <1>15, <1>16, <1>17, Zenon DEF Step, Failure

=============================================================================
