-------------------------- MODULE IngestRefinement --------------------------
(***************************************************************************)
(* The invariant of IngestProofs always holds, and Ingest implements       *)
(* Corpus: a commit publishes a text, an upload adds one, and no other     *)
(* step changes what a reader may find.  Then a row of documents and the   *)
(* passages beside it belong to one file (Told), and an execution that met *)
(* no other has indexed the files it is done with (SoloInv).               *)
(***************************************************************************)
EXTENDS IngestProofs

LEMMA InitInv == Init => Inv
<1> SUFFICES ASSUME Init PROVE Inv
  OBVIOUS
<1>1. /\ DOMAIN bucket \subseteq Paths
      /\ \A p \in DOMAIN bucket : bucket[p] \in Files
  BY FilesAssumption, Zenon DEF Init, FilesAssumption
<1>2. PICK D \in {{}, {p \in DOMAIN bucket : bucket[p].header \notin Refused}} :
        /\ docs = [p \in D |-> [hash |-> bucket[p].body, tier |-> bucket[p].header]]
        /\ chunks = [p \in Paths |-> IF p \in D THEN NewRows(Earlier, bucket[p].body) ELSE {}]
  BY DEF Init
<1>3. \A p \in D : /\ p \in DOMAIN bucket /\ p \in Paths /\ bucket[p] \in Files
                   /\ bucket[p].header \in Headers \ Refused /\ bucket[p].body \in Bodies
  BY <1>1, <1>2 DEF Files
<1>4. \A p \in DOMAIN docs : docs[p] \in [hash : Bodies, tier : Headers \ Refused]
  BY <1>2, <1>3
<1>5. chunks \in [Paths -> SUBSET Row]
  <2>1. \A p \in Paths : p \in D => NewRows(Earlier, bucket[p].body) \in SUBSET Row
    BY <1>3, Rows, Zenon
  <2> QED BY <1>2, <2>1
<1>6. held \in [Paths -> SUBSET Files]
  BY <1>1 DEF Init
<1>7. TypeOK
  BY <1>1, <1>2, <1>3, <1>4, <1>5, <1>6, BoundsAssumption
  DEF Init, TypeOK, Stages, BoundsAssumption
<1>8. InHand /\ Queue /\ AllOrNone /\ Checked /\ Exclusive /\ NoSnap
  BY Zenon DEF Init, InHand, Queue, AllOrNone, Checked, Exclusive, NoSnap, Working, Replacing
<1>9. Known
  BY <1>1, Zenon DEF Init, Known
<1>10. Authors
  <2>1. \A p \in Paths : \A row \in chunks[p] : row[1] = Earlier
    BY <1>2, <1>3, Rows, Zenon
  <2>2. Earlier \notin Runs
    BY FilesAssumption, Zenon DEF FilesAssumption
  <2> QED BY <2>1, <2>2 DEF Authors, Init, Replacing
<1>11. OneText
  <2> SUFFICES ASSUME NEW p \in Paths, p \in D
               PROVE  \/ chunks[p] = {}
                      \/ \E s \in Runs \cup {Earlier}, f \in held[p] :
                           Passages[f.body] > 0 /\ chunks[p] = NewRows(s, f.body)
    BY <1>2, Zenon DEF OneText
  <2>1. bucket[p] \in held[p] /\ chunks[p] = NewRows(Earlier, bucket[p].body)
    BY <1>1, <1>2, <1>3 DEF Init
  <2>2. /\ Passages[bucket[p].body] \in Nat
        /\ Passages[bucket[p].body] = 0 => NewRows(Earlier, bucket[p].body) = {}
    BY <1>3, Rows, Zenon
  <2> QED BY <2>1, <2>2
<1> QED BY <1>7, <1>8, <1>9, <1>10, <1>11, Zenon DEF Inv, Order

\* End, Turn and the moves of a statement keep the types; what they write is apart.
LEMMA EndType ==
  ASSUME TypeOK, NEW r \in Runs, NEW a \in 0 .. 2, NEW b \in 0 .. 2, End(r, a, b),
         faults' \in 0 .. MaxFaults
  PROVE  TypeOK'
<1>1. /\ DOMAIN tree' = Runs
      /\ \A q \in Runs : /\ DOMAIN tree'[q] \subseteq Paths
                         /\ \A p \in DOMAIN tree'[q] : tree'[q][p] \in Files
  BY Zenon DEF TypeOK, End
<1>2. /\ DOMAIN exit' \subseteq Runs
      /\ \A q \in DOMAIN exit' : exit'[q] \in [returned : 0 .. 2, status : 0 .. 2]
  BY DEF TypeOK, End
<1>3. solo' \in [Runs -> BOOLEAN]
  BY Zenon DEF TypeOK, End
<1>4. /\ pc' \in [Runs -> Stages] /\ todo' \in [Runs -> SUBSET Paths]
      /\ cur' \in [Runs -> Paths \cup {0}] /\ snap' \in [Runs -> SUBSET Row]
      /\ errors' \in [Runs -> Nat]
  BY Zenon DEF TypeOK, End, Stages
<1> QED BY <1>1, <1>2, <1>3, <1>4, Zenon DEF TypeOK, End, world

LEMMA TurnType ==
  ASSUME TypeOK, NEW r \in Runs, NEW p, Turn(r, p),
         errors' \in [Runs -> Nat], faults' \in 0 .. MaxFaults,
         chunks' \in [Paths -> SUBSET Row], DOMAIN docs' \subseteq Paths,
         \A q \in DOMAIN docs' : docs'[q] \in [hash : Bodies, tier : Headers \ Refused]
  PROVE  TypeOK'
<1>1. /\ pc' \in [Runs -> Stages] /\ todo' \in [Runs -> SUBSET Paths]
      /\ cur' \in [Runs -> Paths \cup {0}] /\ snap' \in [Runs -> SUBSET Row]
  BY Zenon DEF TypeOK, Turn, Stages
<1> QED BY <1>1, Zenon DEF TypeOK, Turn, world

LEMMA MoveType ==
  ASSUME TypeOK, NEW r \in Runs, NEW to \in Stages, pc' = [pc EXCEPT ![r] = to],
         cur' \in [Runs -> Paths \cup {0}], snap' \in [Runs -> SUBSET Row],
         UNCHANGED <<world, docs, chunks, tree, todo, errors, exit, solo, faults>>
  PROVE  TypeOK'
<1>1. pc' \in [Runs -> Stages]
  BY Zenon DEF TypeOK
<1> QED BY <1>1, Zenon DEF TypeOK, world

LEMMA RollBackType ==
  ASSUME TypeOK, NEW r \in Runs, RollBack(r), faults' \in 0 .. MaxFaults
  PROVE  TypeOK'
<1>1. errors' \in [Runs -> Nat]
  BY DEF RollBack, TypeOK
<1>2. UNCHANGED <<docs, chunks>> /\ Turn(r, cur[r])
  BY Zenon DEF RollBack
<1> QED BY <1>1, <1>2, TurnType, Zenon DEF TypeOK

LEMMA WriteType ==
  ASSUME Inv, NEW r \in Runs, pc[r] = "commit", Write(r),
         errors' \in [Runs -> Nat], faults' \in 0 .. MaxFaults
  PROVE  TypeOK'
<1> USE DEF Inv, Order
<1>1. /\ cur[r] \in Paths /\ Body(r) \in Bodies /\ Header(r) \in Headers \ Refused
  BY DEF InHand, Queue, Working, Replacing, TypeOK, Body, Header, Files
<1>2. NewRows(r, Body(r)) \subseteq Row
  BY <1>1, Rows, Zenon
<1>3. chunks' \in [Paths -> SUBSET Row]
  BY <1>1, <1>2, Zenon DEF Write, TypeOK
<1>4. /\ DOMAIN docs' \subseteq Paths
      /\ \A q \in DOMAIN docs' : docs'[q] \in [hash : Bodies, tier : Headers \ Refused]
  BY <1>1, Zenon DEF Write, TypeOK
<1>5. Turn(r, cur[r])
  BY Zenon DEF Write
<1> QED BY <1>3, <1>4, <1>5, TurnType, Zenon

LEMMA Spent == ASSUME TypeOK, faults < MaxFaults, faults' = faults + 1
               PROVE  faults' \in 0 .. MaxFaults
  BY BoundsAssumption DEF TypeOK, BoundsAssumption

\* Every step of an execution keeps the types.
LEMMA RunType ==
  ASSUME Inv, NEW r \in Runs, Start(r) \/ Step(r) \/ Failure(r)
  PROVE  TypeOK'
<1>t. TypeOK
  BY Zenon DEF Inv
<1>e. errors \in [Runs -> Nat] /\ faults \in 0 .. MaxFaults
  BY <1>t, Zenon DEF TypeOK
<1>s. /\ cur \in [Runs -> Paths \cup {0}] /\ snap \in [Runs -> SUBSET Row]
      /\ {"deleting", "deleted", "inserting", "commit"} \subseteq Stages
  BY <1>t, Zenon DEF TypeOK, Stages
<1>c. pc[r] \in Working => cur[r] \in Paths
  BY DEF Inv, Order, InHand, TypeOK
<1>1. CASE Start(r)
  <2>1. solo' \in [Runs -> BOOLEAN]
    BY <1>1, <1>t, Zenon DEF Start, TypeOK
  <2>2. pc' \in [Runs -> Stages] /\ todo' \in [Runs -> SUBSET Paths]
    BY <1>1, <1>t, Zenon DEF Start, TypeOK, Stages
  <2> QED BY <1>1, <1>t, <2>1, <2>2, Zenon DEF Start, TypeOK, world
<1>2. CASE Download(r)
  <2>1. PICK p \in todo[r] :
          /\ tree' = [tree EXCEPT ![r] =
               [q \in DOMAIN tree[r] \cup {p} |-> IF q = p THEN bucket[p] ELSE tree[r][q]]]
          /\ todo' = [todo EXCEPT ![r] = @ \ {p}]
    BY <1>2, Zenon DEF Download
  <2>2. p \in Paths /\ bucket[p] \in Files
    BY <1>2, <1>t, Zenon DEF Download, Inv, Order, Queue, TypeOK
  <2>3. /\ DOMAIN tree' = Runs
        /\ \A q \in Runs : /\ DOMAIN tree'[q] \subseteq Paths
                           /\ \A x \in DOMAIN tree'[q] : tree'[q][x] \in Files
    BY <1>t, <2>1, <2>2, Zenon DEF TypeOK
  <2>4. todo' \in [Runs -> SUBSET Paths]
    BY <1>t, <2>1, Zenon DEF TypeOK
  <2> QED BY <1>2, <1>t, <2>3, <2>4, Zenon DEF Download, TypeOK, world
<1>3. CASE StartIngest(r)
  <2>1. pc' \in [Runs -> Stages] /\ todo' \in [Runs -> SUBSET Paths]
    BY <1>3, <1>t, Zenon DEF StartIngest, TypeOK, Stages
  <2> QED BY <1>3, <1>t, <2>1, Zenon DEF StartIngest, TypeOK, world
<1>4. CASE Finish(r)
  BY <1>4, <1>t, <1>e, EndType DEF Finish, ExitStatus
<1>5. CASE RefuseFile(r)
  <2>1. errors' \in [Runs -> Nat] /\ UNCHANGED <<docs, chunks, faults>>
    BY <1>5, <1>e DEF RefuseFile
  <2>2. PICK p \in Paths : Turn(r, p)
    BY <1>5, Zenon DEF RefuseFile
  <2> QED BY <1>t, <1>e, <2>1, <2>2, TurnType, Zenon DEF TypeOK
<1>6. CASE FetchExisting(r)
  <2>1. UNCHANGED <<docs, chunks, errors, faults>>
    BY <1>6 DEF FetchExisting
  <2>2. PICK p \in Paths :
          \/ Turn(r, p)
          \/ /\ cur' = [cur EXCEPT ![r] = p]
             /\ pc' = [pc EXCEPT ![r] = IF p \in DOMAIN docs THEN "present" ELSE "absent"]
             /\ UNCHANGED <<world, tree, todo, snap, exit, solo>>
    BY <1>6, Zenon DEF FetchExisting
  <2>3. CASE Turn(r, p)
    BY <1>t, <2>1, <2>3, TurnType, Zenon DEF TypeOK
  <2>4. CASE /\ cur' = [cur EXCEPT ![r] = p]
             /\ pc' = [pc EXCEPT ![r] = IF p \in DOMAIN docs THEN "present" ELSE "absent"]
             /\ UNCHANGED <<world, tree, todo, snap, exit, solo>>
    <3>1. cur' \in [Runs -> Paths \cup {0}] /\ snap' \in [Runs -> SUBSET Row]
      BY <1>t, <2>4, Zenon DEF TypeOK
    <3>2. (IF p \in DOMAIN docs THEN "present" ELSE "absent") \in Stages
      BY DEF Stages
    <3> QED BY <1>t, <2>1, <2>4, <3>1, <3>2, MoveType, ZenonT(30)
  <2> QED BY <2>2, <2>3, <2>4, Zenon
<1>7. CASE InsertDocument(r)
  <2>1. CASE cur[r] \in DOMAIN docs
    <3>1. RollBack(r) /\ UNCHANGED faults
      BY <1>7, <2>1 DEF InsertDocument
    <3> QED BY <1>t, <1>e, <3>1, RollBackType, Zenon
  <2>2. CASE cur[r] \notin DOMAIN docs
    <3>1. /\ pc' = [pc EXCEPT ![r] = "inserting"]
          /\ UNCHANGED <<world, docs, chunks, tree, todo, cur, snap, errors, exit, solo, faults>>
      BY <1>7, <2>2 DEF InsertDocument
    <3> QED BY <1>t, <1>s, <3>1, MoveType, Zenon
  <2> QED BY <2>1, <2>2, Zenon
<1>8. CASE BeginDelete(r)
  <2>1. /\ pc' = [pc EXCEPT ![r] = "deleting"] /\ snap' = [snap EXCEPT ![r] = chunks[cur[r]]]
        /\ UNCHANGED <<world, docs, chunks, tree, todo, cur, errors, exit, solo, faults>>
    BY <1>8, Zenon DEF BeginDelete
  <2>2. chunks[cur[r]] \in SUBSET Row
    BY <1>8, <1>t, <1>c, Zenon DEF BeginDelete, TypeOK, Working
  <2>3. snap' \in [Runs -> SUBSET Row]
    BY <1>s, <2>1, <2>2
  <2> QED BY <1>t, <1>s, <2>1, <2>3, MoveType, Zenon
<1>9. CASE DeleteChunks(r)
  <2>1. /\ pc' = [pc EXCEPT ![r] = "deleted"]
        /\ snap' = [snap EXCEPT ![r] = @ \cap chunks[cur[r]]]
        /\ UNCHANGED <<world, docs, chunks, tree, todo, cur, errors, exit, solo, faults>>
    BY <1>9, Zenon DEF DeleteChunks
  <2>2. snap' \in [Runs -> SUBSET Row]
    BY <1>s, <2>1, Zenon
  <2> QED BY <1>t, <1>s, <2>1, <2>2, MoveType, Zenon
<1>10. CASE UpdateDocument(r)
  <2>1. /\ pc' = [pc EXCEPT ![r] = "inserting"]
        /\ UNCHANGED <<world, docs, chunks, tree, todo, cur, snap, errors, exit, solo, faults>>
    BY <1>10, Zenon DEF UpdateDocument
  <2> QED BY <1>t, <1>s, <2>1, MoveType, Zenon
<1>11. CASE InsertChunks(r)
  <2>1. CASE \E row \in chunks[cur[r]] \ snap[r] : row[3] \in Ords(Body(r))
    <3>1. RollBack(r) /\ UNCHANGED faults
      BY <1>11, <2>1 DEF InsertChunks
    <3> QED BY <1>t, <1>e, <3>1, RollBackType
  <2>2. CASE ~\E row \in chunks[cur[r]] \ snap[r] : row[3] \in Ords(Body(r))
    <3>1. /\ pc' = [pc EXCEPT ![r] = "commit"]
          /\ UNCHANGED <<world, docs, chunks, tree, todo, cur, snap, errors, exit, solo, faults>>
      BY <1>11, <2>2, Zenon DEF InsertChunks
    <3> QED BY <1>t, <1>s, <3>1, MoveType, Zenon
  <2> QED BY <2>1, <2>2, Zenon
<1>12. CASE Commit(r)
  BY <1>12, <1>e, WriteType, Zenon DEF Commit
<1>13. CASE CommitLost(r)
  <2>1. errors' \in [Runs -> Nat]
    BY <1>13, <1>e DEF CommitLost
  <2> QED BY <1>13, <1>t, <2>1, Spent, WriteType, Zenon DEF CommitLost
<1>14. CASE DbError(r)
  BY <1>14, <1>t, Spent, RollBackType, Zenon DEF DbError
<1>15. CASE Deadlock(r)
  BY <1>15, <1>t, <1>e, RollBackType, Zenon DEF Deadlock
<1>16. CASE InitFails(r)
  BY <1>16, <1>t, Spent, EndType DEF InitFails, ExitStatus
<1>17. CASE Die(r)
  BY <1>17, <1>t, Spent, EndType DEF Die
<1> QED BY <1>1, <1>2, <1>3, <1>4, <1>5, <1>6, <1>7, <1>8, <1>9, <1>10, <1>11, <1>12,
           <1>13, <1>14, <1>15, <1>16, <1>17, Zenon DEF Step, Failure

LEMMA UploadType ==
  ASSUME TypeOK, NEW p \in Paths, NEW f \in Files, Upload(p, f)
  PROVE  TypeOK'
<1>1. /\ DOMAIN bucket' \subseteq Paths
      /\ \A q \in DOMAIN bucket' : bucket'[q] \in Files
      /\ held' \in [Paths -> SUBSET Files]
  BY Zenon DEF Upload, TypeOK
<1>2. edits' \in 0 .. MaxEdits
  BY BoundsAssumption DEF Upload, TypeOK, BoundsAssumption
<1> QED BY <1>1, <1>2, Zenon DEF Upload, TypeOK, job

LEMMA Unmoved == ASSUME Inv, UNCHANGED vars PROVE Inv'
<1>1. TypeOK'
  BY Zenon DEF Inv, TypeOK, vars
<1>2. InHand' /\ Queue' /\ Known' /\ Checked'
  BY Zenon DEF Inv, Order, InHand, Queue, Known, Checked, vars
<1>3. Authors' /\ OneText' /\ AllOrNone' /\ Exclusive' /\ NoSnap'
  BY ZenonT(60) DEF Inv, Order, Authors, Wrote, OneText, AllOrNone, Exclusive, NoSnap, vars
<1> QED BY <1>1, <1>2, <1>3, Zenon DEF Inv, Order

LEMMA Uploaded == ASSUME NEW u \in Uploads PROVE u[1] \in Paths /\ u[2] \in Files
  BY FilesAssumption, Zenon DEF FilesAssumption

LEMMA StepInv == Inv /\ [Next]_vars => Inv'
<1> SUFFICES ASSUME Inv, [Next]_vars PROVE Inv'
  OBVIOUS
<1>1. CASE UNCHANGED vars
  BY <1>1, Unmoved, Zenon
<1>2. ASSUME NEW u \in Uploads, Upload(u[1], u[2])
      PROVE  Inv'
  BY <1>2, Uploaded, UploadType, UploadOrder, Zenon DEF Inv
<1>3. ASSUME NEW r \in Runs, Start(r) \/ Step(r) \/ Failure(r)
      PROVE  Inv'
  BY <1>3, RunType, RunOrder DEF Inv
<1> QED BY <1>1, <1>2, <1>3, Zenon DEF Next

LEMMA InvAlways == Spec => []Inv
<1> QED BY InitInv, StepInv, PTL DEF Spec

\* The variables keep their types, for every number of executions: among them, that
\* no row of documents has a tier that parse_frontmatter refuses.
THEOREM IngestTypes == Spec => []TypeOK
<1>1. Inv => TypeOK
  BY Zenon DEF Inv
<1> QED BY <1>1, InvAlways, PTL

-----------------------------------------------------------------------------
\* Rows as a reader sees them: the text and the place of each passage.
View(s) == {<<row[2], row[3]>> : row \in s}

LEMMA ViewRows ==
  ASSUME NEW s \in Runs \cup {Earlier}, NEW b \in Bodies
  PROVE  View(NewRows(s, b)) = C!Split(b)
<1>1. \A o : <<s, b, o>>[2] = b /\ <<s, b, o>>[3] = o
  BY Zenon
<1>2. ASSUME NEW x \in View(NewRows(s, b))
      PROVE  x \in C!Split(b)
  <2>1. PICK o \in Ords(b) : x = <<<<s, b, o>>[2], <<s, b, o>>[3]>>
    BY <1>2, Zenon DEF View, NewRows
  <2> QED BY <1>1, <2>1, Zenon DEF Ords, C!Split
<1>3. ASSUME NEW x \in C!Split(b)
      PROVE  x \in View(NewRows(s, b))
  <2>1. PICK o \in Ords(b) : x = <<b, o>>
    BY <1>3, Zenon DEF Ords, C!Split
  <2>2. <<s, b, o>> \in NewRows(s, b)
    BY DEF NewRows
  <2>3. x = <<<<s, b, o>>[2], <<s, b, o>>[3]>>
    BY <1>1, <2>1, Zenon
  <2> QED BY <2>2, <2>3, Zenon DEF View
<1> QED BY <1>2, <1>3

LEMMA ViewNone == ASSUME NEW b \in Bodies, Passages[b] = 0 PROVE C!Split(b) = {}
<1>1. 0 .. Passages[b] - 1 = {}
  OBVIOUS
<1> QED BY <1>1 DEF C!Split

LEMMA RefinesInit == ASSUME Inv PROVE C!CorpusInit
<1> DEFINE H == [p \in Paths |-> {f.body : f \in held[p]}]
           I == [p \in Paths |-> {<<row[2], row[3]>> : row \in chunks[p]}]
<1>1. held \in [Paths -> SUBSET Files] /\ OneText
  BY DEF Inv, Order, TypeOK
<1>2. H \in [Paths -> SUBSET Bodies]
  BY <1>1 DEF Files
<1>3. ASSUME NEW p \in Paths
      PROVE  I[p] = {} \/ \E b \in H[p] : I[p] = C!Split(b)
  <2>1. CASE chunks[p] = {}
    BY <2>1, Zenon
  <2>2. CASE chunks[p] # {}
    <3>1. PICK s \in Runs \cup {Earlier}, f \in held[p] : chunks[p] = NewRows(s, f.body)
      BY <1>1, <2>2, Zenon DEF OneText
    <3>2. f.body \in Bodies /\ f.body \in H[p]
      BY <1>1 DEF Files
    <3>3. I[p] = View(chunks[p])
      BY Zenon DEF View
    <3>4. I[p] = C!Split(f.body)
      BY <3>1, <3>2, <3>3, ViewRows, Zenon
    <3> QED BY <3>2, <3>4, Zenon
  <2> QED BY <2>1, <2>2, Zenon
<1> QED BY <1>2, <1>3, Zenon DEF C!CorpusInit

LEMMA RefinesUpload ==
  ASSUME Inv, NEW p \in Paths, NEW f \in Files, Upload(p, f)
  PROVE  C!Edit(p, f.body)
<1> DEFINE H == [q \in Paths |-> {g.body : g \in held[q]}]
           G == [q \in Paths |-> {g.body : g \in held'[q]}]
<1>1. held \in [Paths -> SUBSET Files] /\ held' = [held EXCEPT ![p] = @ \cup {f}]
  BY Zenon DEF Inv, TypeOK, Upload
<1>2. \A q \in Paths : G[q] = IF q = p THEN H[p] \cup {f.body} ELSE H[q]
  BY <1>1
<1>3. G = [H EXCEPT ![p] = @ \cup {f.body}]
  BY <1>2, Zenon
<1>4. UNCHANGED chunks
  BY Zenon DEF Upload
<1> QED BY <1>3, <1>4, Zenon DEF C!Edit

LEMMA RefinesWrite ==
  ASSUME Inv, NEW r \in Runs, pc[r] = "commit", Write(r)
  PROVE  \/ \E p \in Paths, b \in Bodies : C!Publish(p, b)
         \/ UNCHANGED C!corpusVars
<1> DEFINE H == [q \in Paths |-> {g.body : g \in held[q]}]
           I == [q \in Paths |-> {<<row[2], row[3]>> : row \in chunks[q]}]
           J == [q \in Paths |-> {<<row[2], row[3]>> : row \in chunks'[q]}]
<1>1. /\ cur[r] \in Paths /\ tree[r][cur[r]] \in held[cur[r]] /\ Body(r) \in Bodies
      /\ \A p \in Paths : p # cur[r] => chunks'[p] = chunks[p]
      /\ \/ chunks'[cur[r]] = {} /\ Passages[Body(r)] = 0
         \/ chunks'[cur[r]] = chunks[cur[r]]
         \/ chunks'[cur[r]] = NewRows(r, Body(r))
  BY WriteRows, Zenon
<1>2. UNCHANGED held
  BY Zenon DEF Write, Turn, world
<1>3. \A q \in Paths : q # cur[r] => J[q] = I[q]
  BY <1>1, Zenon
<1>4. CASE chunks'[cur[r]] = chunks[cur[r]]
  <2>1. \A q \in Paths : J[q] = I[q]
    BY <1>3, <1>4, Zenon
  <2>2. J = I
    BY <2>1
  <2> QED BY <1>2, <2>2, Zenon DEF C!corpusVars
<1>5. CASE chunks'[cur[r]] # chunks[cur[r]]
  <2>1. View(chunks'[cur[r]]) = C!Split(Body(r))
    <3>1. View({}) = {}
      BY Zenon DEF View
    <3> QED BY <1>1, <1>5, <3>1, ViewNone, ViewRows, Zenon
  <2>2. J[cur[r]] = C!Split(Body(r))
    BY <1>1, <2>1 DEF View
  <2>3. J = [I EXCEPT ![cur[r]] = C!Split(Body(r))]
    BY <1>1, <1>3, <2>2, Zenon
  <2>4. Body(r) \in H[cur[r]]
    BY <1>1, Zenon DEF Body
  <2>5. PICK p \in Paths, b \in Bodies : p = cur[r] /\ b = Body(r)
    BY <1>1
  <2>6. b \in H[p] /\ J = [I EXCEPT ![p] = C!Split(b)]
    BY <2>3, <2>4, <2>5, Zenon
  <2>7. C!Publish(p, b)
    BY <1>2, <2>6, Zenon DEF C!Publish
  <2> QED BY <2>7
<1> QED BY <1>4, <1>5, Zenon

\* What an execution does short of a commit is not seen.
LEMMA NotSeen ==
  ASSUME NEW r \in Runs, Start(r) \/ Step(r) \/ Failure(r), ~Commit(r), ~CommitLost(r)
  PROVE  UNCHANGED <<held, docs, chunks>>
<1>1. CASE Start(r) \/ Download(r) \/ StartIngest(r)
  BY <1>1, Zenon DEF Start, Download, StartIngest, world
<1>2. CASE Finish(r) \/ InitFails(r) \/ Die(r)
  BY <1>2, ZenonT(30) DEF Finish, InitFails, Die, End, world
<1>3. CASE RefuseFile(r) \/ FetchExisting(r)
  BY <1>3, ZenonT(30) DEF RefuseFile, FetchExisting, Turn, world
<1>4. CASE InsertDocument(r) \/ InsertChunks(r) \/ DbError(r) \/ Deadlock(r)
  BY <1>4, Zenon DEF InsertDocument, InsertChunks, DbError, Deadlock, RollBack, Turn, world
<1>5. CASE BeginDelete(r) \/ DeleteChunks(r) \/ UpdateDocument(r)
  BY <1>5, Zenon DEF BeginDelete, DeleteChunks, UpdateDocument, world
<1> QED BY <1>1, <1>2, <1>3, <1>4, <1>5 DEF Step, Failure

LEMMA RefinesNext == Inv /\ [Next]_vars => [C!CorpusNext]_(C!corpusVars)
<1> SUFFICES ASSUME Inv, [Next]_vars
             PROVE  C!CorpusNext \/ UNCHANGED C!corpusVars
  BY Zenon
<1>1. CASE UNCHANGED vars
  BY <1>1, Zenon DEF vars, C!corpusVars
<1>2. ASSUME NEW u \in Uploads, Upload(u[1], u[2])
      PROVE  C!CorpusNext
  <2>1. u[1] \in Paths /\ u[2] \in Files /\ u[2].body \in Bodies
    BY Uploaded DEF Files
  <2>2. C!Edit(u[1], u[2].body)
    BY <1>2, <2>1, RefinesUpload, Zenon
  <2> QED BY <2>1, <2>2, Zenon DEF C!CorpusNext
<1>3. ASSUME NEW r \in Runs, Commit(r) \/ CommitLost(r)
      PROVE  C!CorpusNext \/ UNCHANGED C!corpusVars
  <2>1. pc[r] = "commit" /\ Write(r)
    BY <1>3 DEF Commit, CommitLost
  <2> QED BY <2>1, RefinesWrite, Zenon DEF C!CorpusNext
<1>4. ASSUME NEW r \in Runs, Start(r) \/ Step(r) \/ Failure(r)
      PROVE  C!CorpusNext \/ UNCHANGED C!corpusVars
  <2>1. CASE ~Commit(r) /\ ~CommitLost(r)
    BY <1>4, <2>1, NotSeen, Zenon DEF C!corpusVars
  <2> QED BY <1>3, <2>1
<1> QED BY <1>1, <1>2, <1>4 DEF Next

\* Ingestion publishes whole texts (repository.py's two transactions): readers find
\* all the passages of one text the file has had, or none, whatever number of
\* executions overlap, deadlock, fail or are killed, and whatever is uploaded.
THEOREM CorpusRefinement == Spec => ImplementsCorpus
<1>1. Init => C!CorpusInit
  BY InitInv, RefinesInit
<1>2. Inv /\ [Next]_vars => [C!CorpusNext]_(C!corpusVars)
  BY RefinesNext
<1> QED BY <1>1, <1>2, InvAlways, PTL DEF Spec, ImplementsCorpus, C!CorpusSpec

-----------------------------------------------------------------------------
(* Rows of documents and passages belong together. *)

\* A row of documents tells the text and the tier of one file the path has had;
\* unless that text is empty, the passages are those of the text.
Told ==
  \A p \in DOMAIN docs :
    /\ \E f \in held[p] : f.body = docs[p].hash /\ f.header = docs[p].tier
    /\ Passages[docs[p].hash] > 0 =>
         \E s \in Runs \cup {Earlier} : chunks[p] = NewRows(s, docs[p].hash)

LEMMA InitTold == Init => Told
<1> SUFFICES ASSUME Init, NEW p \in DOMAIN docs
             PROVE  /\ \E f \in held[p] : f.body = docs[p].hash /\ f.header = docs[p].tier
                    /\ \E s \in Runs \cup {Earlier} : chunks[p] = NewRows(s, docs[p].hash)
  BY DEF Told
<1>1. PICK D \in {{}, {q \in DOMAIN bucket : bucket[q].header \notin Refused}} :
        /\ docs = [q \in D |-> [hash |-> bucket[q].body, tier |-> bucket[q].header]]
        /\ chunks = [q \in Paths |-> IF q \in D THEN NewRows(Earlier, bucket[q].body) ELSE {}]
  BY Zenon DEF Init
<1>2. p \in D /\ p \in DOMAIN bucket
  BY <1>1
<1>3. p \in Paths
  BY <1>2, FilesAssumption DEF Init, FilesAssumption
<1>4. docs[p].hash = bucket[p].body /\ docs[p].tier = bucket[p].header
  BY <1>1, <1>2
<1>5. bucket[p] \in held[p]
  BY <1>2, <1>3 DEF Init
<1>6. chunks[p] = NewRows(Earlier, bucket[p].body)
  BY <1>1, <1>2, <1>3
<1> QED BY <1>4, <1>5, <1>6, Zenon

\* A commit writes the row and the passages of the file in hand.
LEMMA WriteTells ==
  ASSUME Inv, Told, NEW r \in Runs, pc[r] = "commit", Write(r)
  PROVE  Told'
<1>1. /\ cur[r] \in Paths /\ tree[r][cur[r]] \in held[cur[r]] /\ Body(r) \in Bodies
      /\ \A p \in Paths : p # cur[r] => chunks'[p] = chunks[p]
  BY WriteRows, Zenon
<1>2. /\ DOMAIN docs' = DOMAIN docs \cup {cur[r]}
      /\ docs'[cur[r]].hash = Body(r) /\ docs'[cur[r]].tier = Header(r)
      /\ \A p \in DOMAIN docs : p # cur[r] => docs'[p] = docs[p]
      /\ UNCHANGED held
  BY DEF Write, Turn, world
<1>3. Passages[Body(r)] > 0 => chunks'[cur[r]] = NewRows(r, Body(r))
  <2>1. chunks'[cur[r]] = (chunks[cur[r]] \ snap[r]) \cup NewRows(r, Body(r))
    BY <1>1, Zenon DEF Write, Inv, TypeOK
  <2>2. Passages[Body(r)] > 0 => chunks[cur[r]] \subseteq snap[r]
    BY DEF Inv, Order, Checked, Body
  <2> QED BY <2>1, <2>2, Zenon
<1>4. DOMAIN docs \subseteq Paths
  BY DEF Inv, TypeOK
<1> SUFFICES ASSUME NEW p \in DOMAIN docs'
             PROVE  /\ \E f \in held'[p] : f.body = docs'[p].hash /\ f.header = docs'[p].tier
                    /\ Passages[docs'[p].hash] > 0 =>
                         \E s \in Runs \cup {Earlier} : chunks'[p] = NewRows(s, docs'[p].hash)
  BY Zenon DEF Told
<1>5. CASE p = cur[r]
  BY <1>1, <1>2, <1>3, <1>5, Zenon DEF Body, Header
<1>6. CASE p # cur[r]
  <2>1. p \in DOMAIN docs /\ docs'[p] = docs[p] /\ chunks'[p] = chunks[p] /\ held' = held
    BY <1>1, <1>2, <1>4, <1>6, Zenon
  <2> QED BY <2>1, Zenon DEF Told
<1> QED BY <1>5, <1>6

LEMMA ToldStep == Inv /\ Told /\ [Next]_vars => Told'
<1> SUFFICES ASSUME Inv, Told, [Next]_vars PROVE Told'
  OBVIOUS
<1>1. CASE UNCHANGED vars
  BY <1>1, Zenon DEF Told, vars
<1>2. ASSUME NEW u \in Uploads, Upload(u[1], u[2])
      PROVE  Told'
  <2>1. /\ UNCHANGED <<docs, chunks>>
        /\ \A p \in Paths : held[p] \subseteq held'[p]
    BY <1>2, Uploaded, Zenon DEF Upload, Inv, TypeOK
  <2>2. DOMAIN docs \subseteq Paths
    BY Zenon DEF Inv, TypeOK
  <2> QED BY <2>1, <2>2, Zenon DEF Told
<1>3. ASSUME NEW r \in Runs, Start(r) \/ Step(r) \/ Failure(r)
      PROVE  Told'
  <2>1. CASE Commit(r) \/ CommitLost(r)
    BY <2>1, WriteTells, Zenon DEF Commit, CommitLost
  <2>2. CASE ~Commit(r) /\ ~CommitLost(r)
    BY <1>3, <2>2, NotSeen, Zenon DEF Told
  <2> QED BY <2>1, <2>2
<1> QED BY <1>1, <1>2, <1>3, Zenon DEF Next

LEMMA ToldAlways == Spec => []Told
<1> QED BY InitTold, ToldStep, InvAlways, PTL DEF Spec

\* A reader finds a passage only when its author gave that text a tier the reader
\* may see (retrieval's join and filter over what repository.py commits), for every
\* number of executions, files and uploads.
THEOREM TiersFollowTexts == Spec => []TierFollowsText
<1>1. Inv /\ Told => TierFollowsText
  <2> SUFFICES ASSUME Inv, Told, NEW u \in Users, NEW hit \in Visible(u)
               PROVE  \/ Passages[docs[hit[1]].hash] = 0
                      \/ \E f \in held[hit[1]] : f.body = hit[2][2] /\ f.header \in Allowed[u]
    BY Zenon DEF TierFollowsText
  <2>1. hit \in Search /\ docs[hit[1]].tier \in Allowed[u]
    BY DEF Visible
  <2>2. PICK p \in DOMAIN docs : hit \in {p} \X chunks[p]
    BY <2>1 DEF Search
  <2>3. hit[1] = p /\ hit[2] \in chunks[p]
    BY <2>2
  <2>4. PICK f \in held[p] : f.body = docs[p].hash /\ f.header = docs[p].tier
    BY DEF Told
  <2>5. docs[p].hash \in Bodies
    BY DEF Inv, TypeOK
  <2>6. CASE Passages[docs[p].hash] = 0
    BY <2>3, <2>6
  <2>7. CASE Passages[docs[p].hash] # 0
    <3>1. Passages[docs[p].hash] > 0
      BY <2>5, <2>7, PassagesAssumption DEF PassagesAssumption
    <3>2. PICK s \in Runs \cup {Earlier} : chunks[p] = NewRows(s, docs[p].hash)
      BY <3>1 DEF Told
    <3>3. hit[2][2] = docs[p].hash
      BY <2>3, <3>2 DEF NewRows
    <3> QED BY <2>1, <2>3, <2>4, <3>3
  <2> QED BY <2>6, <2>7
<1> QED BY <1>1, InvAlways, ToldAlways, PTL

-----------------------------------------------------------------------------
(* An execution that meets no other. *)

Alone == \A r \in Runs : (Active(r) /\ solo[r]) => \A q \in Runs \ {r} : ~Active(q)

\* Without an error so far, the files it is done with are indexed.
Done(r) ==
  (pc[r] \in Working \cup {"file"} /\ solo[r] /\ errors[r] = 0) =>
    \A p \in DOMAIN tree[r] \ todo[r] : Indexed(p, tree[r][p].body)

SoloInv == Told /\ Alone /\ \A r \in Runs : Done(r)

\* The row of a text, together with its passages, is what Indexed asks for.
LEMMA RowsIndexed ==
  ASSUME NEW s \in Runs \cup {Earlier}, NEW b \in Bodies
  PROVE  {<<row[2], row[3]>> : row \in NewRows(s, b)} = C!Split(b)
  BY ViewRows DEF View

\* A row with the hash of a text tells that the text is indexed.
LEMMA ToldIndexed ==
  ASSUME Inv, Told, NEW p \in DOMAIN docs
  PROVE  Indexed(p, docs[p].hash)
<1>1. docs[p].hash \in Bodies
  BY DEF Inv, TypeOK
<1>2. Passages[docs[p].hash] = 0 \/ Passages[docs[p].hash] > 0
  BY <1>1, PassagesAssumption DEF PassagesAssumption
<1>3. CASE Passages[docs[p].hash] > 0
  <2>1. PICK s \in Runs \cup {Earlier} : chunks[p] = NewRows(s, docs[p].hash)
    BY <1>3, Zenon DEF Told
  <2>2. {<<row[2], row[3]>> : row \in chunks[p]} = C!Split(docs[p].hash)
    BY <1>1, <2>1, RowsIndexed
  <2> QED BY <2>2, Zenon DEF Indexed
<1> QED BY <1>2, <1>3 DEF Indexed

\* Only r moves: it was active, or it starts and the others are told.
LEMMA AloneStep ==
  ASSUME Inv, Alone, NEW r \in Runs,
         \A q \in Runs \ {r} : pc'[q] = pc[q],
         \/ Start(r)
         \/ Active(r) /\ UNCHANGED solo
         \/ Active(r) /\ solo' = [solo EXCEPT ![r] = TRUE] /\ pc'[r] = "ended"
  PROVE  /\ Alone'
         /\ \A q \in Runs \ {r} : ~(Active(q)' /\ solo'[q])
<1>0. solo \in [Runs -> BOOLEAN] /\ pc \in [Runs -> Stages]
  BY Zenon DEF Inv, TypeOK
<1>1. \A q \in Runs \ {r} : Active(q)' <=> Active(q)
  BY Zenon DEF Active
<1>2. CASE Start(r)
  <2>1. \A q \in Runs : solo'[q] = IF q = r THEN \A s \in Runs : ~Active(s)
                                            ELSE solo[q] /\ ~Active(q)
    BY <1>2, Zenon DEF Start
  <2>2. \A q \in Runs \ {r} : ~(Active(q)' /\ solo'[q])
    BY <1>1, <2>1, Zenon
  <2>3. solo'[r] => \A q \in Runs \ {r} : ~Active(q)'
    BY <1>1, <2>1, Zenon
  <2> QED BY <2>2, <2>3, Zenon DEF Alone
<1>3. CASE Active(r) /\ (\A q \in Runs \ {r} : solo'[q] = solo[q])
           /\ (solo'[r] = solo[r] \/ pc'[r] = "ended")
  <2>1. \A q \in Runs \ {r} : ~(Active(q)' /\ solo'[q])
    BY <1>1, <1>3, Zenon DEF Alone
  <2>2. (Active(r)' /\ solo'[r]) => \A q \in Runs \ {r} : ~Active(q)'
    BY <1>1, <1>3, Zenon DEF Alone, Active
  <2> QED BY <2>1, <2>2, Zenon DEF Alone
<1> QED BY <1>0, <1>2, <1>3, Zenon

\* The others are not alone, so what is done is a matter of r.
LEMMA SoloStep ==
  ASSUME Inv, SoloInv, Told', NEW r \in Runs, Done(r)',
         \A q \in Runs \ {r} : pc'[q] = pc[q],
         \/ Start(r)
         \/ Active(r) /\ UNCHANGED solo
         \/ Active(r) /\ solo' = [solo EXCEPT ![r] = TRUE] /\ pc'[r] = "ended"
  PROVE  SoloInv'
<1>1. Alone' /\ \A q \in Runs \ {r} : ~(Active(q)' /\ solo'[q])
  BY AloneStep, Zenon DEF SoloInv
<1>2. ASSUME NEW q \in Runs \ {r} PROVE Done(q)'
  <2>1. pc'[q] \in Working \cup {"file"} => Active(q)'
    BY DEF Active, Working, Replacing
  <2> QED BY <1>1, <2>1, Zenon DEF Done
<1> QED BY <1>1, <1>2, Zenon DEF SoloInv

\* A statement of r that ends no file.
LEMMA MoveSolo ==
  ASSUME Inv, SoloInv, Told', NEW r \in Runs, pc[r] \in Working \cup {"file"},
         NEW to, pc' = [pc EXCEPT ![r] = to],
         UNCHANGED <<docs, chunks, tree, todo, errors, solo>>
  PROVE  SoloInv'
<1>1. Active(r) /\ \A q \in Runs \ {r} : pc'[q] = pc[q]
  BY DEF Active, Working, Replacing, Inv, TypeOK
<1>2. Done(r)'
  BY Zenon DEF SoloInv, Done, Indexed
<1> QED BY <1>1, <1>2, SoloStep, Zenon

\* A file is done.
LEMMA TurnSolo ==
  ASSUME Inv, SoloInv, Told', NEW r \in Runs, pc[r] \in Working \cup {"file"},
         NEW p, Turn(r, p), Done(r)'
  PROVE  SoloInv'
<1>1. Active(r) /\ UNCHANGED solo /\ \A q \in Runs \ {r} : pc'[q] = pc[q]
  BY DEF Active, Working, Replacing, Turn, Inv, TypeOK
<1> QED BY <1>1, SoloStep, Zenon

\* An error is counted: r reports it.
LEMMA ErrorSolo ==
  ASSUME Inv, SoloInv, Told', NEW r \in Runs, pc[r] \in Working \cup {"file"},
         NEW p, Turn(r, p), errors' = [errors EXCEPT ![r] = @ + 1]
  PROVE  SoloInv'
<1>1. errors \in [Runs -> Nat]
  BY DEF Inv, TypeOK
<1>2. errors'[r] # 0
  BY <1>1
<1> QED BY <1>2, TurnSolo DEF Done

LEMMA EndSolo ==
  ASSUME Inv, SoloInv, Told', NEW r \in Runs, Active(r), NEW a, NEW b, End(r, a, b)
  PROVE  SoloInv'
<1>1. /\ \A q \in Runs \ {r} : pc'[q] = pc[q]
      /\ solo' = [solo EXCEPT ![r] = TRUE] /\ pc'[r] = "ended"
  BY Zenon DEF End, Inv, TypeOK
<1>2. Done(r)'
  BY <1>1 DEF Done, Working, Replacing
<1> QED BY <1>1, <1>2, SoloStep, Zenon

\* A text whose hash the row has is indexed; another is taken up.
LEMMA FetchSolo ==
  ASSUME Inv, SoloInv, Told', NEW r \in Runs, FetchExisting(r)
  PROVE  SoloInv'
<1>0. pc[r] = "file" /\ UNCHANGED <<docs, chunks, errors>>
  BY Zenon DEF FetchExisting
<1>1. PICK p \in Paths :
        IF p \in DOMAIN docs /\ docs[p].hash = tree[r][p].body
        THEN Turn(r, p)
        ELSE /\ pc' = [pc EXCEPT ![r] = IF p \in DOMAIN docs THEN "present" ELSE "absent"]
             /\ UNCHANGED <<world, tree, todo, snap, exit, solo>>
  BY Zenon DEF FetchExisting
<1>2. CASE p \in DOMAIN docs /\ docs[p].hash = tree[r][p].body /\ Turn(r, p)
  <2>1. Indexed(p, tree[r][p].body)
    BY <1>2, ToldIndexed, Zenon DEF SoloInv
  <2>2. UNCHANGED <<tree, solo>> /\ todo'[r] = todo[r] \ {p}
    BY <1>2, Zenon DEF Turn, Inv, TypeOK
  <2>3. ASSUME solo[r], errors[r] = 0, NEW q \in DOMAIN tree[r] \ todo'[r]
        PROVE  Indexed(q, tree[r][q].body)
    BY <1>0, <2>1, <2>2, <2>3, Zenon DEF SoloInv, Done
  <2>4. Done(r)'
    BY <1>0, <2>2, <2>3, Zenon DEF Done, Indexed
  <2> QED BY <1>0, <1>2, <2>4, TurnSolo, Zenon
<1>3. CASE /\ pc' = [pc EXCEPT ![r] = IF p \in DOMAIN docs THEN "present" ELSE "absent"]
           /\ UNCHANGED <<tree, todo, solo>>
  BY <1>0, <1>3, MoveSolo, Zenon
<1> QED BY <1>1, <1>2, <1>3, Zenon

\* A commit indexes the text of the file in hand and leaves the others alone.
LEMMA CommitSolo ==
  ASSUME Inv, SoloInv, Told', NEW r \in Runs, Commit(r)
  PROVE  SoloInv'
<1>0. pc[r] = "commit" /\ Write(r) /\ Turn(r, cur[r]) /\ UNCHANGED errors
  BY Zenon DEF Commit, Write
<1>1. /\ cur[r] \in Paths /\ cur[r] \in todo[r] /\ Body(r) \in Bodies
      /\ \A p \in Paths : p # cur[r] => chunks'[p] = chunks[p]
  BY <1>0, WriteRows, Zenon
<1>2. /\ DOMAIN docs' = DOMAIN docs \cup {cur[r]}
      /\ docs'[cur[r]].hash = Body(r)
      /\ \A p \in DOMAIN docs : p # cur[r] => docs'[p] = docs[p]
  BY <1>0 DEF Write
<1>3. UNCHANGED <<tree, solo>> /\ todo'[r] = todo[r] \ {cur[r]}
  BY <1>0, Zenon DEF Turn, Inv, TypeOK
<1>4. ASSUME NEW p \in Paths, p = cur[r]
      PROVE  Indexed(p, tree[r][p].body)'
  <2>1. p \in DOMAIN docs' /\ docs'[p].hash = tree[r][p].body /\ tree[r][p].body \in Bodies
    BY <1>1, <1>2, <1>4, Zenon DEF Body
  <2>2. Passages[tree[r][p].body] = 0 \/ Passages[tree[r][p].body] > 0
    BY <2>1, PassagesAssumption DEF PassagesAssumption
  <2>3. CASE Passages[tree[r][p].body] > 0
    <3>1. PICK s \in Runs \cup {Earlier} : chunks'[p] = NewRows(s, tree[r][p].body)
      BY <2>1, <2>3, Zenon DEF Told
    <3>2. {<<row[2], row[3]>> : row \in chunks'[p]} = C!Split(tree[r][p].body)
      BY <2>1, <3>1, RowsIndexed
    <3> QED BY <1>3, <2>1, <3>2, Zenon DEF Indexed
  <2> QED BY <1>3, <2>1, <2>2, <2>3, Zenon DEF Indexed
<1>5. ASSUME solo[r], errors[r] = 0, NEW p \in DOMAIN tree[r] \ todo[r]
      PROVE  Indexed(p, tree[r][p].body)'
  <2>1. Indexed(p, tree[r][p].body)
    BY <1>0, <1>5, Zenon DEF SoloInv, Done, Working, Replacing
  <2>2. p \in DOMAIN docs /\ p # cur[r] /\ p \in Paths
    BY <1>1, <1>5, <2>1, Zenon DEF Indexed, Inv, TypeOK
  <2>3. p \in DOMAIN docs' /\ docs'[p] = docs[p] /\ chunks'[p] = chunks[p]
    BY <1>1, <1>2, <2>2, Zenon
  <2> QED BY <1>3, <2>1, <2>3, Zenon DEF Indexed
<1>6. Done(r)'
  <2> SUFFICES ASSUME solo'[r], errors'[r] = 0, NEW p \in DOMAIN tree'[r] \ todo'[r]
               PROVE  Indexed(p, tree[r][p].body)'
    BY Zenon DEF Done
  <2>1. p = cur[r] \/ p \in DOMAIN tree[r] \ todo[r]
    BY <1>3, Zenon
  <2> QED BY <1>0, <1>1, <1>3, <1>4, <1>5, <2>1, Zenon
<1> QED BY <1>0, <1>6, TurnSolo DEF Working, Replacing

LEMMA RunSolo ==
  ASSUME Inv, SoloInv, Told', NEW r \in Runs, Start(r) \/ Step(r) \/ Failure(r)
  PROVE  SoloInv'
<1>0. pc \in [Runs -> Stages]
  BY DEF Inv, TypeOK
<1>1. CASE Start(r)
  <2>1. pc'[r] = "download" /\ \A q \in Runs \ {r} : pc'[q] = pc[q]
    BY <1>0, <1>1, Zenon DEF Start
  <2>2. Done(r)'
    BY <2>1 DEF Done, Working, Replacing
  <2> QED BY <1>1, <2>1, <2>2, SoloStep, Zenon
<1>2. CASE Download(r)
  <2>1. pc[r] = "download" /\ UNCHANGED <<pc, solo>>
    BY <1>2, Zenon DEF Download
  <2>2. Done(r)' /\ Active(r)
    BY <2>1 DEF Done, Working, Replacing, Active
  <2> QED BY <2>1, <2>2, SoloStep, Zenon
<1>3. CASE StartIngest(r)
  <2>1. /\ pc[r] = "download" /\ UNCHANGED <<tree, solo>>
        /\ todo'[r] = DOMAIN tree[r] /\ \A q \in Runs \ {r} : pc'[q] = pc[q]
    BY <1>0, <1>3, Zenon DEF StartIngest, Inv, TypeOK
  <2>2. Done(r)' /\ Active(r)
    BY <2>1, Zenon DEF Done, Active
  <2> QED BY <2>1, <2>2, SoloStep, Zenon
<1>4. CASE Finish(r) \/ InitFails(r) \/ Die(r)
  <2>1. Active(r)
    BY <1>4 DEF Finish, InitFails, Die, Active
  <2> QED BY <1>4, <2>1, EndSolo, Zenon DEF Finish, InitFails, Die
<1>5. CASE RefuseFile(r)
  BY <1>5, ErrorSolo, Zenon DEF RefuseFile
<1>6. CASE FetchExisting(r)
  BY <1>6, FetchSolo
<1>7. CASE RollBack(r) /\ pc[r] \in Working
  BY <1>7, ErrorSolo, Zenon DEF RollBack
<1>8. CASE InsertDocument(r) \/ InsertChunks(r)
  <2>1. pc[r] \in Working
    BY <1>8 DEF InsertDocument, InsertChunks, Working, Replacing
  <2> QED BY <1>7, <1>8, <2>1, MoveSolo, ZenonT(60) DEF InsertDocument, InsertChunks
<1>9. CASE BeginDelete(r) \/ DeleteChunks(r) \/ UpdateDocument(r)
  <2>1. pc[r] \in Working
    BY <1>9 DEF BeginDelete, DeleteChunks, UpdateDocument, Working, Replacing
  <2> QED BY <1>9, <2>1, MoveSolo, ZenonT(60) DEF BeginDelete, DeleteChunks, UpdateDocument
<1>10. CASE Commit(r)
  BY <1>10, CommitSolo
<1>11. CASE CommitLost(r)
  <2>1. pc[r] \in Working
    BY <1>11 DEF CommitLost, Working, Replacing
  <2> QED BY <1>11, <2>1, ErrorSolo, Zenon DEF CommitLost, Write
<1>12. CASE DbError(r) \/ Deadlock(r)
  <2>1. pc[r] \in Working
    BY <1>12 DEF DbError, Deadlock, Working, Replacing
  <2> QED BY <1>7, <1>12, <2>1, Zenon DEF DbError, Deadlock
<1> QED BY <1>1, <1>2, <1>3, <1>4, <1>5, <1>6, <1>8, <1>9, <1>10, <1>11, <1>12,
           ZenonT(60) DEF Step, Failure

LEMMA SoloAlways == Spec => []SoloInv
<1>1. Init => SoloInv
  <2>1. Init => Alone /\ \A r \in Runs : Done(r)
    BY DEF Init, Alone, Active, Done, Working, Replacing
  <2> QED BY <2>1, InitTold, Zenon DEF SoloInv
<1>2. Inv /\ SoloInv /\ [Next]_vars => SoloInv'
  <2> SUFFICES ASSUME Inv, SoloInv, [Next]_vars PROVE SoloInv'
    OBVIOUS
  <2>0. Told'
    BY ToldStep, Zenon DEF SoloInv
  <2>1. CASE UNCHANGED <<docs, chunks, job, solo>>
    <3>1. Alone'
      BY <2>1, Zenon DEF SoloInv, Alone, Active, job
    <3>2. \A r \in Runs : Done(r)'
      BY <2>1, Zenon DEF SoloInv, Done, Indexed, job
    <3> QED BY <2>0, <3>1, <3>2, Zenon DEF SoloInv
  <2>2. CASE UNCHANGED vars
    BY <2>1, <2>2, Zenon DEF vars, job
  <2>3. ASSUME NEW u \in Uploads, Upload(u[1], u[2]) PROVE SoloInv'
    BY <2>1, <2>3, Zenon DEF Upload
  <2>4. ASSUME NEW r \in Runs, Start(r) \/ Step(r) \/ Failure(r) PROVE SoloInv'
    BY <2>0, <2>4, RunSolo, Zenon
  <2> QED BY <2>2, <2>3, <2>4, Zenon DEF Next
<1> QED BY <1>1, <1>2, InvAlways, PTL DEF Spec

\* An execution that reports no error and met no other leaves every file it
\* downloaded indexed (_persist), for every number of executions, and whatever the
\* executions before it left behind.
THEOREM SoloRunsIndex == Spec => SoloRunIndexes
<1>1. ASSUME Inv, SoloInv, [Next]_vars, NEW r \in Runs,
             r \in DOMAIN exit' \ DOMAIN exit, exit'[r].returned = 0, solo[r],
             NEW p \in DOMAIN tree[r]
      PROVE  Indexed(p, tree[r][p].body) /\ UNCHANGED <<docs, chunks>>
  <2>1. PICK q \in Runs : Finish(q) \/ InitFails(q) \/ Die(q)
    <3>1. exit' # exit
      BY <1>1, Zenon
    <3> QED BY <1>1, <3>1, ZenonT(60) DEF Next, Upload, Start, Step, Failure, Download,
               StartIngest, RefuseFile, FetchExisting, InsertDocument, BeginDelete,
               DeleteChunks, UpdateDocument, InsertChunks, Commit, CommitLost, Write, DbError,
               Deadlock, RollBack, Turn, job, vars
  <2>2. PICK a \in {0, 1, 2} : /\ \E status : End(q, a, status)
                               /\ a = 0 => Finish(q) /\ ~(errors[q] > 0)
    <3>0. 1 # 0 /\ 2 # 0
      OBVIOUS
    <3>1. CASE Finish(q)
      <4>1. CASE errors[q] > 0
        <5>1. End(q, 1, ExitStatus(1))
          BY <3>1, <4>1, Zenon DEF Finish
        <5> QED BY <3>0, <5>1, Zenon
      <4>2. CASE ~(errors[q] > 0)
        <5>1. End(q, 0, ExitStatus(0))
          BY <3>1, <4>2, Zenon DEF Finish
        <5> QED BY <3>1, <4>2, <5>1, Zenon
      <4> QED BY <4>1, <4>2, Zenon
    <3>2. CASE InitFails(q)
      BY <3>0, <3>2, Zenon DEF InitFails
    <3>3. CASE Die(q)
      BY <3>0, <3>3, Zenon DEF Die
    <3> QED BY <2>1, <3>1, <3>2, <3>3, Zenon
  <2>3. PICK status : End(q, a, status)
    BY <2>2, Zenon
  <2>4. /\ DOMAIN exit' = DOMAIN exit \cup {q} /\ UNCHANGED <<docs, chunks>>
        /\ exit'[q] = [returned |-> a, status |-> status]
    BY <2>3, Zenon DEF End
  <2>5. q = r
    BY <1>1, <2>4, Zenon
  <2>6. a = 0
    BY <1>1, <2>4, <2>5
  <2>7. Finish(r) /\ ~(errors[r] > 0) /\ errors[r] \in Nat
    BY <1>1, <2>2, <2>5, <2>6, Zenon DEF Inv, TypeOK
  <2>8. pc[r] = "file" /\ todo[r] = {} /\ errors[r] = 0
    <3>1. errors[r] = 0
      BY <2>7
    <3> QED BY <2>7, <3>1, Zenon DEF Finish
  <2> QED BY <1>1, <2>4, <2>8, Zenon DEF SoloInv, Done
<1>2. Inv /\ SoloInv /\ [Next]_vars =>
        [\A r \in Runs :
           (r \in DOMAIN exit' \ DOMAIN exit /\ exit'[r].returned = 0 /\ solo[r])
             => \A p \in DOMAIN tree[r], b \in Bodies :
                  tree[r][p].body = b => Indexed(p, b)']_vars
  BY <1>1, ZenonT(60) DEF Indexed
<1> QED BY <1>2, InvAlways, SoloAlways, PTL DEF Spec, SoloRunIndexes

=============================================================================
