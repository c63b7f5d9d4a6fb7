---------------------- MODULE ConversationStoreProofs -----------------------
(***************************************************************************)
(* Type correctness and safety of ConversationStore, for any number of     *)
(* messages, deletes, tickets, attempts and faults.  The types go action   *)
(* by action and, under an action, conjunct by conjunct; the only          *)
(* strengthening they need is OrdinalGiven.  Then acknowledged messages    *)
(* are stored, the two-store append implements Transcript, tickets keep    *)
(* their conversation, and the index agrees with the transcript.           *)
(***************************************************************************)
EXTENDS ConversationStore, FiniteSets, TLAPS

\* The labels of a request are labels.
LEMMA Labels ==
  /\ {"201", "409_exists", "409_concurrent", "422_user", "422_timestamp",
      "500", "503", "conflict", "create_header", "heal_header",
      "header_reload", "download", "upload", "reload", "increment", "insert"}
     \subseteq Steps \cup Responses
  /\ {"delete_row", "gcs_delete", "commit", "204", "404", "409", "503"}
     \subseteq DeleteSteps \cup DeleteResponses
  BY DEF Steps, Responses, DeleteSteps, DeleteResponses

LEMMA SeqFacts ==
  /\ <<>> \in Seq(Msgs)
  /\ \A s \in Seq(Msgs), m \in Msgs : Append(s, m) \in Seq(Msgs)
  OBVIOUS

\* insert_message runs with the ordinal increment_message_count returned.
OrdinalGiven == \A m \in Msgs : pc[m] = "insert" => ordinal[m] # -1

LEMMA TypeInductive == Spec => [](TypeOK /\ OrdinalGiven)
<1>1. Init => TypeOK /\ OrdinalGiven
  <2> SUFFICES ASSUME Init PROVE TypeOK /\ OrdinalGiven
    OBVIOUS
  <2>1. "idle" \in Steps /\ "idle" \in DeleteSteps /\ "idle" \in TicketStates
    BY DEF Steps, DeleteSteps, TicketStates
  <2>2. faults \in 0 .. MaxFaults
    BY StoreAssumption DEF StoreAssumption, Init
  <2> QED
    BY <2>1, <2>2, SeqFacts, Zenon DEF Init, TypeOK, OrdinalGiven
<1>2. TypeOK /\ OrdinalGiven /\ [Next]_vars => TypeOK' /\ OrdinalGiven'
  <2> SUFFICES ASSUME TypeOK, OrdinalGiven, [Next]_vars
               PROVE TypeOK' /\ OrdinalGiven'
    OBVIOUS
  <2>exists. exists \in BOOLEAN
    BY DEF TypeOK
  <2>created. created \in Nat
    BY DEF TypeOK
  <2>count. count \in Nat
    BY DEF TypeOK
  <2>rows. rows \subseteq MessageRow
    BY DEF TypeOK
  <2>lock. lock \in Deletes \cup {None}
    BY DEF TypeOK
  <2>objGen. objGen \in Nat
    BY DEF TypeOK
  <2>blocks. blocks \in Seq(Msgs)
    BY DEF TypeOK
  <2>lastGen. lastGen \in Nat
    BY DEF TypeOK
  <2>pc. pc \in [Msgs -> Steps \cup Responses]
    BY DEF TypeOK
  <2>seen. seen \in [Msgs -> Nat]
    BY DEF TypeOK
  <2>healed. healed \in [Msgs -> BOOLEAN]
    BY DEF TypeOK
  <2>attempt. attempt \in [Msgs -> Nat]
    BY DEF TypeOK
  <2>gen. gen \in [Msgs -> Nat]
    BY DEF TypeOK
  <2>copy. copy \in [Msgs -> Seq(Msgs)]
    BY DEF TypeOK
  <2>ordinal. ordinal \in [Msgs -> Nat \cup {-1}]
    BY DEF TypeOK
  <2>dpc. dpc \in [Deletes -> DeleteSteps \cup DeleteResponses]
    BY DEF TypeOK
  <2>tpc. tpc \in [Tickets -> TicketStates]
    BY DEF TypeOK
  <2>faults. faults \in 0 .. MaxFaults
    BY DEF TypeOK
  <2>written. written \subseteq Msgs
    BY DEF TypeOK
  <2>wiped. wiped \in BOOLEAN
    BY Zenon DEF TypeOK
  <2>1. ASSUME NEW m \in Msgs, BeginInsertOrGet(m) PROVE TypeOK' /\ OrdinalGiven'
    <3>1. (pc \in [Msgs -> Steps \cup Responses])'
      BY <2>1, <2>pc, Labels DEF BeginInsertOrGet, Goto
    <3>2. (seen \in [Msgs -> Nat])'
      BY <2>1, <2>seen, <2>created DEF BeginInsertOrGet
    <3>3. OrdinalGiven'
      BY <2>1, <2>pc, <2>ordinal DEF BeginInsertOrGet, OrdinalGiven,
         locals, Goto
    <3> QED
      BY <2>1, <3>1, <3>2, <3>3, Zenon DEF BeginInsertOrGet, TypeOK, dbVars,
         rowVars, gcsVars, objVars, rmwVars, locals
  <2>2. ASSUME NEW m \in Msgs, InsertOrGet(m) PROVE TypeOK' /\ OrdinalGiven'
    <3>1. (pc \in [Msgs -> Steps \cup Responses])'
      BY <2>2, <2>pc, Labels DEF InsertOrGet, AfterCreate, Goto
    <3>2. (exists \in BOOLEAN)'
      BY <2>2, <2>exists, Zenon DEF InsertOrGet, rowVars
    <3>3. (created \in Nat)'
      BY <2>2, <2>created, StoreAssumption, Zenon DEF InsertOrGet, rowVars,
         StoreAssumption
    <3>4. (count \in Nat)'
      <4>1. count' = 0 \/ count' = count
        BY <2>2, Zenon DEF InsertOrGet, rowVars
      <4> QED
        BY <4>1, <2>count
    <3>5. OrdinalGiven'
      BY <2>2, <2>pc, <2>ordinal, Zenon DEF InsertOrGet, OrdinalGiven, locals,
         Goto, AfterCreate
    <3> QED
      BY <2>2, <3>1, <3>2, <3>3, <3>4, <3>5, Zenon DEF InsertOrGet, TypeOK,
         dbVars, rowVars, gcsVars, objVars, rmwVars, locals
  <2>3. ASSUME NEW m \in Msgs, InsertOrGetFails(m) PROVE TypeOK' /\ OrdinalGiven'
    <3>1. (pc \in [Msgs -> Steps \cup Responses])'
      BY <2>3, <2>pc, Labels DEF InsertOrGetFails, Goto
    <3>2. (faults \in 0 .. MaxFaults)'
      BY <2>3, <2>faults, StoreAssumption DEF InsertOrGetFails, Fault,
         StoreAssumption
    <3>3. OrdinalGiven'
      BY <2>3, <2>pc, <2>ordinal DEF InsertOrGetFails, OrdinalGiven,
         locals, Goto
    <3>4. (exists \in BOOLEAN)'
      BY <2>3, Zenon DEF InsertOrGetFails, TypeOK, rowVars
    <3>5. (created \in Nat /\ count \in Nat)'
      BY <2>3, StoreAssumption DEF InsertOrGetFails, TypeOK, rowVars,
         StoreAssumption
    <3> QED
      BY <2>3, <3>1, <3>2, <3>3, <3>4, <3>5, Zenon DEF InsertOrGetFails, TypeOK,
         gcsVars, objVars, rmwVars, locals
  <2>4. ASSUME NEW m \in Msgs, UploadHeader(m) PROVE TypeOK' /\ OrdinalGiven'
    <3>1. (pc \in [Msgs -> Steps \cup Responses])'
      BY <2>4, <2>pc, Labels DEF UploadHeader, Goto
    <3>2. (objGen \in Nat)'
      BY <2>4, <2>objGen, <2>lastGen DEF UploadHeader, Store,
         StoreHeader, objVars
    <3>3. (blocks \in Seq(Msgs))'
      BY <2>4, <2>blocks, <2>copy, SeqFacts, Zenon DEF UploadHeader, Store,
         StoreHeader, objVars
    <3>4. (lastGen \in Nat)'
      BY <2>4, <2>lastGen DEF UploadHeader, Store, StoreHeader, objVars
    <3>5. (written \subseteq Msgs)'
      BY <2>4, <2>written DEF UploadHeader, Store, StoreHeader, objVars
    <3>6. OrdinalGiven'
      BY <2>4, <2>pc, <2>ordinal, Zenon DEF UploadHeader, OrdinalGiven, locals,
         Goto
    <3> QED
      BY <2>4, <3>1, <3>2, <3>3, <3>4, <3>5, <3>6, Zenon DEF UploadHeader,
         TypeOK, dbVars, rowVars, gcsVars, objVars, rmwVars, locals
  <2>5. ASSUME NEW m \in Msgs, UploadHeaderFails(m) PROVE TypeOK' /\ OrdinalGiven'
    <3>1. (pc \in [Msgs -> Steps \cup Responses])'
      BY <2>5, <2>pc, Labels DEF UploadHeaderFails, Goto
    <3>2. (faults \in 0 .. MaxFaults)'
      BY <2>5, <2>faults, StoreAssumption DEF UploadHeaderFails, Fault,
         StoreAssumption
    <3>3. (objGen \in Nat)'
      BY <2>5, <2>objGen, <2>lastGen DEF UploadHeaderFails, Store,
         StoreHeader, objVars
    <3>4. (blocks \in Seq(Msgs))'
      BY <2>5, <2>blocks, <2>copy, SeqFacts, Zenon DEF UploadHeaderFails,
         Store, StoreHeader, objVars
    <3>5. (lastGen \in Nat)'
      BY <2>5, <2>lastGen DEF UploadHeaderFails, Store, StoreHeader,
         objVars
    <3>6. (written \subseteq Msgs)'
      BY <2>5, <2>written DEF UploadHeaderFails, Store, StoreHeader,
         objVars
    <3>7. OrdinalGiven'
      BY <2>5, <2>pc, <2>ordinal DEF UploadHeaderFails, OrdinalGiven,
         locals, Goto
    <3> QED
      BY <2>5, <3>1, <3>2, <3>3, <3>4, <3>5, <3>6, <3>7, Zenon DEF
         UploadHeaderFails, TypeOK, dbVars, rowVars, gcsVars, objVars,
         rmwVars, locals
  <2>6. ASSUME NEW m \in Msgs, ReloadHeader(m) PROVE TypeOK' /\ OrdinalGiven'
    <3>1. (pc \in [Msgs -> Steps \cup Responses])'
      BY <2>6, <2>pc, Labels DEF ReloadHeader, Goto
    <3>2. (faults \in 0 .. MaxFaults)'
      BY <2>6, <2>faults, StoreAssumption DEF ReloadHeader, Fault,
         StoreAssumption
    <3>3. OrdinalGiven'
      BY <2>6, <2>pc, <2>ordinal DEF ReloadHeader, OrdinalGiven, locals,
         Goto
    <3> QED
      BY <2>6, <3>1, <3>2, <3>3, Zenon DEF ReloadHeader, TypeOK, dbVars,
         rowVars, gcsVars, objVars, rmwVars, locals
  <2>7. ASSUME NEW m \in Msgs, Download(m) PROVE TypeOK' /\ OrdinalGiven'
    <3>1. (pc \in [Msgs -> Steps \cup Responses])'
      BY <2>7, <2>pc, Labels DEF Download, Goto
    <3>2. (healed \in [Msgs -> BOOLEAN])'
      BY <2>7, <2>healed, Zenon DEF Download, rmwVars
    <3>3. (attempt \in [Msgs -> Nat])'
      BY <2>7, <2>attempt DEF Download, rmwVars
    <3>4. (gen \in [Msgs -> Nat])'
      BY <2>7, <2>gen, <2>objGen DEF Download, rmwVars
    <3>5. (copy \in [Msgs -> Seq(Msgs)])'
      BY <2>7, <2>copy, <2>blocks, Zenon DEF Download, rmwVars
    <3>6. OrdinalGiven'
      BY <2>7, <2>pc, <2>ordinal DEF Download, OrdinalGiven, locals,
         Goto
    <3> QED
      BY <2>7, <3>1, <3>2, <3>3, <3>4, <3>5, <3>6, Zenon DEF Download, TypeOK,
         dbVars, rowVars, gcsVars, objVars, rmwVars, locals
  <2>8. ASSUME NEW m \in Msgs, DownloadFails(m) PROVE TypeOK' /\ OrdinalGiven'
    <3>1. (pc \in [Msgs -> Steps \cup Responses])'
      BY <2>8, <2>pc, Labels, Zenon DEF DownloadFails, Goto
    <3>2. (faults \in 0 .. MaxFaults)'
      BY <2>8, <2>faults, StoreAssumption DEF DownloadFails, Fault,
         StoreAssumption
    <3>3. OrdinalGiven'
      BY <2>8, <2>pc, <2>ordinal DEF DownloadFails, OrdinalGiven,
         locals, Goto
    <3> QED
      BY <2>8, <3>1, <3>2, <3>3, Zenon DEF DownloadFails, TypeOK, dbVars,
         rowVars, gcsVars, objVars, rmwVars, locals
  <2>9. ASSUME NEW m \in Msgs, Upload(m) PROVE TypeOK' /\ OrdinalGiven'
    <3>1. (pc \in [Msgs -> Steps \cup Responses])'
      BY <2>9, <2>pc, Labels, Zenon DEF Upload, Goto
    <3>2. (objGen \in Nat)'
      BY <2>9, <2>objGen, <2>lastGen DEF Upload, Store, StoreBlock,
         objVars
    <3>3. (blocks \in Seq(Msgs))'
      BY <2>9, <2>blocks, <2>copy, SeqFacts, Zenon DEF Upload, Store,
         StoreBlock, objVars
    <3>4. (lastGen \in Nat)'
      BY <2>9, <2>lastGen DEF Upload, Store, StoreBlock, objVars
    <3>5. (written \subseteq Msgs)'
      BY <2>9, <2>written, Zenon DEF Upload, Store, StoreBlock, objVars
    <3>6. (attempt \in [Msgs -> Nat])'
      BY <2>9, <2>attempt DEF Upload, rmwVars
    <3>7. (gen \in [Msgs -> Nat])'
      BY <2>9, <2>gen, <2>objGen, Zenon DEF Upload, Forget, rmwVars
    <3>8. (copy \in [Msgs -> Seq(Msgs)])'
      BY <2>9, <2>copy, <2>blocks DEF Upload, Forget, rmwVars
    <3>9. OrdinalGiven'
      BY <2>9, <2>pc, <2>ordinal DEF Upload, OrdinalGiven, locals, Goto
    <3> QED
      BY <2>9, <3>1, <3>2, <3>3, <3>4, <3>5, <3>6, <3>7, <3>8, <3>9, Zenon DEF
         Upload, TypeOK, dbVars, rowVars, gcsVars, objVars, rmwVars,
         locals
  <2>10. ASSUME NEW m \in Msgs, UploadFails(m) PROVE TypeOK' /\ OrdinalGiven'
    <3>1. (pc \in [Msgs -> Steps \cup Responses])'
      BY <2>10, <2>pc, Labels, Zenon DEF UploadFails, Goto
    <3>2. (faults \in 0 .. MaxFaults)'
      BY <2>10, <2>faults, StoreAssumption DEF UploadFails, Fault,
         StoreAssumption
    <3>3. (objGen \in Nat)'
      BY <2>10, <2>objGen, <2>lastGen DEF UploadFails, Store,
         StoreBlock, objVars
    <3>4. (blocks \in Seq(Msgs))'
      BY <2>10, <2>blocks, <2>copy, SeqFacts, Zenon DEF UploadFails, Store,
         StoreBlock, objVars
    <3>5. (lastGen \in Nat)'
      BY <2>10, <2>lastGen DEF UploadFails, Store, StoreBlock, objVars
    <3>6. (written \subseteq Msgs)'
      BY <2>10, <2>written, Zenon DEF UploadFails, Store, StoreBlock, objVars
    <3>7. (gen \in [Msgs -> Nat])'
      BY <2>10, <2>gen, <2>objGen, Zenon DEF UploadFails, Forget, rmwVars
    <3>8. (copy \in [Msgs -> Seq(Msgs)])'
      BY <2>10, <2>copy, <2>blocks DEF UploadFails, Forget, rmwVars
    <3>9. OrdinalGiven'
      BY <2>10, <2>pc, <2>ordinal, Zenon DEF UploadFails, OrdinalGiven, locals,
         Goto
    <3> QED
      BY <2>10, <3>1, <3>2, <3>3, <3>4, <3>5, <3>6, <3>7, <3>8, <3>9, Zenon DEF
         UploadFails, TypeOK, dbVars, rowVars, gcsVars, objVars,
         rmwVars, locals
  <2>11. ASSUME NEW m \in Msgs, Reload(m) PROVE TypeOK' /\ OrdinalGiven'
    <3>1. (pc \in [Msgs -> Steps \cup Responses])'
      BY <2>11, <2>pc, Labels DEF Reload, Goto
    <3>2. (faults \in 0 .. MaxFaults)'
      BY <2>11, <2>faults, StoreAssumption DEF Reload, Fault,
         StoreAssumption
    <3>3. OrdinalGiven'
      BY <2>11, <2>pc, <2>ordinal, Zenon DEF Reload, OrdinalGiven, locals, Goto
    <3> QED
      BY <2>11, <3>1, <3>2, <3>3, Zenon DEF Reload, TypeOK, dbVars, rowVars,
         gcsVars, objVars, rmwVars, locals
  <2>12. ASSUME NEW m \in Msgs, IncrementMessageCount(m) PROVE TypeOK' /\ OrdinalGiven'
    <3>1. (pc \in [Msgs -> Steps \cup Responses])'
      BY <2>12, <2>pc, Labels DEF IncrementMessageCount, Goto
    <3>2. (count \in Nat)'
      BY <2>12, <2>count DEF IncrementMessageCount, rowVars
    <3>3. (ordinal \in [Msgs -> Nat \cup {-1}])'
      BY <2>12, <2>ordinal, <2>count, Zenon DEF IncrementMessageCount
    <3>4. OrdinalGiven'
      BY <2>12, <2>pc, <2>ordinal, <2>count DEF IncrementMessageCount,
         OrdinalGiven, locals, Goto
    <3> QED
      BY <2>12, <3>1, <3>2, <3>3, <3>4, Zenon DEF IncrementMessageCount,
         TypeOK, dbVars, rowVars, gcsVars, objVars, rmwVars, locals
  <2>13. ASSUME NEW m \in Msgs, IncrementFails(m) PROVE TypeOK' /\ OrdinalGiven'
    <3>1. (pc \in [Msgs -> Steps \cup Responses])'
      BY <2>13, <2>pc, Labels DEF IncrementFails, Goto
    <3>2. (faults \in 0 .. MaxFaults)'
      BY <2>13, <2>faults, StoreAssumption DEF IncrementFails, Fault,
         StoreAssumption
    <3>3. (count \in Nat)'
      BY <2>13, <2>count DEF IncrementFails, rowVars
    <3>4. OrdinalGiven'
      BY <2>13, <2>pc, <2>ordinal, Zenon DEF IncrementFails, OrdinalGiven,
         locals, Goto
    <3> QED
      BY <2>13, <3>1, <3>2, <3>3, <3>4, Zenon DEF IncrementFails, TypeOK,
         dbVars, rowVars, gcsVars, objVars, rmwVars, locals
  <2>14. ASSUME NEW m \in Msgs, InsertMessage(m) PROVE TypeOK' /\ OrdinalGiven'
    <3>1. (pc \in [Msgs -> Steps \cup Responses])'
      BY <2>14, <2>pc, Labels DEF InsertMessage, Goto
    <3>2. (rows \subseteq MessageRow)'
      BY <2>14, <2>rows, <2>ordinal, <2>pc DEF InsertMessage, InsertRow,
         OrdinalGiven, MessageRow
    <3>3. OrdinalGiven'
      BY <2>14, <2>pc, <2>ordinal, Zenon DEF InsertMessage, OrdinalGiven,
         locals, Goto
    <3> QED
      BY <2>14, <3>1, <3>2, <3>3, Zenon DEF InsertMessage, TypeOK, dbVars,
         rowVars, gcsVars, objVars, rmwVars, locals
  <2>15. ASSUME NEW m \in Msgs, InsertMessageFails(m) PROVE TypeOK' /\ OrdinalGiven'
    <3>1. (pc \in [Msgs -> Steps \cup Responses])'
      BY <2>15, <2>pc, Labels DEF InsertMessageFails, Goto
    <3>2. (faults \in 0 .. MaxFaults)'
      BY <2>15, <2>faults, StoreAssumption DEF InsertMessageFails,
         Fault, StoreAssumption
    <3>3. (rows \subseteq MessageRow)'
      BY <2>15, <2>rows, <2>ordinal, <2>pc DEF InsertMessageFails,
         InsertRow, OrdinalGiven, MessageRow
    <3>4. OrdinalGiven'
      BY <2>15, <2>pc, <2>ordinal, Zenon DEF InsertMessageFails, OrdinalGiven,
         locals, Goto
    <3> QED
      BY <2>15, <3>1, <3>2, <3>3, <3>4, Zenon DEF InsertMessageFails, TypeOK,
         dbVars, rowVars, gcsVars, objVars, rmwVars, locals
  <2>16. ASSUME NEW d \in Deletes, SelectOwned(d) PROVE TypeOK' /\ OrdinalGiven'
    <3>1. (dpc \in [Deletes -> DeleteSteps \cup DeleteResponses])'
      BY <2>16, <2>dpc, Labels, Zenon DEF SelectOwned, DGoto
    <3>2. OrdinalGiven'
      BY <2>16, <2>pc, <2>ordinal, Zenon DEF SelectOwned, OrdinalGiven, locals
    <3> QED
      BY <2>16, <3>1, <3>2, Zenon DEF SelectOwned, TypeOK, dbVars, rowVars,
         gcsVars, objVars, rmwVars, locals
  <2>17. ASSUME NEW d \in Deletes, DeleteRow(d) PROVE TypeOK' /\ OrdinalGiven'
    <3>1. (dpc \in [Deletes -> DeleteSteps \cup DeleteResponses])'
      BY <2>17, <2>dpc, Labels, Zenon DEF DeleteRow, DGoto
    <3>2. (lock \in Deletes \cup {None})'
      BY <2>17, <2>lock, Zenon DEF DeleteRow
    <3>3. OrdinalGiven'
      BY <2>17, <2>pc, <2>ordinal, Zenon DEF DeleteRow, OrdinalGiven, locals
    <3> QED
      BY <2>17, <3>1, <3>2, <3>3, Zenon DEF DeleteRow, TypeOK, dbVars, rowVars,
         gcsVars, objVars, rmwVars, locals
  <2>18. ASSUME NEW d \in Deletes, DeleteQueryFails(d) PROVE TypeOK' /\ OrdinalGiven'
    <3>1. (dpc \in [Deletes -> DeleteSteps \cup DeleteResponses])'
      BY <2>18, <2>dpc, Labels, Zenon DEF DeleteQueryFails, DGoto
    <3>2. (faults \in 0 .. MaxFaults)'
      BY <2>18, <2>faults, StoreAssumption DEF DeleteQueryFails, Fault,
         StoreAssumption
    <3>3. OrdinalGiven'
      BY <2>18, <2>pc, <2>ordinal, Zenon DEF DeleteQueryFails, OrdinalGiven,
         locals
    <3> QED
      BY <2>18, <3>1, <3>2, <3>3, Zenon DEF DeleteQueryFails, TypeOK, dbVars,
         rowVars, gcsVars, objVars, rmwVars, locals
  <2>19. ASSUME NEW d \in Deletes, GcsDelete(d) PROVE TypeOK' /\ OrdinalGiven'
    <3>1. (dpc \in [Deletes -> DeleteSteps \cup DeleteResponses])'
      BY <2>19, <2>dpc, Labels, Zenon DEF GcsDelete, DGoto, gcsVars
    <3>2. (objGen \in Nat)'
      BY <2>19, <2>objGen, <2>lastGen, Zenon DEF GcsDelete, RemoveObject,
         objVars, gcsVars
    <3>3. (blocks \in Seq(Msgs))'
      BY <2>19, <2>blocks, <2>copy, SeqFacts, Zenon DEF GcsDelete,
         RemoveObject, objVars, gcsVars
    <3>4. (lastGen \in Nat)'
      BY <2>19, <2>lastGen, Zenon DEF GcsDelete, RemoveObject, objVars, gcsVars
    <3>5. (written \subseteq Msgs)'
      BY <2>19, <2>written, Zenon DEF GcsDelete, RemoveObject, objVars, gcsVars
    <3>6. (wiped \in BOOLEAN)'
      BY <2>19, <2>wiped, Zenon DEF GcsDelete, RemoveObject, gcsVars
    <3>7. OrdinalGiven'
      BY <2>19, <2>pc, <2>ordinal, Zenon DEF GcsDelete, OrdinalGiven, locals
    <3> QED
      BY <2>19, <3>1, <3>2, <3>3, <3>4, <3>5, <3>6, <3>7, Zenon DEF GcsDelete,
         TypeOK, dbVars, rowVars, gcsVars, objVars, rmwVars, locals
  <2>20. ASSUME NEW d \in Deletes, GcsDeleteFails(d) PROVE TypeOK' /\ OrdinalGiven'
    <3>1. (dpc \in [Deletes -> DeleteSteps \cup DeleteResponses])'
      BY <2>20, <2>dpc, Labels, Zenon DEF GcsDeleteFails, DGoto, gcsVars
    <3>2. (faults \in 0 .. MaxFaults)'
      BY <2>20, <2>faults, StoreAssumption DEF GcsDeleteFails, Fault,
         StoreAssumption, gcsVars
    <3>3. (lock \in Deletes \cup {None})'
      BY <2>20, <2>lock, Zenon DEF GcsDeleteFails, Release, gcsVars
    <3>4. (objGen \in Nat)'
      BY <2>20, <2>objGen, <2>lastGen DEF GcsDeleteFails, RemoveObject,
         objVars, gcsVars
    <3>5. (blocks \in Seq(Msgs))'
      BY <2>20, <2>blocks, <2>copy, SeqFacts, Zenon DEF GcsDeleteFails,
         RemoveObject, objVars, gcsVars
    <3>6. (lastGen \in Nat)'
      BY <2>20, <2>lastGen, Zenon DEF GcsDeleteFails, RemoveObject, objVars,
         gcsVars
    <3>7. (written \subseteq Msgs)'
      BY <2>20, <2>written DEF GcsDeleteFails, RemoveObject, objVars,
         gcsVars
    <3>8. (wiped \in BOOLEAN)'
      BY <2>20, <2>wiped, Zenon DEF GcsDeleteFails, RemoveObject, gcsVars
    <3>9. OrdinalGiven'
      BY <2>20, <2>pc, <2>ordinal, Zenon DEF GcsDeleteFails, OrdinalGiven,
         locals
    <3> QED
      BY <2>20, <3>1, <3>2, <3>3, <3>4, <3>5, <3>6, <3>7, <3>8, <3>9, Zenon DEF
         GcsDeleteFails, TypeOK, dbVars, rowVars, gcsVars, objVars,
         rmwVars, locals
  <2>21. ASSUME NEW d \in Deletes, Commit(d) PROVE TypeOK' /\ OrdinalGiven'
    <3>1. (dpc \in [Deletes -> DeleteSteps \cup DeleteResponses])'
      BY <2>21, <2>dpc, Labels, Zenon DEF Commit, DGoto
    <3>2. (lock \in Deletes \cup {None})'
      BY <2>21, <2>lock DEF Commit, Release
    <3>3. (exists \in BOOLEAN)'
      BY <2>21, <2>exists, Zenon DEF Commit, RemoveRow, rowVars
    <3>4. (created \in Nat)'
      BY <2>21, <2>created DEF Commit, RemoveRow, rowVars
    <3>5. (count \in Nat)'
      BY <2>21, <2>count DEF Commit, RemoveRow, rowVars
    <3>6. (rows \subseteq MessageRow)'
      BY <2>21, <2>rows, Zenon DEF Commit, RemoveRow
    <3>7. OrdinalGiven'
      BY <2>21, <2>pc, <2>ordinal, Zenon DEF Commit, OrdinalGiven, locals
    <3> QED
      BY <2>21, <3>1, <3>2, <3>3, <3>4, <3>5, <3>6, <3>7, Zenon DEF Commit,
         TypeOK, dbVars, rowVars, gcsVars, objVars, rmwVars, locals
  <2>22. ASSUME NEW d \in Deletes, CommitFails(d) PROVE TypeOK' /\ OrdinalGiven'
    <3>1. (dpc \in [Deletes -> DeleteSteps \cup DeleteResponses])'
      BY <2>22, <2>dpc, Labels, Zenon DEF CommitFails, DGoto
    <3>2. (faults \in 0 .. MaxFaults)'
      BY <2>22, <2>faults, StoreAssumption DEF CommitFails, Fault,
         StoreAssumption
    <3>3. (lock \in Deletes \cup {None})'
      BY <2>22, <2>lock DEF CommitFails, Release
    <3>4. (exists \in BOOLEAN)'
      BY <2>22, <2>exists, Zenon DEF CommitFails, RemoveRow, rowVars
    <3>5. (created \in Nat)'
      BY <2>22, <2>created DEF CommitFails, RemoveRow, rowVars
    <3>6. (count \in Nat)'
      BY <2>22, <2>count DEF CommitFails, RemoveRow, rowVars
    <3>7. (rows \subseteq MessageRow)'
      BY <2>22, <2>rows, Zenon DEF CommitFails, RemoveRow
    <3>8. OrdinalGiven'
      BY <2>22, <2>pc, <2>ordinal, Zenon DEF CommitFails, OrdinalGiven, locals
    <3> QED
      BY <2>22, <3>1, <3>2, <3>3, <3>4, <3>5, <3>6, <3>7, <3>8, Zenon DEF
         CommitFails, TypeOK, dbVars, rowVars, gcsVars, objVars,
         rmwVars, locals
  <2>23. ASSUME NEW t \in Tickets, InsertTicket(t) PROVE TypeOK' /\ OrdinalGiven'
    <3>1. (tpc \in [Tickets -> TicketStates])'
      BY <2>23, <2>tpc, Zenon DEF InsertTicket, TicketStates
    <3>2. OrdinalGiven'
      BY <2>23, <2>pc, <2>ordinal, Zenon DEF InsertTicket, OrdinalGiven, locals
    <3> QED
      BY <2>23, <3>1, <3>2, Zenon DEF InsertTicket, TypeOK, dbVars, rowVars,
         gcsVars, objVars, rmwVars, locals
  <2>24. ASSUME NEW t \in Tickets, InsertTicketFails(t) PROVE TypeOK' /\ OrdinalGiven'
    <3>1. (tpc \in [Tickets -> TicketStates])'
      BY <2>24, <2>tpc, Zenon DEF InsertTicketFails, TicketStates
    <3>2. (faults \in 0 .. MaxFaults)'
      BY <2>24, <2>faults, StoreAssumption DEF InsertTicketFails, Fault,
         StoreAssumption
    <3>3. OrdinalGiven'
      BY <2>24, <2>pc, <2>ordinal, Zenon DEF InsertTicketFails, OrdinalGiven,
         locals
    <3> QED
      BY <2>24, <3>1, <3>2, <3>3, Zenon DEF InsertTicketFails, TypeOK, dbVars,
         rowVars, gcsVars, objVars, rmwVars, locals
  <2>25. CASE UNCHANGED vars
    BY <2>25, Zenon DEF vars, TypeOK, OrdinalGiven, dbVars, rowVars, gcsVars,
       objVars, rmwVars, locals
  <2> QED
    BY <2>1, <2>2, <2>3, <2>4, <2>5, <2>6, <2>7, <2>8, <2>9, <2>10, <2>11,
       <2>12, <2>13, <2>14, <2>15, <2>16, <2>17, <2>18, <2>19, <2>20, <2>21,
       <2>22, <2>23, <2>24, <2>25, Zenon
       DEF Next, PostMessage, DeleteConversation, CreateTicket, Finished
<1> QED
  BY <1>1, <1>2, PTL DEF Spec

\* Every variable keeps its type: the local variables of a request, the two
\* stores and the responses of the three handlers.
THEOREM TypeCorrect == Spec => []TypeOK
  BY TypeInductive, PTL

-----------------------------------------------------------------------------
(* The transcript.                                                         *)

BeforeStore == {"idle", "conflict", "create_header", "heal_header",
                "header_reload", "download", "upload"}

AfterStore == {"reload", "increment", "insert", "201"}

\* Generations only grow, and an absent object has no blocks.
GenerationInv ==
  /\ objGen <= lastGen
  /\ objGen = 0 => blocks = <<>>
  /\ \A m \in Msgs : gen[m] <= lastGen

\* What an append is about to extend is what is stored, unless the generation
\* has moved on.
CopyInv ==
  \A m \in Msgs : pc[m] = "upload" =>
    gen[m] # 0 /\ (gen[m] = objGen => copy[m] = blocks)

\* The history agrees with where each append is.
WrittenInv ==
  \A m \in Msgs : /\ pc[m] \in BeforeStore => m \notin written
                  /\ pc[m] \in AfterStore => m \in written

\* Only a delete takes a stored block away.
KeptInv == ~wiped => \A m \in written : InTranscript(m)

TranscriptInv == GenerationInv /\ CopyInv /\ WrittenInv /\ KeptInv

\* The labels that belong to neither part, or move a request between them.
LEMMA StoreLabels ==
  /\ BeforeStore \cap AfterStore = {}
  /\ {"idle", "conflict", "create_header", "heal_header", "header_reload",
      "download", "upload"} \subseteq BeforeStore
  /\ {"reload", "increment", "insert", "201"} \subseteq AfterStore
  /\ {"409_exists", "409_concurrent", "422_user", "422_timestamp", "500",
      "503"} \cap (BeforeStore \cup AfterStore) = {}
  BY DEF BeforeStore, AfterStore

\* Moving m without crossing its store.
LEMMA MoveKeepsWritten ==
  ASSUME TypeOK, WrittenInv, UNCHANGED written,
         NEW m \in Msgs, NEW s, Goto(m, s),
         s \in BeforeStore => pc[m] \in BeforeStore,
         s \in AfterStore => pc[m] \in AfterStore
  PROVE  WrittenInv'
  BY Zenon DEF WrittenInv, Goto, TypeOK

LEMMA ForgetBounded ==
  ASSUME TypeOK, GenerationInv, NEW m \in Msgs, Forget(m)
  PROVE  \A n \in Msgs : gen'[n] <= lastGen
<1> SUFFICES ASSUME NEW n \in Msgs PROVE gen'[n] <= lastGen
  OBVIOUS
<1>1. gen'[n] = 0 \/ gen'[n] = gen[n]
  BY Zenon DEF Forget, TypeOK
<1>2. gen[n] <= lastGen /\ lastGen \in Nat
  BY Zenon DEF GenerationInv, TypeOK
<1> QED
  BY <1>1, <1>2

\* A step that leaves the object and the copies alone, and moves m without
\* crossing its store, keeps the invariant.
LEMMA MoveKeeps ==
  ASSUME TypeOK, TranscriptInv, UNCHANGED <<gcsVars, gen, copy>>,
         NEW m \in Msgs, NEW s, Goto(m, s), s # "upload",
         s \in BeforeStore => pc[m] \in BeforeStore,
         s \in AfterStore => pc[m] \in AfterStore
  PROVE  TranscriptInv'
<1>1. GenerationInv'
  BY Zenon DEF TranscriptInv, GenerationInv, gcsVars, objVars
<1>2. CopyInv'
  BY Zenon DEF TranscriptInv, CopyInv, gcsVars, objVars, Goto, TypeOK
<1>3. WrittenInv'
  BY MoveKeepsWritten DEF TranscriptInv, gcsVars, objVars
<1>4. KeptInv'
  BY Zenon DEF TranscriptInv, KeptInv, InTranscript, gcsVars, objVars
<1> QED
  BY <1>1, <1>2, <1>3, <1>4, Zenon DEF TranscriptInv

\* A step of a delete or of a ticket that leaves the object alone.
LEMMA OtherKeeps ==
  ASSUME TranscriptInv, UNCHANGED <<gcsVars, gen, copy, pc>>
  PROVE  TranscriptInv'
  BY Zenon DEF TranscriptInv, GenerationInv, CopyInv, WrittenInv, KeptInv,
     InTranscript, gcsVars, objVars

\* Creating the header: there was no object, hence nothing to lose.
LEMMA StoreHeaderKeeps ==
  ASSUME TypeOK, TranscriptInv, objGen = 0, StoreHeader,
         UNCHANGED <<wiped, gen, copy>>, NEW m \in Msgs, NEW s, Goto(m, s),
         pc[m] \in BeforeStore, s # "upload", s \notin AfterStore
  PROVE  TranscriptInv'
<1>1. GenerationInv'
  BY DEF TranscriptInv, GenerationInv, StoreHeader, Store, TypeOK
<1>2. CopyInv'
  BY DEF TranscriptInv, CopyInv, GenerationInv, StoreHeader, Store, Goto, TypeOK
<1>3. WrittenInv'
  BY Zenon DEF TranscriptInv, WrittenInv, StoreHeader, Goto, TypeOK
<1>4. KeptInv'
  BY Zenon DEF TranscriptInv, KeptInv, GenerationInv, InTranscript, StoreHeader, Store
<1> QED
  BY <1>1, <1>2, <1>3, <1>4, Zenon DEF TranscriptInv

LEMMA AppendFacts ==
  ASSUME NEW s \in Seq(Msgs), NEW m \in Msgs
  PROVE  /\ \A i \in DOMAIN s : i \in DOMAIN Append(s, m) /\ Append(s, m)[i] = s[i]
         /\ \E i \in DOMAIN Append(s, m) : Append(s, m)[i] = m
<1>1. Len(s) + 1 \in DOMAIN Append(s, m) /\ Append(s, m)[Len(s) + 1] = m
  OBVIOUS
<1> QED
  BY <1>1

\* Storing a block: the precondition makes the copy the stored blocks.
LEMMA StoreBlockKeeps ==
  ASSUME TypeOK, TranscriptInv, NEW m \in Msgs, pc[m] = "upload",
         objGen = gen[m], StoreBlock(m), Forget(m), UNCHANGED wiped,
         NEW s, Goto(m, s), s \notin BeforeStore
  PROVE  TranscriptInv'
<1>0. copy[m] = blocks /\ blocks' = Append(blocks, m)
  BY Zenon DEF TranscriptInv, CopyInv, StoreBlock, Store
<1>1. GenerationInv'
  <2>1. objGen' = lastGen + 1 /\ lastGen' = lastGen + 1 /\ lastGen \in Nat
    BY DEF StoreBlock, Store, TypeOK
  <2>2. \A n \in Msgs : gen'[n] \in Nat /\ gen'[n] <= lastGen
    BY ForgetBounded, Zenon DEF TranscriptInv, Forget, TypeOK
  <2>3. \A n \in Msgs : gen'[n] <= lastGen'
    BY <2>1, <2>2
  <2> QED
    BY <2>1, <2>3 DEF GenerationInv
<1>2. CopyInv'
  BY StoreLabels DEF TranscriptInv, CopyInv, GenerationInv, StoreBlock, Store,
     Forget, Goto, TypeOK
<1>3. WrittenInv'
  BY Zenon DEF TranscriptInv, WrittenInv, StoreBlock, Goto, TypeOK
<1>4. KeptInv'
  <2> SUFFICES ASSUME ~wiped, NEW n \in written \cup {m}
               PROVE \E i \in DOMAIN blocks' : blocks'[i] = n
    BY Zenon DEF KeptInv, InTranscript, StoreBlock
  <2>1. CASE n = m
    BY <1>0, <2>1, AppendFacts DEF TypeOK
  <2>2. CASE n \in written
    <3>1. PICK i \in DOMAIN blocks : blocks[i] = n
      BY <2>2 DEF TranscriptInv, KeptInv, InTranscript
    <3> QED
      BY <1>0, <3>1, AppendFacts DEF TypeOK
  <2> QED
    BY <2>1, <2>2, Zenon
<1> QED
  BY <1>1, <1>2, <1>3, <1>4, Zenon DEF TranscriptInv

\* Removing the object, or asking to when there is none.
LEMMA RemoveObjectKeeps ==
  ASSUME TypeOK, TranscriptInv, RemoveObject, UNCHANGED <<gen, copy, pc>>
  PROVE  TranscriptInv'
<1>1. GenerationInv'
  BY DEF TranscriptInv, GenerationInv, RemoveObject, TypeOK
<1>2. CopyInv'
  BY DEF TranscriptInv, CopyInv, RemoveObject
<1>3. WrittenInv'
  BY DEF TranscriptInv, WrittenInv, RemoveObject
<1>4. KeptInv'
  BY Zenon DEF TranscriptInv, KeptInv, GenerationInv, InTranscript, RemoveObject
<1> QED
  BY <1>1, <1>2, <1>3, <1>4 DEF TranscriptInv

LEMMA TranscriptInductive == Spec => []TranscriptInv
<1>1. Init => TranscriptInv
  BY StoreLabels DEF Init, TranscriptInv, GenerationInv, CopyInv, WrittenInv, KeptInv
<1>2. TypeOK /\ TranscriptInv /\ [Next]_vars => TranscriptInv'
  <2> SUFFICES ASSUME TypeOK, TranscriptInv, [Next]_vars PROVE TranscriptInv'
    OBVIOUS
  <2> USE StoreLabels
  <2>1. ASSUME NEW m \in Msgs, BeginInsertOrGet(m) PROVE TranscriptInv'
    BY <2>1, MoveKeeps, Zenon DEF BeginInsertOrGet, rmwVars
  <2>2. ASSUME NEW m \in Msgs, InsertOrGet(m) PROVE TranscriptInv'
    BY <2>2, MoveKeeps, Zenon DEF InsertOrGet, AfterCreate, locals, rmwVars
  <2>3. ASSUME NEW m \in Msgs, InsertOrGetFails(m) PROVE TranscriptInv'
    BY <2>3, MoveKeeps, Zenon DEF InsertOrGetFails, locals, rmwVars
  <2>4. ASSUME NEW m \in Msgs, UploadHeader(m) PROVE TranscriptInv'
    <3>1. CASE objGen = 0
      BY <2>4, <3>1, StoreHeaderKeeps, Zenon DEF UploadHeader, locals, rmwVars
    <3>2. CASE objGen # 0
      BY <2>4, <3>2, MoveKeeps, Zenon DEF UploadHeader, gcsVars, locals, rmwVars
    <3> QED
      BY <3>1, <3>2, Zenon
  <2>5. ASSUME NEW m \in Msgs, UploadHeaderFails(m) PROVE TranscriptInv'
    <3>1. CASE UNCHANGED objVars
      BY <2>5, <3>1, MoveKeeps, Zenon DEF UploadHeaderFails, gcsVars, locals, rmwVars
    <3>2. CASE objGen = 0 /\ StoreHeader
      BY <2>5, <3>2, StoreHeaderKeeps, Zenon DEF UploadHeaderFails, locals, rmwVars
    <3> QED
      BY <2>5, <3>1, <3>2, Zenon DEF UploadHeaderFails
  <2>6. ASSUME NEW m \in Msgs, ReloadHeader(m) PROVE TranscriptInv'
    BY <2>6, MoveKeeps, Zenon DEF ReloadHeader, locals, rmwVars
  <2>7. ASSUME NEW m \in Msgs, Download(m) PROVE TranscriptInv'
    <3>1. CASE objGen # 0
      <4>1. GenerationInv' /\ KeptInv'
        BY <2>7, <3>1, Zenon DEF Download, TranscriptInv, GenerationInv, KeptInv,
           InTranscript, gcsVars, objVars, TypeOK
      <4>2. CopyInv'
        BY <2>7, <3>1, Zenon DEF Download, TranscriptInv, CopyInv, Goto, gcsVars, objVars, TypeOK
      <4>3. WrittenInv'
        BY <2>7, <3>1, MoveKeepsWritten, Zenon DEF Download, TranscriptInv, gcsVars, objVars
      <4> QED
        BY <4>1, <4>2, <4>3 DEF TranscriptInv
    <3>2. CASE objGen = 0
      BY <2>7, <3>2, MoveKeeps, Zenon DEF Download, rmwVars
    <3> QED
      BY <3>1, <3>2, Zenon
  <2>8. ASSUME NEW m \in Msgs, DownloadFails(m) PROVE TranscriptInv'
    BY <2>8, MoveKeeps, Zenon DEF DownloadFails, locals, rmwVars
  <2>9. ASSUME NEW m \in Msgs, Upload(m) \/ UploadFails(m) PROVE TranscriptInv'
    <3>1. CASE objGen = gen[m] /\ StoreBlock(m)
      BY <2>9, <3>1, StoreBlockKeeps, Zenon DEF Upload, UploadFails
    <3>2. CASE UNCHANGED objVars
      <4>0. Forget(m) /\ pc[m] = "upload" /\ UNCHANGED wiped
        BY <2>9, Zenon DEF Upload, UploadFails
      <4>1. GenerationInv' /\ KeptInv'
        BY <3>2, <4>0, ForgetBounded DEF TranscriptInv, GenerationInv, KeptInv,
           InTranscript, objVars
      <4>2. CopyInv'
        BY <2>9, <3>2, ZenonT(60) DEF Upload, UploadFails, Forget, TranscriptInv, CopyInv,
           Goto, objVars, TypeOK
      <4>3. WrittenInv'
        <5>1. PICK s \in {"download", "409_concurrent", "503"} : Goto(m, s)
          BY <2>9, <3>2 DEF Upload, UploadFails, StoreBlock, Store, objVars, TypeOK
        <5> QED
          BY <3>2, <4>0, <5>1, MoveKeepsWritten DEF TranscriptInv, objVars
      <4> QED
        BY <4>1, <4>2, <4>3 DEF TranscriptInv
    <3> QED
      BY <2>9, <3>1, <3>2, Zenon DEF Upload, UploadFails
  <2>10. ASSUME NEW m \in Msgs, Reload(m) PROVE TranscriptInv'
    BY <2>10, MoveKeeps, Zenon DEF Reload, locals, rmwVars
  <2>11. ASSUME NEW m \in Msgs, IncrementMessageCount(m) PROVE TranscriptInv'
    BY <2>11, MoveKeeps, Zenon DEF IncrementMessageCount, rmwVars
  <2>12. ASSUME NEW m \in Msgs, IncrementFails(m) PROVE TranscriptInv'
    BY <2>12, MoveKeeps, Zenon DEF IncrementFails, locals, rmwVars
  <2>13. ASSUME NEW m \in Msgs, InsertMessage(m) \/ InsertMessageFails(m)
         PROVE TranscriptInv'
    BY <2>13, MoveKeeps, Zenon DEF InsertMessage, InsertMessageFails, locals, rmwVars
  <2>14. ASSUME NEW d \in Deletes, DeleteConversation(d) PROVE TranscriptInv'
    <3>1. CASE RemoveObject
      BY <2>14, <3>1, RemoveObjectKeeps, Zenon DEF DeleteConversation, SelectOwned,
         DeleteRow, DeleteQueryFails, GcsDelete, GcsDeleteFails, Commit,
         CommitFails, locals, rmwVars
    <3>2. CASE UNCHANGED gcsVars
      BY <2>14, <3>2, OtherKeeps, Zenon DEF DeleteConversation, SelectOwned,
         DeleteRow, DeleteQueryFails, GcsDelete, GcsDeleteFails, Commit,
         CommitFails, locals, rmwVars
    <3> QED
      BY <2>14, <3>1, <3>2, Zenon DEF DeleteConversation, SelectOwned, DeleteRow,
         DeleteQueryFails, GcsDelete, GcsDeleteFails, Commit, CommitFails
  <2>15. ASSUME NEW t \in Tickets, CreateTicket(t) PROVE TranscriptInv'
    BY <2>15, OtherKeeps, Zenon DEF CreateTicket, InsertTicket, InsertTicketFails,
       locals, rmwVars
  <2>16. CASE UNCHANGED vars
    BY <2>16, OtherKeeps DEF vars, locals, rmwVars
  <2> QED
    BY <2>1, <2>2, <2>3, <2>4, <2>5, <2>6, <2>7, <2>8, <2>9, <2>10, <2>11,
       <2>12, <2>13, <2>14, <2>15, <2>16 DEF Next, PostMessage, Finished
<1> QED
  BY <1>1, <1>2, TypeCorrect, PTL DEF Spec

\* Until a delete removes the transcript, a message answered 201 is in it,
\* whatever appends, retries, self-heals and faults interleave.
THEOREM AckedStored == Spec => []AckedIsStored
<1>1. TranscriptInv => AckedIsStored
  BY StoreLabels, Zenon DEF TranscriptInv, WrittenInv, KeptInv, AckedIsStored, Acked
<1> QED
  BY <1>1, TranscriptInductive, PTL

-----------------------------------------------------------------------------
(* The refinement.                                                         *)

LEMMA MoveAcks ==
  ASSUME TypeOK, NEW m \in Msgs, NEW s, Goto(m, s)
  PROVE  /\ s = "201" => Acked' = Acked \cup {m}
         /\ s # "201" /\ pc[m] # "201" => Acked' = Acked
  BY Zenon DEF Acked, Goto, TypeOK

\* The two-store append implements the abstract transcript: each step of the
\* handlers is an Open, an Append, an Ack or an Erase of it, or changes
\* nothing it can see.
THEOREM TranscriptRefinement == Spec => ImplementsTranscript
<1>1. Init => T!Init
  BY Zenon DEF Init, T!Init, Acked
<1>2. TypeOK /\ TranscriptInv /\ [Next]_vars => [T!Next]_(T!vars)
  <2> SUFFICES ASSUME TypeOK, TranscriptInv, [Next]_vars
               PROVE T!Next \/ UNCHANGED T!vars
    BY Zenon
  <2> USE MoveAcks
  \* An acknowledgement: m has crossed its store.
  <2>1. ASSUME NEW m \in Msgs, pc[m] \in AfterStore, Goto(m, "201"), UNCHANGED gcsVars
        PROVE T!Next
    <3>1. T!Ack(m)
      BY <2>1, Zenon DEF T!Ack, TranscriptInv, WrittenInv, gcsVars, objVars
    <3> QED
      BY <3>1, Zenon DEF T!Next
  \* A move nothing outside the request can see.
  <2>2. ASSUME NEW m \in Msgs, NEW s, Goto(m, s), s # "201", pc[m] # "201",
               UNCHANGED gcsVars
        PROVE UNCHANGED T!vars
    BY <2>2, Zenon DEF T!vars, gcsVars, objVars
  <2>3. ASSUME NEW m \in Msgs, NEW s, Goto(m, s), s # "201", pc[m] # "201",
               objGen = 0, StoreHeader
        PROVE T!Next
    <3>1. T!Open
      BY <2>3, SMTT(30) DEF T!Open, StoreHeader, Store, TypeOK
    <3> QED
      BY <3>1, Zenon DEF T!Next
  <2>4. ASSUME NEW m \in Msgs, NEW s, Goto(m, s), s # "201", pc[m] = "upload",
               objGen = gen[m], StoreBlock(m)
        PROVE T!Next
    <3>1. objGen # 0 /\ blocks' = Append(blocks, m)
      BY <2>4, Zenon DEF TranscriptInv, CopyInv, StoreBlock, Store
    <3>2. objGen' # 0 /\ written' = written \cup {m}
      BY <2>4 DEF StoreBlock, Store, TypeOK
    <3>3. m \notin written
      BY <2>4, StoreLabels, Zenon DEF TranscriptInv, WrittenInv
    <3>4. T!AppendMsg(m)
      BY <2>4, <3>1, <3>2, <3>3, Zenon DEF T!AppendMsg
    <3> QED
      BY <3>4 DEF T!Next
  <2>5. ASSUME RemoveObject, UNCHANGED pc
        PROVE T!Next \/ UNCHANGED T!vars
    <3>1. CASE objGen # 0
      <4>1. T!Erase
        BY <2>5, <3>1, Zenon DEF T!Erase, RemoveObject, Acked
      <4> QED
        BY <4>1, Zenon DEF T!Next
    <3>2. CASE objGen = 0
      BY <2>5, <3>2, Zenon DEF T!vars, RemoveObject, Acked, TranscriptInv, GenerationInv
    <3> QED
      BY <3>1, <3>2, Zenon
  <2>6. ASSUME UNCHANGED <<gcsVars, pc>> PROVE UNCHANGED T!vars
    BY <2>6, Zenon DEF T!vars, gcsVars, objVars, Acked
  <2>7. ASSUME NEW m \in Msgs, PostMessage(m)
        PROVE T!Next \/ UNCHANGED T!vars
    <3>1. CASE BeginInsertOrGet(m) \/ InsertOrGet(m) \/ InsertOrGetFails(m)
      BY <3>1, <2>2, Zenon DEF BeginInsertOrGet, InsertOrGet, InsertOrGetFails, AfterCreate
    <3>2. CASE UploadHeader(m) \/ UploadHeaderFails(m)
      BY <3>2, <2>2, <2>3 DEF UploadHeader, UploadHeaderFails, gcsVars
    <3>3. CASE ReloadHeader(m) \/ Download(m) \/ DownloadFails(m) \/ Reload(m)
      BY <3>3, <2>2, Zenon DEF ReloadHeader, Download, DownloadFails, Reload
    <3>4. CASE Upload(m) \/ UploadFails(m)
      BY <3>4, <2>2, <2>4, Zenon DEF Upload, UploadFails, gcsVars
    <3>5. CASE IncrementMessageCount(m)
      BY <3>5, <2>2, Zenon DEF IncrementMessageCount
    <3>6. CASE IncrementFails(m) \/ InsertMessage(m) \/ InsertMessageFails(m)
      BY <3>6, <2>1, StoreLabels, Zenon DEF IncrementFails, InsertMessage, InsertMessageFails
    <3> QED
      BY <2>7, <3>1, <3>2, <3>3, <3>4, <3>5, <3>6, Zenon DEF PostMessage
  <2>8. ASSUME NEW d \in Deletes, DeleteConversation(d)
        PROVE T!Next \/ UNCHANGED T!vars
    BY <2>8, <2>5, <2>6, Zenon DEF DeleteConversation, SelectOwned, DeleteRow,
       DeleteQueryFails, GcsDelete, GcsDeleteFails, Commit, CommitFails
  <2>9. ASSUME NEW t \in Tickets, CreateTicket(t) PROVE UNCHANGED T!vars
    BY <2>9, <2>6, Zenon DEF CreateTicket, InsertTicket, InsertTicketFails
  <2>10. CASE UNCHANGED vars
    BY <2>10, <2>6 DEF vars
  <2> QED
    BY <2>7, <2>8, <2>9, <2>10 DEF Next, Finished
<1> QED
  BY <1>1, <1>2, TypeCorrect, TranscriptInductive, PTL
     DEF Spec, ImplementsTranscript, T!Spec

-----------------------------------------------------------------------------
(* The row lock and the tickets.                                           *)

\* The delete that holds the row is between its DELETE and its COMMIT, the row
\* is there, and no ticket got in.
LockInv ==
  lock # None => /\ dpc[lock] \in {"gcs_delete", "commit"}
                 /\ exists
                 /\ ~HasTicket

LEMMA LockInductive == Spec => [](LockInv /\ TicketHasConversation)
<1>1. Init => LockInv /\ TicketHasConversation
  BY Zenon DEF Init, LockInv, TicketHasConversation, HasTicket
<1>2. /\ TypeOK /\ LockInv /\ TicketHasConversation /\ [Next]_vars
      => LockInv' /\ TicketHasConversation'
  <2> SUFFICES ASSUME TypeOK, LockInv, TicketHasConversation, [Next]_vars
               PROVE LockInv' /\ TicketHasConversation'
    BY Zenon
  <2> USE StoreAssumption DEF StoreAssumption
  <2>1. ASSUME NEW m \in Msgs, PostMessage(m)
        PROVE LockInv' /\ TicketHasConversation'
    <3>1. UNCHANGED <<dpc, tpc>>
      BY <2>1, Zenon DEF PostMessage, BeginInsertOrGet, InsertOrGet, InsertOrGetFails,
         UploadHeader, UploadHeaderFails, ReloadHeader, Download,
         DownloadFails, Upload, UploadFails, Reload, IncrementMessageCount,
         IncrementFails, InsertMessage, InsertMessageFails
    <3>2. UNCHANGED lock
      BY <2>1, ZenonT(30) DEF PostMessage, BeginInsertOrGet, InsertOrGet, InsertOrGetFails,
         UploadHeader, UploadHeaderFails, ReloadHeader, Download,
         DownloadFails, Upload, UploadFails, Reload, IncrementMessageCount,
         IncrementFails, InsertMessage, InsertMessageFails, dbVars
    <3>3. exists => exists'
      <4>1. CASE InsertOrGet(m)
        BY <4>1, Zenon DEF InsertOrGet, rowVars
      <4>2. CASE ~InsertOrGet(m)
        BY <2>1, <4>2, Zenon DEF PostMessage, BeginInsertOrGet, InsertOrGetFails,
           UploadHeader, UploadHeaderFails, ReloadHeader, Download,
           DownloadFails, Upload, UploadFails, Reload, IncrementMessageCount,
           IncrementFails, InsertMessage, InsertMessageFails, dbVars, rowVars
      <4> QED
        BY <4>1, <4>2
    <3> QED
      BY <3>1, <3>2, <3>3 DEF LockInv, TicketHasConversation, HasTicket
  <2>2. ASSUME NEW d \in Deletes, DeleteConversation(d)
        PROVE LockInv' /\ TicketHasConversation'
    <3>0. UNCHANGED tpc /\ (HasTicket' <=> HasTicket)
      BY <2>2, Zenon DEF DeleteConversation, SelectOwned, DeleteRow, DeleteQueryFails,
         GcsDelete, GcsDeleteFails, Commit, CommitFails, HasTicket
    <3>1. CASE SelectOwned(d) \/ DeleteQueryFails(d) \/ GcsDelete(d)
      <4>1. UNCHANGED <<exists, lock>>
        BY <3>1, Zenon DEF SelectOwned, DeleteQueryFails, GcsDelete, dbVars, rowVars
      <4>2. lock # None => dpc'[lock] \in {"gcs_delete", "commit"}
        BY <3>1, Zenon DEF SelectOwned, DeleteQueryFails, GcsDelete, DGoto, LockInv, TypeOK
      <4> QED
        BY <3>0, <4>1, <4>2, Zenon DEF LockInv, TicketHasConversation
    <3>2. CASE DeleteRow(d)
      BY <3>0, <3>2 DEF DeleteRow, RowFree, DGoto, LockInv, TicketHasConversation,
         rowVars, TypeOK
    <3>3. CASE GcsDeleteFails(d)
      BY <3>0, <3>3, Zenon DEF GcsDeleteFails, Release, DGoto, LockInv,
         TicketHasConversation, rowVars, TypeOK
    <3>4. CASE Commit(d) \/ CommitFails(d)
      BY <3>0, <3>4, ZenonT(60) DEF Commit, CommitFails, Release, RemoveRow, DGoto, LockInv,
         TicketHasConversation, rowVars, TypeOK
    <3> QED
      BY <2>2, <3>1, <3>2, <3>3, <3>4, Zenon DEF DeleteConversation
  <2>3. ASSUME NEW t \in Tickets, CreateTicket(t)
        PROVE LockInv' /\ TicketHasConversation'
    <3>1. CASE InsertTicket(t)
      BY <3>1, Zenon DEF InsertTicket, RowFree, LockInv, TicketHasConversation,
         HasTicket, dbVars, rowVars, TypeOK
    <3>2. CASE InsertTicketFails(t)
      BY <3>2, Zenon DEF InsertTicketFails, LockInv, TicketHasConversation,
         HasTicket, dbVars, rowVars, TypeOK
    <3> QED
      BY <2>3, <3>1, <3>2, Zenon DEF CreateTicket
  <2>4. CASE UNCHANGED vars
    BY <2>4 DEF vars, dbVars, rowVars, LockInv, TicketHasConversation, HasTicket
  <2> QED
    BY <2>1, <2>2, <2>3, <2>4, Zenon DEF Next, Finished
<1> QED
  BY <1>1, <1>2, TypeCorrect, PTL DEF Spec

\* A ticket references an existing conversation, although delete_conversation
\* looks for tickets before it locks the row.
THEOREM TicketsKeepConversation == Spec => []TicketHasConversation
  BY LockInductive, PTL

-----------------------------------------------------------------------------
(* The Postgres index.                                                     *)

\* The appends the count may have counted.
Counted == {m \in Msgs : pc[m] \in {"insert", "201"}}

\* Deleting the row deletes its messages.
NoRowInv == ~exists => rows = {}

CountInv == ~wiped => count <= Cardinality(Counted)

\* An ordinal handed out stays below the count, and is not handed out again.
OrdinalInv ==
  ~wiped =>
    /\ \A r \in rows : r.ordinal < count /\ r.msg \in Counted
    /\ \A m \in Msgs : pc[m] = "insert" =>
         /\ exists /\ ordinal[m] < count /\ OrdinalFree(m)
         /\ \A k \in Msgs \ {m} : pc[k] = "insert" => ordinal[k] # ordinal[m]

\* A delete that is about to commit, and found no object to remove, holds the
\* row since before any append got as far as its insert.
CommitInv ==
  (~wiped /\ lock # None /\ dpc[lock] = "commit") => \A m \in Msgs : pc[m] # "insert"

IndexInv == NoRowInv /\ CountInv /\ OrdinalInv /\ CommitInv

(* What the proofs use about Cardinality.  It is proved at the end, where  *)
(* FiniteSetTheorems is brought in.                                        *)
CountingFacts ==
  /\ \A S \in SUBSET Msgs : IsFiniteSet(S) => Cardinality(S) \in Nat
  /\ \A S \in SUBSET Msgs : \A m \in Msgs \ S :
       IsFiniteSet(S) => Cardinality(S \cup {m}) = Cardinality(S) + 1
  /\ \A s \in Seq(Msgs) : \A S \in SUBSET Msgs :
       (\A m \in S : \E i \in DOMAIN s : s[i] = m)
         => IsFiniteSet(S) /\ Cardinality(S) <= Len(s)

\* What the steps of a request start from.
Facts == CountingFacts /\ TypeOK /\ TranscriptInv /\ LockInv /\ IndexInv

\* Every append counted has its block.
LEMMA CountedStored ==
  ASSUME Facts, ~wiped
  PROVE  /\ \A m \in Counted : InTranscript(m)
         /\ IsFiniteSet(Counted) /\ Cardinality(Counted) \in Nat
         /\ Cardinality(Counted) <= Len(blocks)
<1>1. ASSUME NEW m \in Counted PROVE InTranscript(m)
  <2>1. m \in written
    BY <1>1, StoreLabels, Zenon DEF Counted, Facts, TranscriptInv, WrittenInv
  <2> QED
    BY <2>1, Zenon DEF Facts, TranscriptInv, KeptInv
<1>2. blocks \in Seq(Msgs) /\ Counted \in SUBSET Msgs
  BY Zenon DEF Facts, TypeOK, Counted
<1>3. IsFiniteSet(Counted) /\ Cardinality(Counted) <= Len(blocks)
  BY <1>1, <1>2, Zenon DEF Facts, CountingFacts, InTranscript
<1> QED
  BY <1>1, <1>2, <1>3, Zenon DEF Facts, CountingFacts

\* A move that neither counts m nor touches the database.
LEMMA QuietMove ==
  ASSUME Facts, NEW m \in Msgs, NEW s, Goto(m, s),
         s \notin {"insert", "201"}, pc[m] \notin {"insert", "201"},
         UNCHANGED <<dbVars, ordinal, dpc, wiped>>
  PROVE  IndexInv'
<1>0. \A k \in Msgs : /\ pc'[k] = "insert" <=> pc[k] = "insert"
                      /\ pc'[k] = "201" <=> pc[k] = "201"
  BY Zenon DEF Facts, TypeOK, Goto
<1>1. Counted' = Counted
  BY <1>0, Zenon DEF Counted
<1> QED
  BY <1>0, <1>1, Zenon DEF Facts, IndexInv, NoRowInv, CountInv, OrdinalInv, CommitInv,
     OrdinalFree, dbVars, rowVars

\* A new row starts at zero: there was none, hence nothing in flight to insert.
LEMMA NewRow ==
  ASSUME Facts, NEW m \in Msgs, NEW s, Goto(m, s),
         s \notin {"insert", "201"}, pc[m] \notin {"insert", "201"},
         ~exists, exists', count' = 0,
         UNCHANGED <<rows, lock, ordinal, dpc, wiped>>
  PROVE  IndexInv'
<1>0. \A k \in Msgs : /\ pc'[k] = "insert" <=> pc[k] = "insert"
                      /\ pc'[k] = "201" <=> pc[k] = "201"
  BY Zenon DEF Facts, TypeOK, Goto
<1>1. Counted' = Counted
  BY <1>0, Zenon DEF Counted
<1>2. rows = {}
  BY Zenon DEF Facts, IndexInv, NoRowInv
<1>3. ~wiped => \A k \in Msgs : pc[k] # "insert"
  BY Zenon DEF Facts, IndexInv, OrdinalInv
<1>4. NoRowInv' /\ CommitInv'
  BY <1>0, <1>2, Zenon DEF Facts, IndexInv, NoRowInv, CommitInv
<1>5. OrdinalInv'
  BY <1>0, <1>2, <1>3, Zenon DEF OrdinalInv
<1>6. CountInv'
  <2> SUFFICES ASSUME ~wiped PROVE 0 <= Cardinality(Counted)
    BY <1>1 DEF CountInv
  <2>1. Cardinality(Counted) \in Nat
    BY CountedStored
  <2> QED
    BY <2>1
<1> QED
  BY <1>4, <1>5, <1>6 DEF IndexInv

\* m is counted: it moves past the increment, and the count grows by one at most.
LEMMA CountStep ==
  ASSUME Facts, NEW m \in Msgs, NEW s \in {"insert", "201"}, Goto(m, s),
         pc[m] = "increment", count' \in {count, count + 1}, UNCHANGED wiped
  PROVE  CountInv' /\ Counted' = Counted \cup {m}
<1>1. Counted' = Counted \cup {m} /\ m \in Msgs \ Counted /\ Counted \in SUBSET Msgs
  BY DEF Facts, TypeOK, Goto, Counted
<1>2. CountInv'
  <2> SUFFICES ASSUME ~wiped PROVE count' <= Cardinality(Counted')
    BY DEF CountInv
  <2>1. IsFiniteSet(Counted) /\ Cardinality(Counted) \in Nat
    BY CountedStored
  <2>2. Cardinality(Counted') = Cardinality(Counted) + 1
    BY <1>1, <2>1, Zenon DEF Facts, CountingFacts
  <2>3. count \in Nat /\ count <= Cardinality(Counted)
    BY Zenon DEF Facts, TypeOK, IndexInv, CountInv
  <2> QED
    BY <2>1, <2>2, <2>3
<1> QED
  BY <1>1, <1>2

\* increment_message_count hands out the count itself, above every ordinal.
LEMMA IncrementStep ==
  ASSUME Facts, NEW m \in Msgs, IncrementMessageCount(m), exists
  PROVE  IndexInv'
<1>0. /\ pc[m] = "increment" /\ lock = None /\ count' = count + 1 /\ Goto(m, "insert")
      /\ ordinal' = [ordinal EXCEPT ![m] = count]
      /\ UNCHANGED <<exists, rows, lock, wiped>>
  BY Zenon DEF IncrementMessageCount, RowFree, gcsVars
<1>1. CountInv' /\ Counted' = Counted \cup {m}
  BY <1>0, CountStep
<1>2. NoRowInv' /\ CommitInv'
  BY <1>0, Zenon DEF Facts, IndexInv, NoRowInv, CommitInv
<1>3. OrdinalInv'
  <2> SUFFICES ASSUME ~wiped PROVE OrdinalInv'
    BY <1>0 DEF OrdinalInv
  <2>1. count \in Nat /\ count' = count + 1 /\ count < count'
    BY <1>0 DEF Facts, TypeOK
  <2>2. /\ \A r \in rows : r.ordinal < count /\ r.msg \in Counted
        /\ \A k \in Msgs : pc[k] = "insert" => ordinal[k] < count /\ OrdinalFree(k)
        /\ \A k, l \in Msgs : pc[k] = "insert" /\ pc[l] = "insert" /\ k # l
             => ordinal[l] # ordinal[k]
    BY Zenon DEF Facts, IndexInv, OrdinalInv
  <2>3. /\ pc'[m] = "insert" /\ ordinal'[m] = count
        /\ \A k \in Msgs \ {m} : pc'[k] = pc[k] /\ ordinal'[k] = ordinal[k]
    BY <1>0, Zenon DEF Facts, TypeOK, Goto
  <2>4. /\ \A r \in rows : r.ordinal \in Nat
        /\ \A k \in Msgs : ordinal[k] \in Int
    <3>1. rows \subseteq MessageRow /\ ordinal \in [Msgs -> Int]
      BY DEF Facts, TypeOK
    <3>2. \A r \in MessageRow : r.ordinal \in Nat
      BY DEF MessageRow
    <3> QED BY <3>1, <3>2
  <2>5. \A r \in rows : r.ordinal < count' /\ r.ordinal # count
    BY <2>1, <2>2, <2>4
  <2>6. \A k \in Msgs : pc[k] = "insert" => ordinal[k] < count' /\ ordinal[k] # count
    BY <2>1, <2>2, <2>4
  <2>7. \A r \in rows' : r.ordinal < count' /\ r.msg \in Counted'
    BY <1>0, <1>1, <2>2, <2>5, Zenon
  <2>8. ASSUME NEW k \in Msgs, pc'[k] = "insert"
        PROVE  /\ exists' /\ ordinal'[k] < count' /\ OrdinalFree(k)'
               /\ \A l \in Msgs \ {k} : pc'[l] = "insert" => ordinal'[l] # ordinal'[k]
    <3>1. CASE k = m
      BY <1>0, <2>1, <2>3, <2>5, <2>6, <3>1, ZenonT(60) DEF OrdinalFree
    <3>2. CASE k # m
      <4>1. pc[k] = "insert" /\ ordinal'[k] = ordinal[k]
        BY <2>3, <2>8, <3>2, Zenon
      <4>2. exists' /\ ordinal'[k] < count' /\ OrdinalFree(k)'
        BY <1>0, <2>2, <2>6, <4>1, Zenon DEF OrdinalFree
      <4>3. ASSUME NEW l \in Msgs \ {k}, pc'[l] = "insert"
            PROVE  ordinal'[l] # ordinal'[k]
        BY <2>2, <2>3, <2>6, <4>1, <4>3, Zenon
      <4> QED
        BY <4>2, <4>3
    <3> QED
      BY <3>1, <3>2
  <2> QED
    BY <2>7, <2>8, ZenonT(60) DEF OrdinalInv
<1> QED
  BY <1>1, <1>2, <1>3 DEF IndexInv

\* The increment fails: m is answered 201 without an ordinal.
LEMMA IncrementFailsStep ==
  ASSUME Facts, NEW m \in Msgs, IncrementFails(m)
  PROVE  IndexInv'
<1>0. /\ pc[m] = "increment" /\ Goto(m, "201")
      /\ count' = count \/ count' = count + 1
      /\ UNCHANGED <<exists, rows, lock, ordinal, dpc, wiped>>
  BY Zenon DEF IncrementFails, gcsVars, locals
<1>1. CountInv' /\ Counted' = Counted \cup {m}
  BY <1>0, CountStep
<1>2. \A k \in Msgs : pc'[k] = "insert" <=> pc[k] = "insert"
  BY <1>0, Zenon DEF Facts, TypeOK, Goto
<1>3. NoRowInv' /\ CommitInv'
  BY <1>0, <1>2, Zenon DEF Facts, IndexInv, NoRowInv, CommitInv
<1>4. OrdinalInv'
  <2> SUFFICES ASSUME ~wiped PROVE OrdinalInv'
    BY <1>0 DEF OrdinalInv
  <2>1. /\ \A r \in rows : r.ordinal < count /\ r.msg \in Counted
        /\ \A k \in Msgs : pc[k] = "insert" =>
             /\ exists /\ ordinal[k] < count /\ OrdinalFree(k)
             /\ \A l \in Msgs \ {k} : pc[l] = "insert" => ordinal[l] # ordinal[k]
    BY Zenon DEF Facts, IndexInv, OrdinalInv
  <2>2. \A x \in Int : x < count => x < count'
    BY <1>0 DEF Facts, TypeOK
  <2>3. /\ \A r \in rows : r.ordinal \in Int
        /\ \A k \in Msgs : ordinal[k] \in Int
    BY DEF Facts, TypeOK, MessageRow
  <2> QED
    BY <1>0, <1>1, <1>2, <2>1, <2>2, <2>3, Zenon DEF OrdinalInv, OrdinalFree
<1> QED
  BY <1>1, <1>3, <1>4 DEF IndexInv

\* insert_message: the row of m, or nothing.
LEMMA InsertStep ==
  ASSUME Facts, NEW m \in Msgs, InsertMessage(m) \/ InsertMessageFails(m)
  PROVE  IndexInv'
<1>0. /\ pc[m] = "insert" /\ Goto(m, "201")
      /\ UNCHANGED <<exists, count, lock, ordinal, dpc, wiped>>
      /\ UNCHANGED rows \/ InsertRow(m)
  BY Zenon DEF InsertMessage, InsertMessageFails, gcsVars, rowVars, locals
<1>1. /\ pc'[m] = "201"
      /\ \A k \in Msgs \ {m} : pc'[k] = pc[k]
  BY <1>0, Zenon DEF Facts, TypeOK, Goto
<1>2. Counted' = Counted /\ m \in Counted
  BY <1>0, <1>1, Zenon DEF Counted
<1>3. CountInv'
  BY <1>0, <1>2, Zenon DEF Facts, IndexInv, CountInv
<1>4. NoRowInv'
  BY <1>0, Zenon DEF Facts, IndexInv, NoRowInv, InsertRow
<1>5. \A k \in Msgs : pc'[k] = "insert" => pc[k] = "insert" /\ k # m
  BY <1>1
<1>6. CommitInv'
  BY <1>0, <1>5, Zenon DEF Facts, IndexInv, CommitInv
<1>7. OrdinalInv'
  <2> SUFFICES ASSUME ~wiped PROVE OrdinalInv'
    BY <1>0, Zenon DEF OrdinalInv
  <2> DEFINE new == [ordinal |-> ordinal[m], msg |-> m]
  <2>1. new.ordinal = ordinal[m] /\ new.msg = m
    OBVIOUS
  <2>2. \A r \in rows' : r \in rows \/ r = new
    BY <1>0, Zenon DEF InsertRow
  <2> HIDE DEF new
  <2>3. /\ \A r \in rows : r.ordinal < count /\ r.msg \in Counted
        /\ \A k \in Msgs : pc[k] = "insert" =>
             /\ exists /\ ordinal[k] < count /\ OrdinalFree(k)
             /\ \A l \in Msgs \ {k} : pc[l] = "insert" => ordinal[l] # ordinal[k]
    BY Zenon DEF Facts, IndexInv, OrdinalInv
  <2>4. \A r \in rows' : r.ordinal < count' /\ r.msg \in Counted'
    BY <1>0, <1>2, <2>1, <2>2, <2>3, Zenon
  <2>5. ASSUME NEW k \in Msgs, pc'[k] = "insert"
        PROVE  /\ exists' /\ ordinal'[k] < count' /\ OrdinalFree(k)'
               /\ \A l \in Msgs \ {k} : pc'[l] = "insert" => ordinal'[l] # ordinal'[k]
    <3>1. pc[k] = "insert" /\ k # m
      BY <1>5, <2>5
    <3>2. ordinal[m] # ordinal[k]
      BY <1>0, <2>3, <3>1, Zenon
    <3>3. OrdinalFree(k)'
      BY <1>0, <2>1, <2>2, <2>3, <3>1, <3>2, Zenon DEF OrdinalFree
    <3> QED
      BY <1>0, <1>5, <2>3, <3>1, <3>3, Zenon
  <2> QED
    BY <2>4, <2>5, Zenon DEF OrdinalInv
<1> QED
  BY <1>3, <1>4, <1>6, <1>7 DEF IndexInv

LEMMA PostMessageIndex ==
  ASSUME Facts, NEW m \in Msgs, PostMessage(m)
  PROVE  IndexInv'
<1>1. CASE InsertOrGet(m) \/ InsertOrGetFails(m)
  <2>0. /\ pc[m] = "conflict"
        /\ UNCHANGED <<rows, lock, ordinal, dpc, wiped>>
    BY <1>1, Zenon DEF InsertOrGet, InsertOrGetFails, gcsVars, locals
  <2>1. PICK s \in {"422_timestamp", "create_header", "download", "422_user", "500"} : Goto(m, s)
    BY <1>1, Zenon DEF InsertOrGet, InsertOrGetFails, AfterCreate
  <2>2. CASE UNCHANGED rowVars
    BY <2>0, <2>1, <2>2, QuietMove DEF dbVars
  <2>3. CASE ~exists /\ exists' = TRUE /\ count' = 0
    BY <2>0, <2>1, <2>3, NewRow
  <2> QED
    BY <1>1, <2>2, <2>3, Zenon DEF InsertOrGet, InsertOrGetFails
<1>2. CASE IncrementMessageCount(m)
  <2>1. CASE exists
    BY <1>2, <2>1, IncrementStep, Zenon
  <2>2. CASE ~exists
    BY <1>2, <2>2, QuietMove, Zenon DEF IncrementMessageCount, dbVars, rowVars, gcsVars
  <2> QED
    BY <2>1, <2>2
<1>3. CASE IncrementFails(m)
  BY <1>3, IncrementFailsStep
<1>4. CASE InsertMessage(m) \/ InsertMessageFails(m)
  BY <1>4, InsertStep
<1>5. CASE BeginInsertOrGet(m)
  BY <1>5, QuietMove, Zenon DEF BeginInsertOrGet, gcsVars
<1>6. CASE UploadHeader(m)
  BY <1>6, QuietMove, Zenon DEF UploadHeader, locals
<1>7. CASE UploadHeaderFails(m)
  BY <1>7, QuietMove, Zenon DEF UploadHeaderFails, locals
<1>8. CASE ReloadHeader(m)
  BY <1>8, QuietMove, Zenon DEF ReloadHeader, gcsVars, locals
<1>9. CASE Download(m)
  BY <1>9, QuietMove, Zenon DEF Download, gcsVars
<1>10. CASE DownloadFails(m)
  BY <1>10, QuietMove, Zenon DEF DownloadFails, gcsVars, locals
<1>11. CASE Upload(m)
  BY <1>11, QuietMove, Zenon DEF Upload
<1>12. CASE UploadFails(m)
  BY <1>12, QuietMove, Zenon DEF UploadFails
<1>13. CASE Reload(m)
  BY <1>13, QuietMove, Zenon DEF Reload, gcsVars, locals
<1> QED
  BY <1>1, <1>2, <1>3, <1>4, <1>5, <1>6, <1>7, <1>8, <1>9, <1>10, <1>11, <1>12, <1>13,
     Zenon DEF PostMessage

\* A step that leaves the appends, the count and the rows alone.
LEMMA IndexUntouched ==
  ASSUME Facts, UNCHANGED <<exists, count, rows, pc, ordinal>>, ~wiped' => ~wiped, CommitInv'
  PROVE  IndexInv'
<1>1. Counted' = Counted
  BY Zenon DEF Counted
<1> QED
  BY <1>1, Zenon DEF Facts, IndexInv, NoRowInv, CountInv, OrdinalInv, OrdinalFree

\* The row goes with everything in it.  The delete was about to commit, so no
\* append is between its increment and its insert.
LEMMA RemoveRowStep ==
  ASSUME Facts, NEW d \in Deletes, dpc[d] = "commit", lock = d, lock' = None,
         ~exists', count' = 0, rows' = {}, UNCHANGED <<pc, ordinal, wiped>>
  PROVE  IndexInv'
<1>0. None # d
  BY StoreAssumption DEF StoreAssumption
<1>1. ~wiped => \A m \in Msgs : pc[m] # "insert"
  BY <1>0, Zenon DEF Facts, IndexInv, CommitInv
<1>2. NoRowInv' /\ CommitInv'
  BY Zenon DEF NoRowInv, CommitInv
<1>3. OrdinalInv'
  BY <1>1, Zenon DEF OrdinalInv
<1>4. CountInv'
  <2>1. Counted' = Counted
    BY Zenon DEF Counted
  <2> SUFFICES ASSUME ~wiped PROVE 0 <= Cardinality(Counted)
    BY <2>1 DEF CountInv
  <2>2. Cardinality(Counted) \in Nat
    BY CountedStored
  <2> QED
    BY <2>2
<1> QED
  BY <1>2, <1>3, <1>4 DEF IndexInv

LEMMA DeleteConversationIndex ==
  ASSUME Facts, NEW d \in Deletes, DeleteConversation(d)
  PROVE  IndexInv'
<1>0. None # d /\ dpc \in [Deletes -> DeleteSteps \cup DeleteResponses] /\ LockInv /\ CommitInv
      /\ lock \in Deletes \cup {None}
  BY StoreAssumption, Zenon DEF StoreAssumption, Facts, TypeOK, IndexInv
<1>1. CASE SelectOwned(d) \/ DeleteQueryFails(d)
  <2>1. UNCHANGED <<exists, count, rows, lock, pc, ordinal, wiped>>
    BY <1>1, Zenon DEF SelectOwned, DeleteQueryFails, dbVars, rowVars, gcsVars, locals
  <2>2. PICK s \in {"404", "409", "delete_row", "503"} : DGoto(d, s)
    BY <1>1 DEF SelectOwned, DeleteQueryFails
  <2>3. CommitInv'
    BY <1>0, <2>1, <2>2, Zenon DEF CommitInv, DGoto
  <2> QED
    BY <2>1, <2>3, IndexUntouched, Zenon
<1>2. CASE DeleteRow(d)
  <2>1. UNCHANGED <<exists, count, rows, pc, ordinal, wiped>>
    BY <1>2, Zenon DEF DeleteRow, rowVars, gcsVars, locals
  <2>2. lock = None /\ lock' \in {d, None}
    BY <1>2, Zenon DEF DeleteRow, RowFree
  <2>3. PICK s \in {"gcs_delete", "503"} : DGoto(d, s)
    BY <1>2 DEF DeleteRow
  <2>4. CommitInv'
    BY <1>0, <2>2, <2>3, Zenon DEF CommitInv, DGoto
  <2> QED
    BY <2>1, <2>4, IndexUntouched, Zenon
<1>3. CASE GcsDelete(d)
  <2>1. UNCHANGED <<exists, count, rows, lock, pc, ordinal>> /\ RemoveObject
    BY <1>3, Zenon DEF GcsDelete, dbVars, rowVars, locals
  <2>2. ASSUME ~wiped' PROVE ~wiped /\ \A m \in Msgs : pc[m] # "insert"
    <3>1. ~wiped /\ objGen = 0
      BY <2>1, <2>2, Zenon DEF RemoveObject
    <3>2. blocks = <<>>
      BY <3>1, Zenon DEF Facts, TranscriptInv, GenerationInv
    <3>3. \A m \in Msgs : ~InTranscript(m)
      BY <3>2 DEF InTranscript
    <3> QED
      BY <3>1, <3>3, CountedStored, Zenon DEF Counted
  <2>3. CommitInv'
    BY <2>1, <2>2, Zenon DEF CommitInv
  <2> QED
    BY <2>1, <2>2, <2>3, IndexUntouched, Zenon
<1>4. CASE GcsDeleteFails(d)
  <2>1. UNCHANGED <<exists, count, rows, pc, ordinal>> /\ Release(d) /\ DGoto(d, "503")
    BY <1>4, Zenon DEF GcsDeleteFails, rowVars, locals
  <2>2. ~wiped' => ~wiped
    BY <1>4, Zenon DEF GcsDeleteFails, RemoveObject, gcsVars
  <2>3. CommitInv'
    BY <1>0, <2>1, <2>2, Zenon DEF CommitInv, Release, DGoto
  <2> QED
    BY <2>1, <2>2, <2>3, IndexUntouched, Zenon
<1>5. CASE Commit(d) \/ CommitFails(d)
  <2>1. /\ dpc[d] = "commit" /\ Release(d) /\ UNCHANGED <<pc, ordinal, wiped>>
        /\ RemoveRow(d) \/ UNCHANGED <<rowVars, rows>>
    BY <1>5, Zenon DEF Commit, CommitFails, gcsVars, locals
  <2>2. PICK s \in {"204", "503"} : DGoto(d, s)
    BY <1>5 DEF Commit, CommitFails
  <2>3. CASE lock = d /\ RemoveRow(d)
    BY <2>1, <2>3, RemoveRowStep, Zenon DEF RemoveRow, Release
  <2>4. CASE UNCHANGED <<rowVars, rows>>
    <3>1. CommitInv'
      BY <1>0, <2>1, <2>2, Zenon DEF CommitInv, Release, DGoto
    <3> QED
      BY <2>1, <2>4, <3>1, IndexUntouched, Zenon DEF rowVars
  <2> QED
    BY <2>1, <2>3, <2>4, Zenon DEF RemoveRow
<1> QED
  BY <1>1, <1>2, <1>3, <1>4, <1>5, Zenon DEF DeleteConversation

LEMMA IndexStep ==
  ASSUME Facts, [Next]_vars
  PROVE  IndexInv'
<1>1. CASE \E m \in Msgs : PostMessage(m)
  BY <1>1, PostMessageIndex
<1>2. CASE \E d \in Deletes : DeleteConversation(d)
  BY <1>2, DeleteConversationIndex
<1>3. CASE (\E t \in Tickets : CreateTicket(t)) \/ UNCHANGED vars
  <2>1. UNCHANGED <<exists, count, rows, lock, pc, ordinal, dpc, wiped>>
    BY <1>3, Zenon DEF CreateTicket, InsertTicket, InsertTicketFails, vars, dbVars, rowVars,
       gcsVars, locals
  <2>2. CommitInv'
    BY <2>1, Zenon DEF Facts, IndexInv, CommitInv
  <2> QED
    BY <2>1, <2>2, IndexUntouched, Zenon
<1> QED
  BY <1>1, <1>2, <1>3, Zenon DEF Next, Finished

INSTANCE FiniteSetTheorems

LEMMA Counting == CountingFacts
<1>1. ASSUME NEW s \in Seq(Msgs), NEW S \in SUBSET Msgs,
             \A m \in S : \E i \in DOMAIN s : s[i] = m
      PROVE  IsFiniteSet(S) /\ Cardinality(S) <= Len(s)
  <2> DEFINE at == [i \in DOMAIN s |-> s[i]]
  <2> DEFINE of == {s[i] : i \in DOMAIN s}
  <2>1. DOMAIN s = 1 .. Len(s) /\ Len(s) \in Nat
    OBVIOUS
  <2>2. IsFiniteSet(DOMAIN s) /\ Cardinality(DOMAIN s) = Len(s)
    BY <2>1, FS_Interval, SMTT(30)
  <2>3. at \in Surjection(DOMAIN s, of)
    BY Zenon DEF Surjection
  <2>4. IsFiniteSet(of) /\ Cardinality(of) <= Len(s)
    BY <2>2, <2>3, FS_Surjection
  <2>5. S \subseteq of
    BY <1>1, Zenon
  <2>6. IsFiniteSet(S) /\ Cardinality(S) <= Cardinality(of)
    BY <2>4, <2>5, FS_Subset, Zenon
  <2>7. Cardinality(S) \in Nat /\ Cardinality(of) \in Nat
    BY <2>4, <2>6, FS_CardinalityType
  <2> QED
    BY <2>1, <2>4, <2>6, <2>7
<1>2. ASSUME NEW S \in SUBSET Msgs, NEW m \in Msgs \ S, IsFiniteSet(S)
      PROVE  Cardinality(S \cup {m}) = Cardinality(S) + 1
  BY <1>2, FS_AddElement
<1> QED
  BY <1>1, <1>2, FS_CardinalityType, Zenon DEF CountingFacts

\* Until a delete removes the transcript, the index agrees with it: the count and
\* the ordinals of conversation_messages never run ahead of the stored blocks, and
\* insert_message never meets an ordinal already used.
THEOREM IndexAgrees == Spec => []IndexSound
<1>1. Init => IndexInv
  <2> SUFFICES ASSUME Init PROVE IndexInv
    OBVIOUS
  <2>1. CountInv
    <3>1. Counted = {} /\ count = 0
      BY DEF Init, Counted
    <3> QED
      BY <3>1, FS_EmptySet DEF CountInv
  <2>2. NoRowInv /\ CommitInv
    BY Zenon DEF Init, NoRowInv, CommitInv
  <2>3. OrdinalInv
    BY DEF Init, OrdinalInv
  <2> QED
    BY <2>1, <2>2, <2>3 DEF IndexInv
<1>2. TypeOK /\ TranscriptInv /\ LockInv /\ IndexInv /\ [Next]_vars => IndexInv'
  BY Counting, IndexStep, Zenon DEF Facts
<1>3. TypeOK /\ TranscriptInv /\ LockInv /\ IndexInv => IndexSound
  <2> SUFFICES ASSUME Facts, ~wiped PROVE IndexSound
    BY Counting, Zenon DEF Facts, IndexSound
  <2>1. count <= Len(blocks)
    <3>1. count <= Cardinality(Counted) /\ count \in Nat
      BY Zenon DEF Facts, TypeOK, IndexInv, CountInv
    <3>2. Cardinality(Counted) \in Nat /\ Cardinality(Counted) <= Len(blocks)
      BY CountedStored
    <3>3. Len(blocks) \in Nat
      BY DEF Facts, TypeOK
    <3> QED
      BY <3>1, <3>2, <3>3
  <2> QED
    BY <2>1, CountedStored, Zenon DEF Facts, IndexInv, OrdinalInv, IndexSound
<1> QED
  BY <1>1, <1>2, <1>3, TypeCorrect, TranscriptInductive, LockInductive, PTL DEF Spec

=============================================================================
