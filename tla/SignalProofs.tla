---------------------------- MODULE SignalProofs ----------------------------
(***************************************************************************)
(* The safety of Signal for any pages, topics, number of requests and of   *)
(* failures.  PostsOK says how far a request has come: until the worker    *)
(* has answered it, no ticket counts it, so a commit counts it once.       *)
(* Opened is what bounds the number of tickets, and PanelOK is PanelUsable *)
(* together with the request its disabled button waits for.                *)
(***************************************************************************)
EXTENDS Signal, TLAPS

Uncounted(p) == \A t \in DOMAIN tickets : p \notin by[t]

PostsOK ==
  \A p \in Posts :
    /\ pc[p] = "idle" => kind[p] = "none"
    /\ pc[p] # "idle" => owner[p] \in Pages /\ topic[p] \in Topics
    /\ kind[p] \in {"submit", "anyway"} => owner[p] \in Panels
    /\ kind[p] \in {"form", "gap"} => owner[p] \in Forms
    /\ waiting[p] => kind[p] \in {"submit", "anyway", "form"}
    /\ pc[p] \in {"lock", "update"} => seen[p] \in DOMAIN tickets
    /\ pc[p] \in {"select", "lock", "update"} => ~Override(p)
    /\ pc[p] # "answered" => action[p] = "none" /\ Uncounted(p)

\* A ticket counts the raise that opened it.
Opened == \A t \in DOMAIN tickets : by[t] # {}

BoardOK == ScoreCountsSignals /\ ActionTellsBoard /\ OverrideVisible
           /\ PanelToldIsRecorded /\ Opened

NoAnyway(r) == \A p \in Posts : ~(owner[p] = r /\ kind[p] = "anyway")
Awaited(r)  == \E p \in Posts : waiting[p] /\ owner[p] = r

PanelOK ==
  \A r \in Panels : NoAnyway(r) =>
    /\ anyway[r] /\ cancel[r]
    /\ submit[r] \/ row[r] \/ Awaited(r)

Inv == TypeOK /\ PostsOK /\ BoardOK /\ PanelOK

-----------------------------------------------------------------------------
(* What the proofs use about Cardinality.  It is proved at the end, where  *)
(* FiniteSetTheorems is brought in.                                        *)
CountingFacts ==
  /\ Cardinality({}) = 0
  /\ \A p \in Posts : Cardinality({p}) = 1
  /\ \A S \in SUBSET Posts : \A p \in Posts \ S : Cardinality(S \cup {p}) = Cardinality(S) + 1

(* There are no more tickets than requests. *)
Bounded == \A t \in DOMAIN tickets : t \in 1 .. MaxPosts

-----------------------------------------------------------------------------
(* TypeOK in parts: an action leaves most of them alone. *)

PanelTypes == /\ shown \in [Panels -> BOOLEAN] /\ submit \in [Panels -> BOOLEAN]
              /\ row \in [Panels -> BOOLEAN] /\ anyway \in [Panels -> BOOLEAN]
              /\ cancel \in [Panels -> BOOLEAN]

PageTypes == /\ PanelTypes
             /\ phase \in [Forms -> {"open", "submitting", "done"}]
             /\ told \subseteq Posts

PostTypes == /\ kind \in [Posts -> Kinds \cup {"none"}]
             /\ owner \in [Posts -> Pages \cup {"none"}]
             /\ topic \in [Posts -> Topics \cup {"none"}]

WorkTypes == /\ pc \in [Posts -> Steps \cup Ends \cup {"idle"}]
             /\ outcome \in [Posts -> Outcomes]
             /\ action \in [Posts -> Actions]
             /\ seen \in [Posts -> 0..MaxPosts]

Ticket == [topic : Topics, score : Nat \ {0}, judges_not_passed : BOOLEAN,
           conversation : Pages]

BoardTypes == /\ tickets \in Seq(Ticket)
              /\ by \in Seq(SUBSET Posts) /\ Len(by) = Len(tickets)
              /\ lock \in Seq(0..MaxPosts) /\ Len(lock) = Len(tickets)

OtherTypes == /\ waiting \in [Posts -> BOOLEAN]
              /\ owned \in [Pages -> BOOLEAN]
              /\ faults \in 0..MaxFaults

LEMMA TypeParts ==
  /\ TypeOK <=> PageTypes /\ PostTypes /\ WorkTypes /\ BoardTypes /\ OtherTypes
  /\ TypeOK' <=> PageTypes' /\ PostTypes' /\ WorkTypes' /\ BoardTypes' /\ OtherTypes'
  BY DEF TypeOK, PageTypes, PanelTypes, PostTypes, WorkTypes, BoardTypes, OtherTypes, Ticket

LEMMA SeqElement == ASSUME NEW S, NEW s \in Seq(S), NEW i \in 1 .. Len(s) PROVE s[i] \in S
  OBVIOUS

LEMMA SeqOfFunction ==
  ASSUME NEW S, NEW n \in Nat, NEW f \in [1 .. n -> S]
  PROVE  f \in Seq(S) /\ Len(f) = n
<1>1. f \in Seq(S)
  OBVIOUS
<1> QED BY <1>1

\* The columns of the board are as long as the table.
LEMMA Columns ==
  ASSUME BoardTypes
  PROVE  /\ Len(tickets) \in Nat
         /\ DOMAIN tickets = 1 .. Len(tickets)
         /\ DOMAIN by = DOMAIN tickets /\ DOMAIN lock = DOMAIN tickets
         /\ \A t \in DOMAIN tickets : tickets[t] \in Ticket /\ by[t] \subseteq Posts
                                      /\ lock[t] \in 0..MaxPosts
<1>1. /\ Len(tickets) \in Nat /\ DOMAIN tickets = 1 .. Len(tickets)
      /\ DOMAIN by = DOMAIN tickets /\ DOMAIN lock = DOMAIN tickets
  BY DEF BoardTypes
<1>2. ASSUME NEW t \in DOMAIN tickets
      PROVE  tickets[t] \in Ticket /\ by[t] \in SUBSET Posts /\ lock[t] \in 0..MaxPosts
  <2>1. t \in 1 .. Len(tickets) /\ t \in 1 .. Len(by) /\ t \in 1 .. Len(lock)
    BY <1>1 DEF BoardTypes
  <2> QED BY <2>1, SeqElement, Zenon DEF BoardTypes
<1> QED BY <1>1, <1>2

LEMMA UnlockTypes ==
  ASSUME BoardTypes, NEW p, Unlock(p)
  PROVE  lock' \in Seq(0..MaxPosts) /\ Len(lock') = Len(lock)
<1>1. Len(lock) \in Nat /\ DOMAIN lock = 1 .. Len(lock)
  BY DEF BoardTypes
<1>2. \A t \in 1 .. Len(lock) : lock[t] \in 0..MaxPosts
  BY SeqElement, Zenon DEF BoardTypes
<1>3. lock' \in [1 .. Len(lock) -> 0..MaxPosts]
  BY <1>1, <1>2, SignalAssumption DEF Unlock, SignalAssumption
<1> QED BY <1>1, <1>3, SeqOfFunction, Zenon

\* A committed increment counts one more raise, on the row that was selected.
LEMMA IncrementedBoard ==
  ASSUME TypeOK, NEW p \in Posts, seen[p] \in DOMAIN tickets, Incremented(p)
  PROVE  /\ BoardTypes'
         /\ DOMAIN tickets' = DOMAIN tickets
         /\ \A t \in DOMAIN tickets :
              /\ tickets'[t].conversation = tickets[t].conversation
              /\ tickets'[t].judges_not_passed = tickets[t].judges_not_passed
              /\ t = seen[p] => tickets'[t].score = tickets[t].score + 1
                                /\ by'[t] = by[t] \cup {p}
              /\ t # seen[p] => tickets'[t].score = tickets[t].score /\ by'[t] = by[t]
<1> DEFINE i == seen[p]
           new == [tickets[i] EXCEPT !.score = @ + 1]
<1>0. BoardTypes
  BY TypeParts
<1>1. i \in 1 .. Len(tickets) /\ i \in 1 .. Len(by)
  BY <1>0, Columns DEF BoardTypes
<1>2. tickets[i] \in Ticket /\ by[i] \subseteq Posts
  BY <1>0, Columns
<1>3. /\ new \in Ticket /\ new.score = tickets[i].score + 1
      /\ new.conversation = tickets[i].conversation
      /\ new.judges_not_passed = tickets[i].judges_not_passed
  BY <1>2 DEF Ticket
<1>4. tickets' = [tickets EXCEPT ![i] = new]
  BY DEF Incremented
<1>5. by' = [by EXCEPT ![i] = by[i] \cup {p}]
  BY DEF Incremented
<1>6. by[i] \cup {p} \in SUBSET Posts
  BY <1>2
<1> HIDE DEF new, i
<1>7. /\ tickets' \in Seq(Ticket) /\ Len(tickets') = Len(tickets)
      /\ \A t \in 1 .. Len(tickets) : tickets'[t] = IF t = i THEN new ELSE tickets[t]
  BY <1>0, <1>1, <1>3, <1>4 DEF BoardTypes
<1>8. /\ by' \in Seq(SUBSET Posts) /\ Len(by') = Len(by)
      /\ \A t \in 1 .. Len(by) : by'[t] = IF t = i THEN by[i] \cup {p} ELSE by[t]
  BY <1>0, <1>1, <1>5, <1>6 DEF BoardTypes
<1>9. lock' \in Seq(0..MaxPosts) /\ Len(lock') = Len(lock)
  BY <1>0, UnlockTypes DEF Incremented
<1>10. BoardTypes'
  BY <1>0, <1>7, <1>8, <1>9, Zenon DEF BoardTypes
<1>11. DOMAIN tickets = 1 .. Len(tickets) /\ DOMAIN tickets' = DOMAIN tickets
       /\ Len(by) = Len(tickets)
  BY <1>0, <1>7 DEF BoardTypes
<1> QED BY <1>3, <1>7, <1>8, <1>10, <1>11 DEF i

\* A committed insert adds a row, which counts the raise that made it.
LEMMA InsertedBoard ==
  ASSUME TypeOK, NEW p \in Posts, owner[p] \in Pages, topic[p] \in Topics, Inserted(p)
  PROVE  /\ BoardTypes'
         /\ DOMAIN tickets' = DOMAIN tickets \cup {Len(tickets) + 1}
         /\ Len(tickets) + 1 \notin DOMAIN tickets
         /\ \A t \in DOMAIN tickets : tickets'[t] = tickets[t] /\ by'[t] = by[t]
         /\ LET t == Len(tickets) + 1 IN
              /\ tickets'[t].conversation = owner[p]
              /\ tickets'[t].judges_not_passed = Override(p)
              /\ tickets'[t].score = 1
              /\ by'[t] = {p}
<1> DEFINE new == [topic |-> topic[p], score |-> 1, judges_not_passed |-> Override(p),
                   conversation |-> owner[p]]
           n == Len(tickets)
<1>0. BoardTypes /\ n \in Nat /\ DOMAIN tickets = 1 .. n
  BY TypeParts, Columns, Zenon
<1>1. /\ new \in Ticket /\ new.score = 1 /\ new.conversation = owner[p]
      /\ new.judges_not_passed = Override(p)
  BY DEF Ticket, Override
<1>2. tickets' = Append(tickets, new) /\ by' = Append(by, {p}) /\ lock' = Append(lock, 0)
  BY DEF Inserted
<1> HIDE DEF new, n
<1>3. /\ tickets' \in Seq(Ticket) /\ Len(tickets') = n + 1 /\ tickets'[n + 1] = new
      /\ \A t \in 1 .. n : tickets'[t] = tickets[t]
  BY <1>0, <1>1, <1>2 DEF BoardTypes, n
<1>4. /\ by' \in Seq(SUBSET Posts) /\ Len(by') = n + 1 /\ by'[n + 1] = {p}
      /\ \A t \in 1 .. n : by'[t] = by[t]
  BY <1>0, <1>2 DEF BoardTypes, n
<1>5. lock' \in Seq(0..MaxPosts) /\ Len(lock') = n + 1
  BY <1>0, <1>2, SignalAssumption DEF BoardTypes, n, SignalAssumption
<1>6. BoardTypes'
  BY <1>3, <1>4, <1>5 DEF BoardTypes
<1>7. DOMAIN tickets' = 1 .. n + 1
  BY <1>3
<1> QED BY <1>0, <1>1, <1>3, <1>4, <1>6, <1>7 DEF n

-----------------------------------------------------------------------------
(* The steps, by what they change. *)

LEMMA FaultTypes ==
  ASSUME TypeOK, Fault \/ UNCHANGED faults
  PROVE  faults' \in 0 .. MaxFaults
  BY SignalAssumption DEF SignalAssumption, TypeOK, Fault

\* A new request: nothing counted it before, and nothing counts it yet.
LEMMA SendInv ==
  ASSUME Inv, NEW k \in Kinds, NEW r \in Pages, NEW t \in Topics, NEW s,
         k \in {"submit", "anyway"} => r \in Panels,
         k \in {"form", "gap"} => r \in Forms,
         s = IF k = "gap" THEN "select" ELSE "check",
         Send(k, r, t, s)
  PROVE  /\ PostTypes' /\ WorkTypes' /\ BoardTypes' /\ OtherTypes' /\ told' = told
         /\ PostsOK' /\ BoardOK'
         /\ \A x \in Panels : NoAnyway(x)' => NoAnyway(x) /\ ~(x = r /\ k = "anyway")
         /\ \A x \in Panels : Awaited(x) => Awaited(x)'
         /\ k # "gap" => Awaited(r)'
<1> USE DEF Inv
<1>1. PICK p \in Posts :
        /\ pc[p] = "idle"
        /\ kind' = [kind EXCEPT ![p] = k]
        /\ owner' = [owner EXCEPT ![p] = r]
        /\ topic' = [topic EXCEPT ![p] = t]
        /\ waiting' = [waiting EXCEPT ![p] = k # "gap"]
        /\ pc' = [pc EXCEPT ![p] = s]
        /\ UNCHANGED <<outcome, action, seen, tickets, by, lock, owned, faults, told>>
  BY Zenon DEF Send, Goto, workVars, boardVars
<1>2. PageTypes /\ PostTypes /\ WorkTypes /\ BoardTypes /\ OtherTypes
  BY TypeParts, Zenon
<1>3. kind[p] = "none" /\ ~waiting[p] /\ action[p] = "none" /\ Uncounted(p)
  BY <1>1, <1>2, Zenon DEF PostsOK, OtherTypes
<1>4. PostTypes'
  BY <1>1, <1>2, Zenon DEF PostTypes
<1>5. WorkTypes'
  BY <1>1, <1>2, Zenon DEF WorkTypes, Steps
<1>6. BoardTypes' /\ OtherTypes'
  BY <1>1, <1>2, Zenon DEF BoardTypes, OtherTypes
<1>7. PostsOK'
  <2> SUFFICES ASSUME NEW q \in Posts
               PROVE  (/\ pc[q] = "idle" => kind[q] = "none"
                       /\ pc[q] # "idle" => owner[q] \in Pages /\ topic[q] \in Topics
                       /\ kind[q] \in {"submit", "anyway"} => owner[q] \in Panels
                       /\ kind[q] \in {"form", "gap"} => owner[q] \in Forms
                       /\ waiting[q] => kind[q] \in {"submit", "anyway", "form"}
                       /\ pc[q] \in {"lock", "update"} => seen[q] \in DOMAIN tickets
                       /\ pc[q] \in {"select", "lock", "update"} => ~Override(q)
                       /\ pc[q] # "answered" => action[q] = "none" /\ Uncounted(q))'
    BY Zenon DEF PostsOK
  <2>1. CASE q # p
    BY <1>1, <1>2, <2>1, Zenon DEF PostsOK, PostTypes, WorkTypes, OtherTypes, Override, Uncounted
  <2>2. CASE q = p
    BY <1>1, <1>2, <1>3, <2>2, Zenon
    DEF PostTypes, WorkTypes, OtherTypes, Override, Uncounted, Kinds
  <2> QED BY <2>1, <2>2, Zenon
<1>8. BoardOK'
  <2>1. ScoreCountsSignals' /\ Opened'
    BY <1>1, Zenon DEF BoardOK, ScoreCountsSignals, Opened
  <2>2. ActionTellsBoard'
    BY <1>1, <1>2, <1>3 DEF BoardOK, ActionTellsBoard, PostTypes
  <2>3. OverrideVisible'
    <3>1. \A u \in DOMAIN tickets : \A q \in by[u] : q \in Posts /\ Override(q)' = Override(q)
      BY <1>1, <1>2, <1>3, Columns, Zenon DEF Uncounted, Override, PostTypes
    <3>2. \A u \in DOMAIN tickets : {q \in by[u] : Override(q)'} = {q \in by[u] : Override(q)}
      BY <3>1, Zenon
    <3> QED BY <1>1, <3>2, Zenon DEF BoardOK, OverrideVisible
  <2>4. PanelToldIsRecorded'
    BY <1>1, <1>2, <1>3, Zenon DEF BoardOK, PanelToldIsRecorded, PostTypes, PageTypes, Uncounted
  <2> QED BY <2>1, <2>2, <2>3, <2>4, Zenon DEF BoardOK
<1>9. \A q \in Posts \ {p} : /\ kind'[q] = kind[q] /\ owner'[q] = owner[q]
                             /\ waiting'[q] = waiting[q]
  BY <1>1, <1>2, Zenon DEF PostTypes, OtherTypes
<1>10. kind'[p] = k /\ owner'[p] = r /\ waiting'[p] = (k # "gap")
  BY <1>1, <1>2, Zenon DEF PostTypes, OtherTypes
<1>11. \A x \in Panels : NoAnyway(x)' => NoAnyway(x) /\ ~(x = r /\ k = "anyway")
  BY <1>3, <1>9, <1>10 DEF NoAnyway
<1>12. /\ \A x \in Panels : Awaited(x) => Awaited(x)'
       /\ k # "gap" => Awaited(r)'
  BY <1>3, <1>9, <1>10, Zenon DEF Awaited
<1> QED BY <1>1, <1>4, <1>5, <1>6, <1>7, <1>8, <1>11, <1>12, Zenon

\* A click or a deletion that sends nothing.
LEMMA FrameInv ==
  ASSUME Inv, UNCHANGED <<told, postVars, waiting, pc, workVars, boardVars>>
  PROVE  PostTypes' /\ WorkTypes' /\ BoardTypes' /\ PostsOK' /\ BoardOK'
<1>1. UNCHANGED <<told, kind, owner, topic, waiting, pc, outcome, action, seen,
                  tickets, by, lock>>
  BY DEF postVars, workVars, boardVars
<1>2. PostTypes /\ WorkTypes /\ BoardTypes
  BY TypeParts, Zenon DEF Inv
<1>3. PostTypes' /\ WorkTypes' /\ BoardTypes'
  BY <1>1, <1>2, Zenon DEF PostTypes, WorkTypes, BoardTypes
<1>4. PostsOK'
  BY <1>1 DEF Inv, PostsOK, Override, Uncounted
<1>5. BoardOK'
  <2>1. ScoreCountsSignals' /\ Opened' /\ PanelToldIsRecorded'
    BY <1>1, Zenon DEF Inv, BoardOK, ScoreCountsSignals, Opened, PanelToldIsRecorded
  <2>2. ActionTellsBoard'
    BY <1>1, Zenon DEF Inv, BoardOK, ActionTellsBoard
  <2>3. OverrideVisible'
    BY <1>1 DEF Inv, BoardOK, OverrideVisible, Override
  <2> QED BY <2>1, <2>2, <2>3, Zenon DEF BoardOK
<1> QED BY <1>3, <1>4, <1>5

\* Folding and unfolding: nothing is sent.
LEMMA FoldInv ==
  ASSUME Inv, NEW r \in Panels, Toggle(r) \/ CancelClick(r)
  PROVE  Inv'
<1> USE DEF Inv
<1>1. UNCHANGED <<phase, told, postVars, waiting, pc, workVars, boardVars, owned, faults>>
  BY DEF Toggle, CancelClick
<1>2. PostTypes' /\ WorkTypes' /\ BoardTypes' /\ PostsOK' /\ BoardOK'
  BY <1>1, FrameInv, Zenon
<1>3. \/ UNCHANGED <<submit, row, anyway, cancel>> /\ shown' = [shown EXCEPT ![r] = TRUE]
      \/ /\ shown' = [shown EXCEPT ![r] = FALSE] /\ row' = [row EXCEPT ![r] = FALSE]
         /\ submit' = [submit EXCEPT ![r] = TRUE] /\ UNCHANGED <<anyway, cancel>>
  BY DEF Toggle, CancelClick, ResetSignaler
<1>4. PageTypes /\ OtherTypes
  BY TypeParts
<1>5. PageTypes' /\ OtherTypes'
  BY <1>1, <1>3, <1>4, Zenon DEF PageTypes, PanelTypes, OtherTypes
<1>6. PanelOK'
  <2>1. UNCHANGED <<owner, kind, waiting>>
    BY <1>1 DEF postVars
  <2> QED BY <1>3, <1>4, <2>1 DEF PanelOK, NoAnyway, Awaited, PageTypes, PanelTypes
<1> QED BY <1>2, <1>5, <1>6, TypeParts, Zenon

\* The four ways to send: each sets buttons of its own page only.
LEMMA SendClickInv ==
  ASSUME Inv, NEW t \in Topics,
         \/ \E r \in Panels : SubmitClick(r, t) \/ SendAnywayClick(r, t)
         \/ \E f \in Forms : HandleSubmit(f, t) \/ LoreGap(f, t)
  PROVE  Inv'
<1> USE DEF Inv
<1>0. PageTypes
  BY TypeParts, Zenon
<1>1. ASSUME NEW r \in Panels, SubmitClick(r, t) PROVE Inv'
  <2>1. /\ PostTypes' /\ WorkTypes' /\ BoardTypes' /\ OtherTypes' /\ told' = told
        /\ PostsOK' /\ BoardOK'
        /\ \A x \in Panels : NoAnyway(x)' => NoAnyway(x)
        /\ \A x \in Panels : Awaited(x) => Awaited(x)'
        /\ Awaited(r)'
    BY <1>1, SendInv, Zenon DEF SubmitClick, Kinds, Pages
  <2>2. /\ submit' = [submit EXCEPT ![r] = FALSE] /\ row' = [row EXCEPT ![r] = FALSE]
        /\ UNCHANGED <<shown, anyway, cancel, phase>>
    BY <1>1, Zenon DEF SubmitClick
  <2>3. PageTypes'
    BY <1>0, <2>1, <2>2, Zenon DEF PageTypes, PanelTypes
  <2>4. PanelOK'
    BY <1>0, <2>1, <2>2 DEF PanelOK, PageTypes, PanelTypes
  <2> QED BY <2>1, <2>3, <2>4, TypeParts, Zenon
<1>2. ASSUME NEW r \in Panels, SendAnywayClick(r, t) PROVE Inv'
  <2>1. /\ PostTypes' /\ WorkTypes' /\ BoardTypes' /\ OtherTypes' /\ told' = told
        /\ PostsOK' /\ BoardOK'
        /\ \A x \in Panels : NoAnyway(x)' => NoAnyway(x) /\ x # r
        /\ \A x \in Panels : Awaited(x) => Awaited(x)'
    BY <1>2, SendInv, Zenon DEF SendAnywayClick, Kinds, Pages
  <2>2. /\ anyway' = [anyway EXCEPT ![r] = FALSE] /\ cancel' = [cancel EXCEPT ![r] = FALSE]
        /\ UNCHANGED <<shown, submit, row, phase>>
    BY <1>2, Zenon DEF SendAnywayClick
  <2>3. PageTypes'
    BY <1>0, <2>1, <2>2, Zenon DEF PageTypes, PanelTypes
  <2>4. PanelOK'
    BY <1>0, <2>1, <2>2, Zenon DEF PanelOK, PageTypes, PanelTypes
  <2> QED BY <2>1, <2>3, <2>4, TypeParts, Zenon
<1>3. ASSUME NEW f \in Forms, HandleSubmit(f, t) \/ LoreGap(f, t) PROVE Inv'
  <2>1. /\ PostTypes' /\ WorkTypes' /\ BoardTypes' /\ OtherTypes' /\ told' = told
        /\ PostsOK' /\ BoardOK'
        /\ \A x \in Panels : NoAnyway(x)' => NoAnyway(x)
        /\ \A x \in Panels : Awaited(x) => Awaited(x)'
    <3>1. CASE HandleSubmit(f, t)
      BY <3>1, SendInv DEF HandleSubmit, Kinds, Pages
    <3>2. CASE LoreGap(f, t)
      BY <3>2, SendInv, Zenon DEF LoreGap, Kinds, Pages
    <3> QED BY <1>3, <3>1, <3>2, Zenon
  <2>2. /\ phase' = [phase EXCEPT ![f] = "submitting"] \/ phase' = phase
        /\ UNCHANGED <<shown, submit, row, anyway, cancel>>
    BY <1>3, Zenon DEF HandleSubmit, LoreGap, panelVars
  <2>3. PageTypes'
    BY <1>0, <2>1, <2>2, Zenon DEF PageTypes, PanelTypes
  <2>4. PanelOK'
    BY <2>1, <2>2 DEF PanelOK
  <2> QED BY <2>1, <2>3, <2>4, TypeParts, Zenon
<1> QED BY <1>1, <1>2, <1>3

\* A visitor's deletion touches neither the panels nor the board.
LEMMA DeleteInv ==
  ASSUME Inv, NEW r \in Pages, DeleteConversation(r)
  PROVE  Inv'
<1> USE DEF Inv
<1>1. UNCHANGED <<shown, submit, row, anyway, cancel, phase, told, postVars, waiting, pc,
                  workVars, boardVars>>
  BY DEF DeleteConversation, pageVars, panelVars
<1>2. PostTypes' /\ WorkTypes' /\ BoardTypes' /\ PostsOK' /\ BoardOK'
  BY <1>1, FrameInv
<1>3. PageTypes /\ OtherTypes
  BY TypeParts
<1>4. owned' = [owned EXCEPT ![r] = FALSE] /\ faults' \in 0 .. MaxFaults
  BY FaultTypes, Zenon DEF DeleteConversation
<1>5. PageTypes' /\ OtherTypes'
  BY <1>1, <1>3, <1>4, Zenon DEF PageTypes, PanelTypes, OtherTypes
<1>6. PanelOK'
  <2>1. UNCHANGED <<owner, kind>>
    BY <1>1, Zenon DEF postVars
  <2> QED BY <1>1, <2>1 DEF PanelOK, NoAnyway, Awaited
<1> QED BY <1>2, <1>5, <1>6, TypeParts, Zenon

\* The worker's steps change neither the pages nor the posts.
LEMMA WorkerFrame ==
  ASSUME Inv, WorkerUnchanged
  PROVE  /\ UNCHANGED <<told, kind, owner, topic, waiting, owned>>
         /\ PageTypes' /\ PostTypes' /\ PanelOK'
         /\ faults' \in 0 .. MaxFaults => OtherTypes'
<1>1. UNCHANGED <<shown, submit, row, anyway, cancel, phase, told, kind, owner, topic,
                  waiting, owned>>
  BY DEF WorkerUnchanged, pageVars, panelVars, postVars
<1>2. PageTypes /\ PostTypes /\ OtherTypes
  BY TypeParts, Zenon DEF Inv
<1>3. PageTypes' /\ PostTypes'
  BY <1>1, <1>2, Zenon DEF PageTypes, PanelTypes, PostTypes
<1>4. PanelOK'
  BY <1>1 DEF Inv, PanelOK, NoAnyway, Awaited
<1>5. faults' \in 0 .. MaxFaults => OtherTypes'
  BY <1>1, <1>2, Zenon DEF OtherTypes
<1> QED BY <1>1, <1>3, <1>4, <1>5, Zenon

\* A step of the worker on p that writes no ticket.  What it leaves in action[p]
\* makes no claim about the board.
QuietStep(p) ==
  /\ UNCHANGED <<tickets, by>>
  /\ WorkTypes' /\ BoardTypes' /\ faults' \in 0 .. MaxFaults
  /\ \A q \in Posts \ {p} : /\ pc'[q] = pc[q] /\ outcome'[q] = outcome[q]
                            /\ action'[q] = action[q] /\ seen'[q] = seen[q]
  /\ pc[p] \notin {"idle", "answered"} /\ pc'[p] # "idle"
  /\ pc'[p] \in {"lock", "update"} => seen'[p] \in DOMAIN tickets
  /\ pc'[p] \in {"select", "lock", "update"}
       => kind[p] # "anyway" \/ outcome'[p] = "confirmed"
  /\ pc'[p] # "answered" => action'[p] = "none"
  /\ action'[p] \notin {"created", "incremented"}

LEMMA QuietInv ==
  ASSUME Inv, NEW p \in Posts, WorkerUnchanged, QuietStep(p)
  PROVE  Inv'
<1> USE DEF Inv
<1>0. /\ UNCHANGED <<told, kind, owner, topic, waiting, owned>>
      /\ PageTypes' /\ PostTypes' /\ PanelOK' /\ OtherTypes'
  BY WorkerFrame DEF QuietStep
<1>1. UNCHANGED <<tickets, by>> /\ Uncounted(p)
  BY Zenon DEF QuietStep, PostsOK
<1>2. PostsOK'
  <2> SUFFICES ASSUME NEW q \in Posts
               PROVE  (/\ pc[q] = "idle" => kind[q] = "none"
                       /\ pc[q] # "idle" => owner[q] \in Pages /\ topic[q] \in Topics
                       /\ kind[q] \in {"submit", "anyway"} => owner[q] \in Panels
                       /\ kind[q] \in {"form", "gap"} => owner[q] \in Forms
                       /\ waiting[q] => kind[q] \in {"submit", "anyway", "form"}
                       /\ pc[q] \in {"lock", "update"} => seen[q] \in DOMAIN tickets
                       /\ pc[q] \in {"select", "lock", "update"} => ~Override(q)
                       /\ pc[q] # "answered" => action[q] = "none" /\ Uncounted(q))'
    BY Zenon DEF PostsOK
  <2>1. CASE q # p
    BY <1>0, <1>1, <2>1, Zenon DEF QuietStep, PostsOK, Override, Uncounted
  <2>2. CASE q = p
    BY <1>0, <1>1, <2>2 DEF QuietStep, PostsOK, Override, Uncounted
  <2> QED BY <2>1, <2>2, Zenon
<1>3. BoardOK'
  <2>1. ScoreCountsSignals' /\ Opened' /\ PanelToldIsRecorded'
    BY <1>0, <1>1 DEF BoardOK, ScoreCountsSignals, Opened, PanelToldIsRecorded
  <2>2. ActionTellsBoard'
    <3> SUFFICES ASSUME NEW q \in Posts
                 PROVE  LET counted == {t \in DOMAIN tickets : q \in by[t]} IN
                        /\ action'[q] = "created" =>
                             \E t \in counted : tickets[t].conversation = owner[q]
                        /\ action'[q] = "incremented" => counted = {seen'[q]}
                        /\ action'[q] = "not_raised" => counted = {}
      BY <1>0, <1>1, Zenon DEF ActionTellsBoard
    <3>1. CASE q # p
      BY <3>1 DEF QuietStep, BoardOK, ActionTellsBoard
    <3>2. CASE q = p
      BY <1>1, <3>2, Zenon DEF QuietStep, Uncounted
    <3> QED BY <3>1, <3>2, Zenon
  <2>3. OverrideVisible'
    <3>1. \A u \in DOMAIN tickets : by[u] \subseteq Posts
      BY TypeParts, Columns, Zenon
    <3>2. \A u \in DOMAIN tickets : \A q \in by[u] : Override(q)' = Override(q)
      BY <1>0, <1>1, <3>1, Zenon DEF Uncounted, Override, QuietStep
    <3>3. \A u \in DOMAIN tickets : {q \in by[u] : Override(q)'} = {q \in by[u] : Override(q)}
      BY <3>2, Zenon
    <3> QED BY <1>1, <3>3 DEF BoardOK, OverrideVisible
  <2> QED BY <2>1, <2>2, <2>3, Zenon DEF BoardOK
<1>4. WorkTypes' /\ BoardTypes'
  BY Zenon DEF QuietStep
<1> QED BY <1>0, <1>2, <1>3, <1>4, TypeParts, Zenon

\* A commit of p's raise: the requests before the commit are not counted, p is.
LEMMA CommitInv ==
  ASSUME CountingFacts, Inv, NEW p \in Posts, WorkerUnchanged, faults' \in 0 .. MaxFaults,
         UNCHANGED <<outcome, seen>>,
         NEW a, Finish(p, a),
         \/ pc[p] = "update" /\ Incremented(p) /\ a \in {"incremented", "skipped_error"}
         \/ pc[p] = "insert" /\ Inserted(p) /\ a \in {"created", "skipped_error"}
  PROVE  Inv'
<1> USE DEF Inv
<1>0. /\ UNCHANGED <<told, kind, owner, topic, waiting, owned>>
      /\ PageTypes' /\ PostTypes' /\ PanelOK' /\ OtherTypes'
  BY WorkerFrame, Zenon
<1>1. /\ Uncounted(p) /\ owner[p] \in Pages /\ topic[p] \in Topics
      /\ pc[p] = "update" => seen[p] \in DOMAIN tickets /\ ~Override(p)
  BY Zenon DEF PostsOK
<1>2. PostTypes /\ WorkTypes /\ BoardTypes
  BY TypeParts, Zenon
<1>3. WorkTypes'
  BY <1>2, Zenon DEF WorkTypes, Finish, Goto, Actions, Ends
<1>4. /\ pc'[p] = "answered" /\ action'[p] = a
      /\ \A q \in Posts \ {p} : pc'[q] = pc[q] /\ action'[q] = action[q]
  BY <1>2, Zenon DEF WorkTypes, Finish, Goto
<1>5. \A q : Override(q)' = Override(q)
  BY <1>0 DEF Override
<1>6. \A t \in DOMAIN tickets : by[t] \subseteq Posts
  BY <1>2, Columns, Zenon
<1>7. CASE pc[p] = "update" /\ Incremented(p) /\ a \in {"incremented", "skipped_error"}
  <2>1. /\ BoardTypes'
        /\ DOMAIN tickets' = DOMAIN tickets
        /\ \A t \in DOMAIN tickets :
             /\ tickets'[t].conversation = tickets[t].conversation
             /\ tickets'[t].judges_not_passed = tickets[t].judges_not_passed
             /\ t = seen[p] => tickets'[t].score = tickets[t].score + 1
                               /\ by'[t] = by[t] \cup {p}
             /\ t # seen[p] => tickets'[t].score = tickets[t].score /\ by'[t] = by[t]
    BY <1>1, <1>7, IncrementedBoard, ZenonT(30)
  <2>2. \A q \in Posts \ {p} : \A t \in DOMAIN tickets : q \in by'[t] <=> q \in by[t]
    BY <2>1, ZenonT(30)
  <2>3. PostsOK'
    BY <1>0, <1>4, <1>5, <2>1, <2>2 DEF PostsOK, Uncounted
  <2>4. ScoreCountsSignals'
    <3>1. ASSUME NEW t \in DOMAIN tickets PROVE tickets'[t].score = Cardinality(by'[t])
      <4>1. by[t] \in SUBSET Posts /\ p \in Posts \ by[t]
        BY <1>1, <1>6, Zenon DEF Uncounted
      <4>2. Cardinality(by[t] \cup {p}) = Cardinality(by[t]) + 1
        BY <4>1, Zenon DEF CountingFacts
      <4> QED BY <2>1, <4>2, ZenonT(30) DEF BoardOK, ScoreCountsSignals
    <3>2. \A t \in DOMAIN tickets : \A u \in DOMAIN tickets \ {t} : by'[t] \cap by'[u] = {}
      BY <1>1, <2>1, SMTT(30) DEF BoardOK, ScoreCountsSignals, Uncounted
    <3> QED BY <2>1, <3>1, <3>2, Zenon DEF ScoreCountsSignals
  <2>5. ActionTellsBoard'
    <3> SUFFICES ASSUME NEW q \in Posts
                 PROVE  LET counted == {t \in DOMAIN tickets : q \in by'[t]} IN
                        /\ action'[q] = "created" =>
                             \E t \in counted : tickets'[t].conversation = owner[q]
                        /\ action'[q] = "incremented" => counted = {seen[q]}
                        /\ action'[q] = "not_raised" => counted = {}
      BY <1>0, <2>1, ZenonT(30) DEF ActionTellsBoard
    <3>1. CASE q # p
      <4>1. {t \in DOMAIN tickets : q \in by'[t]} = {t \in DOMAIN tickets : q \in by[t]}
        BY <2>2, <3>1
      <4> QED BY <1>4, <2>1, <3>1, <4>1, ZenonT(30) DEF BoardOK, ActionTellsBoard
    <3>2. CASE q = p
      <4>1. {t \in DOMAIN tickets : q \in by'[t]} = {seen[p]}
        BY <1>1, <1>7, <2>1, <3>2, ZenonT(60) DEF Uncounted
      <4> QED BY <1>4, <1>7, <3>2, <4>1
    <3> QED BY <3>1, <3>2, Zenon
  <2>6. OverrideVisible'
    <3>1. \A t \in DOMAIN tickets : {q \in by'[t] : Override(q)'} = {q \in by[t] : Override(q)}
      BY <1>1, <1>5, <1>7, <2>1, ZenonT(60)
    <3> QED BY <2>1, <3>1 DEF BoardOK, OverrideVisible
  <2>7. PanelToldIsRecorded' /\ Opened'
    BY <1>0, <2>1, SMTT(30) DEF BoardOK, PanelToldIsRecorded, Opened
  <2> QED BY <1>0, <1>3, <2>1, <2>3, <2>4, <2>5, <2>6, <2>7, TypeParts, Zenon DEF BoardOK
<1>8. CASE pc[p] = "insert" /\ Inserted(p) /\ a \in {"created", "skipped_error"}
  <2> DEFINE n == Len(tickets) + 1
  <2>1. /\ BoardTypes'
        /\ DOMAIN tickets' = DOMAIN tickets \cup {n}
        /\ n \notin DOMAIN tickets
        /\ \A t \in DOMAIN tickets : tickets'[t] = tickets[t] /\ by'[t] = by[t]
        /\ tickets'[n].conversation = owner[p]
        /\ tickets'[n].judges_not_passed = Override(p)
        /\ tickets'[n].score = 1
        /\ by'[n] = {p}
    BY <1>1, <1>8, InsertedBoard, ZenonT(30)
  <2> HIDE DEF n
  <2>2. \A q \in Posts \ {p} : {t \in DOMAIN tickets' : q \in by'[t]}
                               = {t \in DOMAIN tickets : q \in by[t]}
    BY <2>1, SMTT(30)
  <2>3. PostsOK'
    <3>1. \A q \in Posts \ {p} : Uncounted(q) => Uncounted(q)'
      BY <2>1, ZenonT(30) DEF Uncounted
    <3>2. \A t \in DOMAIN tickets : t \in DOMAIN tickets'
      BY <2>1, Zenon
    <3> QED BY <1>0, <1>4, <1>5, <3>1, <3>2, ZenonT(30) DEF PostsOK
  <2>4. ScoreCountsSignals'
    <3>1. tickets'[n].score = Cardinality(by'[n])
      BY <2>1, Zenon DEF CountingFacts
    <3>2. \A t \in DOMAIN tickets : by'[t] \cap by'[n] = {}
      BY <1>1, <2>1, Zenon DEF Uncounted
    <3>3. ASSUME NEW t \in DOMAIN tickets'
          PROVE  /\ tickets'[t].score = Cardinality(by'[t])
                 /\ \A u \in DOMAIN tickets' \ {t} : by'[t] \cap by'[u] = {}
      <4>1. CASE t = n
        BY <2>1, <3>1, <3>2, <4>1, Zenon
      <4>2. CASE t \in DOMAIN tickets
        BY <2>1, <3>2, <4>2, ZenonT(30) DEF BoardOK, ScoreCountsSignals
      <4> QED BY <2>1, <4>1, <4>2, ZenonT(60)
    <3> QED BY <3>3, Zenon DEF ScoreCountsSignals
  <2>5. ActionTellsBoard'
    <3> SUFFICES ASSUME NEW q \in Posts
                 PROVE  LET counted == {t \in DOMAIN tickets' : q \in by'[t]} IN
                        /\ action'[q] = "created" =>
                             \E t \in counted : tickets'[t].conversation = owner[q]
                        /\ action'[q] = "incremented" => counted = {seen[q]}
                        /\ action'[q] = "not_raised" => counted = {}
      BY <1>0, Zenon DEF ActionTellsBoard
    <3>1. CASE q # p
      <4>1. {t \in DOMAIN tickets' : q \in by'[t]} = {t \in DOMAIN tickets : q \in by[t]}
        BY <2>2, <3>1, Zenon
      <4>2. action'[q] = action[q]
        BY <1>4, <3>1, Zenon
      <4> QED BY <2>1, <4>1, <4>2 DEF BoardOK, ActionTellsBoard
    <3>2. CASE q = p
      BY <1>4, <1>8, <2>1, <3>2, Zenon
    <3> QED BY <3>1, <3>2, Zenon
  <2>6. OverrideVisible'
    <3>1. \A t \in DOMAIN tickets : {q \in by'[t] : Override(q)'} = {q \in by[t] : Override(q)}
      BY <1>5, <2>1, Zenon
    <3>2. {q \in by'[n] : Override(q)'} = IF Override(p) THEN {p} ELSE {}
      BY <1>5, <2>1, Zenon
    <3>3. Cardinality({p}) = 1 /\ Cardinality({}) = 0
      BY SMTT(30) DEF CountingFacts
    <3>4. ASSUME NEW t \in DOMAIN tickets'
          PROVE  /\ tickets'[t].judges_not_passed <=> {q \in by'[t] : Override(q)'} # {}
                 /\ Cardinality({q \in by'[t] : Override(q)'}) <= 1
      <4>1. CASE t = n
        BY <2>1, <3>2, <3>3, <4>1, SMTT(30)
      <4>2. CASE t \in DOMAIN tickets
        BY <2>1, <3>1, <4>2, Zenon DEF BoardOK, OverrideVisible
      <4> QED BY <2>1, <4>1, <4>2, ZenonT(30)
    <3> QED BY <3>4, ZenonT(60) DEF OverrideVisible
  <2>7. PanelToldIsRecorded' /\ Opened'
    BY <1>0, <2>1, ZenonT(30) DEF BoardOK, PanelToldIsRecorded, Opened
  <2> QED BY <1>0, <1>3, <2>1, <2>3, <2>4, <2>5, <2>6, <2>7, TypeParts, ZenonT(30) DEF BoardOK
<1> QED BY <1>7, <1>8, Zenon

\* A response: the page's handler runs once, and announces only what is recorded.
LEMMA ResponseInv ==
  ASSUME Inv, NEW p \in Posts, Respond(p) \/ GatewayTimeout(p) \/ FetchThrows(p)
  PROVE  Inv'
<1> USE DEF Inv
<1>1. /\ waiting[p] /\ waiting' = [waiting EXCEPT ![p] = FALSE]
      /\ UNCHANGED <<kind, owner, topic, pc, outcome, action, seen, tickets, by, lock, owned>>
      /\ faults' \in 0 .. MaxFaults
  <2>1. Fault \/ UNCHANGED faults
    BY Zenon DEF Respond, GatewayTimeout, FetchThrows
  <2>2. waiting' = [waiting EXCEPT ![p] = FALSE] /\ waiting[p]
        /\ UNCHANGED <<postVars, pc, workVars, boardVars, owned>>
    BY Zenon DEF Respond, GatewayTimeout, FetchThrows, Answered
  <2> QED BY <2>1, <2>2, FaultTypes DEF postVars, workVars, boardVars
<1>2. PageTypes /\ PostTypes /\ WorkTypes /\ BoardTypes /\ OtherTypes
  BY TypeParts
<1>3. \/ kind[p] = "submit" /\ \E ok \in BOOLEAN : SubmitAnswered(p, ok)
      \/ kind[p] = "anyway" /\ \E ok \in BOOLEAN : AnywayAnswered(p, ok)
      \/ kind[p] = "form" /\ \E ok \in BOOLEAN : FormAnswered(p, ok)
      \/ /\ kind[p] = "anyway"
         /\ anyway' = [anyway EXCEPT ![owner[p]] = TRUE]
         /\ cancel' = [cancel EXCEPT ![owner[p]] = TRUE]
         /\ UNCHANGED <<shown, submit, row, phase, told>>
  BY ZenonT(30) DEF Respond, GatewayTimeout, FetchThrows, Answered
<1>4. /\ kind[p] \in {"submit", "anyway"} => owner[p] \in Panels
      /\ kind[p] = "form" => owner[p] \in Forms
  BY <1>1 DEF PostsOK
<1>5. \/ told' = told
      \/ told' = told \cup {p} /\ (kind[p] = "form" \/ Persisted(p))
  BY <1>3, ZenonT(30) DEF SubmitAnswered, AnywayAnswered, FormAnswered, Tell
<1>6. PageTypes'
  <2>1. told' \subseteq Posts
    BY <1>2, <1>5 DEF PageTypes
  <2>2. CASE kind[p] = "submit" /\ \E ok \in BOOLEAN : SubmitAnswered(p, ok)
    BY <1>2, <1>4, <2>1, <2>2, Zenon DEF PageTypes, PanelTypes, SubmitAnswered
  <2>3. CASE kind[p] = "anyway" /\ \E ok \in BOOLEAN : AnywayAnswered(p, ok)
    BY <1>2, <1>4, <2>1, <2>3, ZenonT(60) DEF PageTypes, PanelTypes, AnywayAnswered
  <2>4. CASE kind[p] = "form" /\ \E ok \in BOOLEAN : FormAnswered(p, ok)
    BY <1>2, <1>4, <2>1, <2>4, Zenon DEF PageTypes, PanelTypes, FormAnswered, panelVars
  <2>5. CASE /\ kind[p] = "anyway"
             /\ anyway' = [anyway EXCEPT ![owner[p]] = TRUE]
             /\ cancel' = [cancel EXCEPT ![owner[p]] = TRUE]
             /\ UNCHANGED <<shown, submit, row, phase, told>>
    BY <1>2, <1>4, <2>1, <2>5, Zenon DEF PageTypes, PanelTypes
  <2> QED BY <1>3, <2>2, <2>3, <2>4, <2>5, ZenonT(30)
<1>7. PostTypes' /\ WorkTypes' /\ BoardTypes' /\ OtherTypes'
  BY <1>1, <1>2, Zenon DEF PostTypes, WorkTypes, BoardTypes, OtherTypes
<1>8. PostsOK'
  <2>1. \A q \in Posts : waiting'[q] => waiting[q]
    BY <1>1, <1>2, Zenon DEF OtherTypes
  <2> QED BY <1>1, <2>1, Zenon DEF PostsOK, Override, Uncounted
<1>9. BoardOK'
  <2>1. ScoreCountsSignals' /\ Opened'
    BY <1>1, ZenonT(60) DEF BoardOK, ScoreCountsSignals, Opened
  <2>2. ActionTellsBoard'
    BY <1>1 DEF BoardOK, ActionTellsBoard
  <2>3. OverrideVisible'
    BY <1>1, Zenon DEF BoardOK, OverrideVisible, Override
  <2>4. Persisted(p) => \E t \in DOMAIN tickets : p \in by[t]
    BY Zenon DEF BoardOK, ActionTellsBoard, Persisted
  <2>5. PanelToldIsRecorded'
    BY <1>1, <1>5, <2>4, Zenon DEF BoardOK, PanelToldIsRecorded
  <2> QED BY <2>1, <2>2, <2>3, <2>5, Zenon DEF BoardOK
<1>10. PanelOK'
  <2> SUFFICES ASSUME NEW x \in Panels, NoAnyway(x)'
               PROVE  (anyway[x] /\ cancel[x] /\ (submit[x] \/ row[x] \/ Awaited(x)))'
    BY DEF PanelOK
  <2>1. NoAnyway(x)
    BY <1>1, Zenon DEF NoAnyway
  <2>2. CASE x = owner[p]
    <3>1. kind[p] = "submit"
      BY <1>3, <1>4, <2>1, <2>2, SignalAssumption, Zenon DEF NoAnyway, SignalAssumption
    <3>2. UNCHANGED <<anyway, cancel>> /\ (submit'[x] \/ row'[x])
      BY <1>2, <1>3, <2>2, <3>1, Zenon DEF SubmitAnswered, PageTypes, PanelTypes
    <3> QED BY <2>1, <3>2, Zenon DEF PanelOK
  <2>3. CASE x # owner[p]
    <3>1. Awaited(x) => Awaited(x)'
      <4>1. \A q \in Posts \ {p} : waiting'[q] = waiting[q]
        BY <1>1, <1>2, Zenon DEF OtherTypes
      <4> QED BY <1>1, <2>3, <4>1, Zenon DEF Awaited
    <3>2. /\ submit'[x] = submit[x] /\ row'[x] = row[x]
          /\ anyway'[x] = anyway[x] /\ cancel'[x] = cancel[x]
      BY <1>2, <1>3, <2>3, Zenon
      DEF SubmitAnswered, AnywayAnswered, FormAnswered, panelVars, PageTypes, PanelTypes
    <3> QED BY <2>1, <3>1, <3>2, ZenonT(30) DEF PanelOK
  <2> QED BY <2>2, <2>3, Zenon
<1> QED BY <1>6, <1>7, <1>8, <1>9, <1>10, TypeParts, Zenon

LEMMA OutcomeTypes == JudgeOutcomes \subseteq Outcomes \ {"none"}
  BY DEF JudgeOutcomes, DeriveOutcome, Outcomes

\* The worker's and the gateway's steps that write no ticket.
LEMMA WorkInv ==
  ASSUME Bounded, Inv, NEW p \in Posts,
         \/ CheckOwner(p) \/ ForwardFails(p) \/ NoSources(p) \/ VerifyContradiction(p)
         \/ DedupSelect(p) \/ LockRow(p) \/ InsertRefused(p) \/ RaiseFails(p)
  PROVE  Inv'
<1> USE DEF Inv
<1>1. WorkTypes /\ BoardTypes
  BY TypeParts, Zenon
<1>2. faults' \in 0 .. MaxFaults
  <2>1. Fault \/ UNCHANGED faults
    BY ZenonT(30) DEF CheckOwner, ForwardFails, NoSources, VerifyContradiction, DedupSelect, LockRow,
      InsertRefused, RaiseFails
  <2> QED BY <2>1, FaultTypes, Zenon
<1>3. WorkerUnchanged
  BY ZenonT(30) DEF CheckOwner, ForwardFails, NoSources, VerifyContradiction, DedupSelect, LockRow,
    InsertRefused, RaiseFails
<1>4. /\ pc[p] # "answered" => action[p] = "none"
      /\ pc[p] \in {"lock", "update"} => seen[p] \in DOMAIN tickets
      /\ pc[p] \in {"select", "lock", "update"}
           => kind[p] # "anyway" \/ outcome[p] = "confirmed"
  BY ZenonT(30) DEF PostsOK, Override
<1>5. \/ lock' = lock
      \/ Unlock(p)
      \/ pc[p] = "lock" /\ lock' = [lock EXCEPT ![seen[p]] = p]
  BY ZenonT(30) DEF CheckOwner, ForwardFails, NoSources, VerifyContradiction, DedupSelect, LockRow,
    InsertRefused, RaiseFails, boardVars
<1>6. BoardTypes' /\ UNCHANGED <<tickets, by>>
  <2>1. UNCHANGED <<tickets, by>>
    BY Zenon DEF CheckOwner, ForwardFails, NoSources, VerifyContradiction, DedupSelect, LockRow,
      InsertRefused, RaiseFails, boardVars
  <2>2. CASE lock' = lock
    BY <1>1, <2>1, <2>2, Zenon DEF BoardTypes
  <2>3. CASE Unlock(p)
    BY <1>1, <2>1, <2>3, UnlockTypes, Zenon DEF BoardTypes
  <2>4. CASE pc[p] = "lock" /\ lock' = [lock EXCEPT ![seen[p]] = p]
    <3>1. seen[p] \in 1 .. Len(lock)
      BY <1>1, <1>4, <2>4, Columns, ZenonT(30) DEF BoardTypes
    <3>2. p \in 0..MaxPosts
      BY SignalAssumption DEF SignalAssumption, Posts
    <3>3. lock' \in Seq(0..MaxPosts) /\ Len(lock') = Len(lock)
      BY <1>1, <2>4, <3>1, <3>2, SMTT(30) DEF BoardTypes
    <3> QED BY <1>1, <2>1, <3>3, Zenon DEF BoardTypes
  <2> QED BY <1>5, <2>1, <2>2, <2>3, <2>4, ZenonT(30)
<1>7. QuietStep(p)
  <2> USE <1>1, <1>2, <1>4, <1>6 DEF QuietStep, WorkTypes, Goto, Steps, Ends
  <2>1. CASE CheckOwner(p)
    BY <2>1, Zenon DEF CheckOwner, workVars
  <2>2. CASE ForwardFails(p)
    BY <2>2, Zenon DEF ForwardFails, workVars
  <2>3. CASE NoSources(p)
    BY <2>3, Zenon DEF NoSources, Answer, Outcomes, Actions
  <2>4. CASE VerifyContradiction(p)
    BY <2>4, OutcomeTypes, ZenonT(60) DEF VerifyContradiction, Answer, Actions
  <2>5. CASE DedupSelect(p)
    <3>1. \A t \in DOMAIN tickets : t \in 0..MaxPosts
      BY SignalAssumption DEF SignalAssumption, Bounded
    <3> QED BY <2>5, <3>1, ZenonT(30) DEF DedupSelect, Similar
  <2>6. CASE LockRow(p)
    BY <2>6 DEF LockRow, workVars
  <2>7. CASE InsertRefused(p)
    BY <2>7, Zenon DEF InsertRefused, Finish, Actions
  <2>8. CASE RaiseFails(p)
    BY <2>8, Zenon DEF RaiseFails, Finish, Actions
  <2> QED BY <2>1, <2>2, <2>3, <2>4, <2>5, <2>6, <2>7, <2>8, ZenonT(30)
<1> QED BY <1>3, <1>7, QuietInv, Zenon

\* The commits, acknowledged or not.
LEMMA RaiseInv ==
  ASSUME CountingFacts, Inv, NEW p \in Posts, Increment(p) \/ Insert(p) \/ CommitLost(p)
  PROVE  Inv'
<1>1. CASE Increment(p)
  <2>1. faults' \in 0 .. MaxFaults
    BY <1>1, FaultTypes, Zenon DEF Increment, Inv
  <2> QED BY <1>1, <2>1, CommitInv, Zenon DEF Increment
<1>2. CASE Insert(p)
  <2>1. faults' \in 0 .. MaxFaults
    BY <1>2, FaultTypes, Zenon DEF Insert, Inv
  <2> QED BY <1>2, <2>1, CommitInv, Zenon DEF Insert
<1>3. CASE CommitLost(p)
  <2>1. faults' \in 0 .. MaxFaults
    BY <1>3, FaultTypes, Zenon DEF CommitLost, Inv
  <2> QED BY <1>3, <2>1, CommitInv, Zenon DEF CommitLost
<1> QED BY <1>1, <1>2, <1>3, Zenon

LEMMA InitInv == Init => Inv
<1> SUFFICES ASSUME Init PROVE Inv
  BY Zenon
<1>1. TypeOK
  <2>1. PageTypes
    BY Zenon DEF Init, PageTypes, PanelTypes
  <2>2. PostTypes /\ WorkTypes /\ OtherTypes
    BY SignalAssumption DEF Init, PostTypes, WorkTypes, OtherTypes, Outcomes, Actions,
      NoTicket, SignalAssumption
  <2>3. BoardTypes
    BY DEF Init, BoardTypes
  <2> QED BY <2>1, <2>2, <2>3, TypeParts, Zenon
<1>2. tickets = << >> /\ DOMAIN tickets = {}
  BY DEF Init
<1>3. PostsOK
  BY <1>2, Zenon DEF Init, PostsOK, Uncounted, Override
<1>4. BoardOK
  BY <1>2, Zenon DEF Init, BoardOK, ScoreCountsSignals, ActionTellsBoard, OverrideVisible,
    PanelToldIsRecorded, Opened
<1>5. PanelOK
  BY Zenon DEF Init, PanelOK
<1> QED BY <1>1, <1>3, <1>4, <1>5, Zenon DEF Inv

LEMMA StutterInv == Inv /\ UNCHANGED vars => Inv'
<1> SUFFICES ASSUME Inv, UNCHANGED vars PROVE Inv'
  BY Zenon
<1>1. UNCHANGED <<shown, submit, row, anyway, cancel, phase, told, postVars, waiting, pc,
                  workVars, boardVars, owned, faults>>
  BY Zenon DEF vars, pageVars, panelVars
<1>2. PostTypes' /\ WorkTypes' /\ BoardTypes' /\ PostsOK' /\ BoardOK'
  BY <1>1, FrameInv
<1>3. PageTypes /\ OtherTypes
  BY TypeParts, Zenon DEF Inv
<1>4. PageTypes' /\ OtherTypes'
  BY <1>1, <1>3, Zenon DEF PageTypes, PanelTypes, OtherTypes
<1>5. PanelOK'
  <2>1. UNCHANGED <<owner, kind>>
    BY <1>1, Zenon DEF postVars
  <2> QED BY <1>1, <2>1, Zenon DEF Inv, PanelOK, NoAnyway, Awaited
<1> QED BY <1>2, <1>4, <1>5, TypeParts, Zenon DEF Inv

-----------------------------------------------------------------------------
INSTANCE FiniteSetTheorems

LEMMA PostsFinite == IsFiniteSet(Posts) /\ Cardinality(Posts) = MaxPosts
  BY SignalAssumption, FS_Interval DEF SignalAssumption, Posts

LEMMA Counting == CountingFacts
<1>1. ASSUME NEW S \in SUBSET Posts, NEW p \in Posts \ S
      PROVE  Cardinality(S \cup {p}) = Cardinality(S) + 1
  BY PostsFinite, FS_Subset, FS_AddElement, Zenon
<1> QED BY <1>1, FS_EmptySet, FS_Singleton, Zenon DEF CountingFacts

\* There are no more tickets than requests.
LEMMA TicketBound ==
  ASSUME Inv
  PROVE  Bounded
<1> DEFINE f == [t \in DOMAIN tickets |-> CHOOSE p \in Posts : p \in by[t]]
<1>0. BoardTypes
  BY TypeParts, Zenon DEF Inv
<1>1. \A t \in DOMAIN tickets : f[t] \in Posts /\ f[t] \in by[t]
  BY <1>0, Columns, Zenon DEF Inv, BoardOK, Opened
<1>2. \A t, u \in DOMAIN tickets : f[t] = f[u] => t = u
  BY <1>1, Zenon DEF Inv, BoardOK, ScoreCountsSignals
<1> HIDE DEF f
<1>3. f \in Injection(DOMAIN tickets, Posts)
  <2>1. DOMAIN f = DOMAIN tickets /\ f = [t \in DOMAIN tickets |-> f[t]]
    BY DEF f
  <2>2. f \in [DOMAIN tickets -> Posts]
    BY <1>1, <2>1, Zenon
  <2> QED BY <1>2, <2>1, <2>2, Zenon DEF Injection, IsInjective
<1>4. Cardinality(DOMAIN tickets) <= Cardinality(Posts)
  BY <1>3, FS_Injection, PostsFinite, Zenon
<1>5. Cardinality(DOMAIN tickets) = Len(tickets)
  <2>1. Len(tickets) \in Nat /\ DOMAIN tickets = 1 .. Len(tickets)
    BY <1>0, Columns, Zenon
  <2>2. Cardinality(1 .. Len(tickets)) = IF 1 > Len(tickets) THEN 0 ELSE Len(tickets) - 1 + 1
    BY <2>1, FS_Interval, SMTT(30)
  <2> QED BY <2>1, <2>2
<1> QED
  BY <1>0, <1>4, <1>5, Columns, PostsFinite, SignalAssumption
  DEF SignalAssumption, Bounded

LEMMA InvAlways == Spec => []Inv
<1>1. Inv /\ [Next]_vars => Inv'
  BY Counting, TicketBound, StutterInv, FoldInv, SendClickInv, DeleteInv, ResponseInv,
     WorkInv, RaiseInv, Zenon
  DEF Next, Click, Process, Trouble
<1> QED BY <1>1, InitInv, PTL DEF Spec

\* The variables of the pages, the requests and the ticket board keep their types.
THEOREM SignalTypes == Spec => []TypeOK
<1>1. Inv => TypeOK
  BY Zenon DEF Inv
<1> QED BY <1>1, InvAlways, PTL

\* No raise is lost or counted twice by create_or_increment, however many run at
\* once and whichever of their transactions fail or commit without an answer.
THEOREM ScoresCount == Spec => []ScoreCountsSignals
<1>1. Inv => ScoreCountsSignals
  BY Zenon DEF Inv, BoardOK
<1> QED BY <1>1, InvAlways, PTL

\* The ticket_action of every response agrees with the tickets there are.
THEOREM ActionsTellBoard == Spec => []ActionTellsBoard
<1>1. Inv => ActionTellsBoard
  BY Zenon DEF Inv, BoardOK
<1> QED BY <1>1, InvAlways, PTL

\* A raise the judges did not confirm opens a ticket of its own, and only such a
\* raise sets judges_not_passed.
THEOREM OverridesVisible == Spec => []OverrideVisible
<1>1. Inv => OverrideVisible
  BY Zenon DEF Inv, BoardOK
<1> QED BY <1>1, InvAlways, PTL

\* The static page announces only reports that a ticket counts.
THEOREM PanelsTellTruth == Spec => []PanelToldIsRecorded
<1>1. Inv => PanelToldIsRecorded
  BY Zenon DEF Inv, BoardOK
<1> QED BY <1>1, InvAlways, PTL

\* An unfolded panel that waits for nothing has a button to use, as long as nothing
\* was sent anyway from it.
THEOREM PanelsUsable == Spec => []PanelUsable
<1>1. Inv => PanelUsable
  BY ZenonT(30) DEF Inv, PanelOK, PanelUsable, NoAnyway, Awaited
<1> QED BY <1>1, InvAlways, PTL
=============================================================================
