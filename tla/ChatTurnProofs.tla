--------------------------- MODULE ChatTurnProofs ---------------------------
(***************************************************************************)
(* The safety of ChatTurn, for any number of questions and of faults.      *)
(*                                                                         *)
(* The invariant says, of each turn, what the point its worker has reached *)
(* tells of what it has saved (SaveOK), of what it has sent and logged     *)
(* (WireOK) and of what it has read (Recalls); and of the page, that what  *)
(* it shows belongs to the conversation the page names (PageOK).  A step   *)
(* of one worker leaves the other turns as they are, but for the rows of   *)
(* stored, which only grow (TurnKept).                                     *)
(***************************************************************************)
EXTENDS ChatTurn, TLAPS

\* Nothing is saved before finalize_generation, and no mode is decided before
\* retrieval.
Early == {"idle", "gateway", "window", "classify", "retrieve", "llm", "fail"}
Silent == {"idle", "gateway", "window", "classify", "retrieve"}

\* Turn t is in no row, on its way to none, and raised no ticket.
Clean(t) ==
  /\ \A i \in 1 .. Len(stored) : \A r \in Roles : ~IsRow(i, t, r)
  /\ \A r \in Roles : [turn |-> t, role |-> r] \notin late
  /\ t \notin tickets

Indexed(t) == \A r \in Roles : append[t][r] = "indexed"

SaveOK(t) ==
  /\ pc[t] \in Early => Clean(t) /\ \A r \in Roles : append[t][r] = "none"
  /\ pc[t] = "append_user" => append[t]["assistant"] = "none" /\ t \notin tickets
  /\ append[t]["user"] = "indexed" => \E i \in 1 .. Len(stored) : IsRow(i, t, "user")
  /\ Indexed(t) => InOrder(t, 1 .. Len(stored))
  /\ t \in tickets => pc[t] \in {"log", "end"} /\ Saved(t) /\ mode[t] = "lore_gap"

\* The row of the query log agrees with event e.
Tells(e, t) ==
  /\ e = "done" => logged[t] \in {"200", "lost"}
  /\ e = "error" => logged[t] \in {"5xx", "lost"}
  /\ e = "refused" => logged[t] # "200"

WireOK(t) ==
  /\ pc[t] # "end" => /\ logged[t] = "none"
                      /\ \A i \in 1 .. Len(wire[t]) : wire[t][i] \in {"meta", "token", "timeout"}
  /\ \A i \in 1 .. Len(wire[t]) :
       /\ Tells(wire[t][i], t)
       /\ wire[t][i] \in {"error", "refused"} => Clean(t)
       /\ wire[t][i] = "timeout" => gone[t]
  /\ logged[t] = "5xx" => Clean(t)

\* The worker of t has its window and may still use it, or has used it.
Read(t) == pc[t] \in {"classify", "retrieve"} \/ mode[t] # "none"

\* The window of t holds every saved turn of its conversation that was completed.
Recalls(t) ==
  /\ pc[t] \in Silent => mode[t] = "none"
  /\ Read(t) => \A u \in Turns : u < t /\ Completed(u) /\ conv[u] = conv[t] /\ Indexed(u)
                                => InOrder(u, window[t])

PageOK ==
  /\ \A t \in Turns : pc[t] = "idle" <=> t > sent
  /\ \A t \in 1 .. sent : conv[t] # 0
  /\ \A u \in shown : conv[u] = current
  /\ busy => sent # 0 /\ (current # 0 => conv[sent] = current)

TurnOK(t) == SaveOK(t) /\ WireOK(t) /\ Recalls(t)

Inv == TypeOK /\ PageOK /\ \A t \in Turns : TurnOK(t)

\* A turn is completed by an event of its worker's last step.
LEMMA CompletedEnds ==
  ASSUME Inv, NEW u \in Turns, Completed(u)
  PROVE  pc[u] = "end"
<1>1. PICK i \in 1 .. got[u] : wire[u][i] = "done"
  BY DEF Completed
<1>2. i \in 1 .. Len(wire[u])
  <2>1. got[u] \in Nat /\ Len(wire[u]) \in Nat /\ got[u] <= Len(wire[u])
    BY SMTT(30) DEF Inv, TypeOK
  <2> QED BY <2>1
<1> QED BY <1>1, <1>2 DEF Inv, TurnOK, WireOK

LEMMA Numbers ==
  ASSUME TypeOK
  PROVE  /\ sent \in Int /\ current \in Int /\ MaxTurns \in Int
         /\ 0 <= sent /\ sent <= MaxTurns /\ shown \subseteq Turns
         /\ \A t \in Turns : conv[t] \in Int /\ t \in Int
  BY ChatAssumption DEF TypeOK, Turns, ChatAssumption

-----------------------------------------------------------------------------
(* Sequences that grow. *)

LEMMA Concat ==
  ASSUME NEW S, NEW s \in Seq(S), NEW e \in S
  PROVE  /\ s \o <<e>> \in Seq(S)
         /\ Len(s \o <<e>>) = Len(s) + 1
         /\ \A i \in 1 .. Len(s) : (s \o <<e>>)[i] = s[i]
         /\ (s \o <<e>>)[Len(s) + 1] = e
         /\ s \o << >> = s
  OBVIOUS

LEMMA Appended ==
  ASSUME NEW S, NEW s \in Seq(S), NEW e \in S
  PROVE  /\ Append(s, e) \in Seq(S)
         /\ Len(Append(s, e)) = Len(s) + 1
         /\ \A i \in 1 .. Len(s) : Append(s, e)[i] = s[i]
         /\ Append(s, e)[Len(s) + 1] = e
  OBVIOUS

\* The rows of stored stay where they are, and those added are of turn t.
Grows(t) ==
  \/ stored' = stored
  \/ \E r \in Roles : stored' = Append(stored, [turn |-> t, role |-> r])

LEMMA Rows ==
  ASSUME TypeOK, NEW t \in Turns, Grows(t)
  PROVE  /\ stored' \in Seq(Message)
         /\ Len(stored) \in Nat /\ Len(stored') \in Nat
         /\ Len(stored) <= Len(stored')
         /\ 1 .. Len(stored) \subseteq 1 .. Len(stored')
         /\ \A i \in 1 .. Len(stored) : stored'[i] = stored[i]
         /\ \A i \in (1 .. Len(stored')) \ (1 .. Len(stored)) : stored'[i].turn = t
<1>0. stored \in Seq(Message) /\ Len(stored) \in Nat
  BY DEF TypeOK
<1>1. CASE stored' = stored
  BY <1>0, <1>1
<1>2. ASSUME NEW r \in Roles, stored' = Append(stored, [turn |-> t, role |-> r])
      PROVE  /\ stored' \in Seq(Message)
             /\ Len(stored) \in Nat /\ Len(stored') \in Nat
             /\ Len(stored) <= Len(stored')
             /\ 1 .. Len(stored) \subseteq 1 .. Len(stored')
             /\ \A i \in 1 .. Len(stored) : stored'[i] = stored[i]
             /\ \A i \in (1 .. Len(stored')) \ (1 .. Len(stored)) : stored'[i].turn = t
  <2>1. [turn |-> t, role |-> r] \in Message
    BY DEF Message
  <2>2. /\ stored' \in Seq(Message)
        /\ Len(stored') = Len(stored) + 1
        /\ \A i \in 1 .. Len(stored) : stored'[i] = stored[i]
        /\ stored'[Len(stored) + 1].turn = t
    BY <1>0, <1>2, <2>1, Appended
  <2> QED BY <1>0, <2>2
<1> QED BY <1>0, <1>1, <1>2, Zenon DEF Grows

-----------------------------------------------------------------------------
(* A step of the worker of turn t.                                         *)

\* What no step of a worker changes, and what one of turn t does not.
Frame(t) ==
  /\ pc[t] \notin {"idle", "end"} /\ pc'[t] # "idle"
  /\ UNCHANGED <<pageVars, conv, got>>
  /\ Completed(t)' => Completed(t)
  /\ \A q \in Turns : gone[q] => gone'[q]
  /\ \A q \in Turns \ {t} :
       /\ pc'[q] = pc[q] /\ mode'[q] = mode[q] /\ wire'[q] = wire[q]
       /\ window'[q] = window[q] /\ append'[q] = append[q] /\ logged'[q] = logged[q]
  /\ Grows(t)
  /\ \A m \in late' \ late : m.turn = t
  /\ tickets \subseteq tickets' /\ tickets' \subseteq tickets \cup {t}

\* Rows stay what they are, and other turns stay out of the new ones.
LEMMA GrowsOrder ==
  ASSUME TypeOK, NEW t \in Turns, Grows(t)
  PROVE  /\ \A i \in 1 .. Len(stored), u \in Turns, r \in Roles : IsRow(i, u, r)' <=> IsRow(i, u, r)
         /\ \A u \in Turns \ {t}, r \in Roles :
              (\A i \in 1 .. Len(stored) : ~IsRow(i, u, r)) =>
              (\A i \in 1 .. Len(stored') : ~IsRow(i, u, r)')
<1>1. \A i \in 1 .. Len(stored), u \in Turns, r \in Roles : IsRow(i, u, r)' <=> IsRow(i, u, r)
  BY Rows DEF IsRow
<1>3. ASSUME NEW u \in Turns \ {t}, NEW r \in Roles,
             \A i \in 1 .. Len(stored) : ~IsRow(i, u, r),
             NEW i \in 1 .. Len(stored')
      PROVE  ~IsRow(i, u, r)'
  <2>1. CASE i \in 1 .. Len(stored)
    BY <1>1, <1>3, <2>1, Zenon
  <2>2. CASE i \notin 1 .. Len(stored)
    <3>1. stored'[i].turn = t
      BY <2>2, Rows, Zenon
    <3> QED BY <3>1 DEF IsRow
  <2> QED BY <2>1, <2>2
<1> QED BY <1>1, <1>3, Zenon

\* A turn that no step changes, but for rows that are added, stays in order.
LEMMA TurnKept ==
  ASSUME Inv, NEW t \in Turns, NEW q \in Turns, Clean(q) => q # t, Grows(t),
         UNCHANGED conv, gone[q] => gone'[q],
         pc'[q] = pc[q], mode'[q] = mode[q], wire'[q] = wire[q], logged'[q] = logged[q],
         window'[q] = window[q], append'[q] = append[q],
         q \in tickets' <=> q \in tickets,
         \A r \in Roles : [turn |-> q, role |-> r] \in late' => [turn |-> q, role |-> r] \in late,
         \A u \in Turns : Completed(u)' => Completed(u) /\ append'[u] = append[u]
  PROVE  TurnOK(q)'
<1>2. TypeOK /\ TurnOK(q)
  BY DEF Inv
<1>3. Clean(q) => Clean(q)'
  BY <1>2, GrowsOrder, Zenon DEF Clean
<1>4. ASSUME NEW i \in 1 .. Len(stored), NEW r \in Roles, IsRow(i, q, r)
      PROVE  i \in 1 .. Len(stored') /\ IsRow(i, q, r)'
  BY <1>2, <1>4, GrowsOrder, Rows, Zenon
<1>5. InOrder(q, 1 .. Len(stored)) => InOrder(q, 1 .. Len(stored))'
  BY <1>4, Zenon DEF InOrder, Roles
<1>6. SaveOK(q)'
  BY <1>2, <1>3, <1>4, <1>5, Zenon DEF TurnOK, SaveOK, Indexed, Saved, Roles
<1>7. WireOK(q)'
  BY <1>2, <1>3, Zenon DEF TurnOK, WireOK, Tells
<1>8. Recalls(q)'
  <2> SUFFICES ASSUME Read(q),
                      NEW u \in Turns, u < q, Completed(u)', conv[u] = conv[q], Indexed(u)'
               PROVE  InOrder(u, window[q])'
    BY <1>2, Zenon DEF TurnOK, Recalls, Read
  <2>2. Indexed(u) /\ Completed(u)
    BY Zenon DEF Indexed
  <2>3. InOrder(u, window[q])
    BY <1>2, <2>2, Zenon DEF TurnOK, Recalls
  <2>4. window[q] \in SUBSET (1 .. Len(stored))
    BY <1>2 DEF TypeOK
  <2>5. \A i \in window[q], r \in Roles : IsRow(i, u, r) => IsRow(i, u, r)'
    BY <1>2, <2>4, GrowsOrder, Zenon
  <2> QED BY <2>3, <2>5, Zenon DEF InOrder, Roles
<1> QED BY <1>6, <1>7, <1>8 DEF TurnOK

\* A step of the worker of t that leaves t itself in order leaves all in order.
LEMMA WorkStep ==
  ASSUME Inv, NEW t \in Turns, Frame(t), TypeOK', SaveOK(t)', WireOK(t)', Recalls(t)'
  PROVE  Inv'
<1>1. ASSUME NEW q \in Turns \ {t} PROVE TurnOK(q)'
  <2>1. /\ Grows(t) /\ UNCHANGED conv /\ (gone[q] => gone'[q]) /\ (q \in tickets' <=> q \in tickets)
        /\ pc'[q] = pc[q] /\ mode'[q] = mode[q] /\ wire'[q] = wire[q]
        /\ window'[q] = window[q] /\ append'[q] = append[q] /\ logged'[q] = logged[q]
        /\ \A r \in Roles : [turn |-> q, role |-> r] \in late' => [turn |-> q, role |-> r] \in late
    BY DEF Frame, pageVars
  <2>2. \A u \in Turns : Completed(u)' => Completed(u)
    BY Zenon DEF Frame, Completed
  <2>3. \A u \in Turns : Completed(u) => append'[u] = append[u]
    BY CompletedEnds, Zenon DEF Frame
  <2> QED BY <2>1, <2>2, <2>3, TurnKept, Zenon
<1>2. PageOK'
  <2>1. /\ sent' = sent /\ busy' = busy /\ current' = current /\ shown' = shown /\ conv' = conv
        /\ \A q \in Turns : pc'[q] = "idle" <=> pc[q] = "idle"
        /\ \A q \in Turns : pc[q] = "end" => pc'[q] = "end"
    BY Zenon DEF Frame, pageVars
  <2>2. PageOK /\ shown \subseteq Turns
    BY Numbers DEF Inv
  <2> QED BY <2>1, <2>2, Zenon DEF PageOK
<1> QED BY <1>1, <1>2, Zenon DEF Inv, TurnOK

\* A turn that has its window recalls what was completed.
LEMMA RecallsKept ==
  ASSUME Inv, NEW t \in Turns, Frame(t), window' = window,
         pc'[t] \in Silent => mode'[t] = "none",
         Read(t)' => Read(t)
  PROVE  Recalls(t)'
<1> SUFFICES ASSUME Read(t), NEW u \in Turns, u < t, Completed(u)', conv[u] = conv[t], Indexed(u)'
             PROVE  InOrder(u, window[t])'
  BY Zenon DEF Recalls, Frame
<1>1. u # t /\ Completed(u)
  <2>1. t \in Int
    BY Numbers DEF Inv
  <2>2. u # t
    BY <2>1
  <2> QED BY <2>2, Zenon DEF Frame, Completed
<1>2. Indexed(u)
  BY <1>1 DEF Frame, Indexed
<1>4. InOrder(u, window[t])
  BY <1>1, <1>2, Zenon DEF Inv, TurnOK, Recalls
<1>5. window[t] \in SUBSET (1 .. Len(stored)) /\ Grows(t) /\ TypeOK
  BY Zenon DEF Inv, TypeOK, Frame
<1>6. \A i \in window[t], r \in Roles : IsRow(i, u, r) => IsRow(i, u, r)'
  BY <1>1, <1>5, GrowsOrder, Zenon
<1> QED BY <1>4, <1>6, Zenon DEF InOrder, Roles

\* What has been sent to the page of t stays what it is.
Longer(t) ==
  /\ Len(wire[t]) <= Len(wire'[t])
  /\ \A i \in 1 .. Len(wire[t]) : wire'[t][i] = wire[t][i]

LEMMA SentBefore ==
  ASSUME TypeOK, NEW t \in Turns, Longer(t), got' = got, Completed(t)'
  PROVE  Completed(t)
<1>1. got[t] \in Nat /\ Len(wire[t]) \in Nat /\ got[t] <= Len(wire[t])
  BY SMTT(30) DEF TypeOK
<1>2. 1 .. got[t] \subseteq 1 .. Len(wire[t])
  BY <1>1
<1> QED BY <1>2, Zenon DEF Completed, Longer

\* The variables a step of t may change outside the rows are typed, and those
\* of the other turns are left alone.
Local(t) ==
  /\ UNCHANGED <<pageVars, conv, got, gone>>
  /\ mode' \in [Turns -> Modes \cup {"none"}]
  /\ answer' \in [Turns -> {"none", "text", "empty"}]
  /\ wire' \in [Turns -> Seq(Events)]
  /\ window' \in [Turns -> SUBSET (1 .. Len(stored))]
  /\ logged' \in [Turns -> {"none", "lost", "200", "5xx"}]
  /\ faults' \in 0 .. MaxFaults
  /\ Longer(t)
  /\ \A q \in Turns \ {t} : /\ mode'[q] = mode[q] /\ wire'[q] = wire[q]
                            /\ window'[q] = window[q] /\ logged'[q] = logged[q]

Stages == Streaming \cup {"gateway", "window", "classify", "end"}

LEMMA LocalTypes ==
  ASSUME TypeOK, NEW t \in Turns, Local(t), NEW s \in Stages, Goto(t, s), Grows(t),
         append' \in [Turns -> [Roles -> {"none", "indexed", "unindexed", "failed"}]],
         late' \subseteq Message, tickets' \subseteq Turns
  PROVE  TypeOK'
<1>1. /\ UNCHANGED <<page, sent, busy, current, shown, conv, got, gone>>
      /\ stored' \in Seq(Message) /\ 1 .. Len(stored) \subseteq 1 .. Len(stored')
  BY Rows, Zenon DEF Local, pageVars
<1>2. window' \in [Turns -> SUBSET (1 .. Len(stored'))]
  BY <1>1 DEF Local
<1>3. \A q \in Turns : got'[q] <= Len(wire'[q])
  <2>1. \A q \in Turns : got'[q] \in Nat /\ got'[q] <= Len(wire[q])
    BY <1>1, Zenon DEF TypeOK
  <2>2. \A q \in Turns : Len(wire[q]) \in Nat /\ Len(wire'[q]) \in Nat
    BY SMTT(30) DEF TypeOK, Local
  <2>3. \A q \in Turns : q # t => Len(wire'[q]) = Len(wire[q])
    BY Zenon DEF Local
  <2>4. Len(wire[t]) <= Len(wire'[t])
    BY Zenon DEF Local, Longer
  <2>5. ASSUME NEW q \in Turns PROVE got'[q] <= Len(wire'[q])
    <3>1. CASE q # t
      BY <2>1, <2>3, <3>1, Zenon
    <3>2. CASE q = t
      BY <2>1, <2>2, <2>4, <3>2
    <3> QED BY <3>1, <3>2
  <2> QED BY <2>5
<1>4. pc' \in [Turns -> Streaming \cup {"idle", "gateway", "window", "classify", "end"}]
  BY Zenon DEF TypeOK, Goto, Stages
<1> QED BY <1>1, <1>2, <1>3, <1>4, SMTT(30) DEF TypeOK, Local

LEMMA GotoFacts ==
  ASSUME TypeOK, NEW t \in Turns, NEW s, Goto(t, s)
  PROVE  pc'[t] = s /\ \A q \in Turns \ {t} : pc'[q] = pc[q]
  BY Zenon DEF TypeOK, Goto

\* A step before anything is saved.
LEMMA EarlyStep ==
  ASSUME Inv, NEW t \in Turns, Local(t),
         pc[t] \in Early \ {"idle"},
         NEW s \in (Early \ {"idle"}) \cup {"append_user", "end"}, Goto(t, s),
         UNCHANGED <<saveVars, tickets>>
  PROVE  Frame(t) /\ TypeOK' /\ SaveOK(t)' /\ Clean(t)'
<1>1. TypeOK /\ s \in Stages /\ pc'[t] = s /\ \A q \in Turns \ {t} : pc'[q] = pc[q]
  BY GotoFacts, Zenon DEF Inv, Early, Stages, Streaming
<1>2. UNCHANGED <<append, stored, late, tickets>>
  BY Zenon DEF saveVars
<1>3. TypeOK'
  BY <1>1, <1>2, LocalTypes, Zenon DEF TypeOK, Grows
<1>4. Frame(t)
  <2>1. Completed(t)' => Completed(t)
    BY <1>1, SentBefore, Zenon DEF Local
  <2> QED BY <1>1, <1>2, <2>1 DEF Frame, Local, Early, Grows
<1>5. Clean(t) /\ \A r \in Roles : append[t][r] = "none"
  BY DEF Inv, TurnOK, SaveOK
<1>6. Clean(t)' /\ \A r \in Roles : append'[t][r] = "none"
  BY <1>2, <1>5 DEF Clean, IsRow
<1>7. SaveOK(t)'
  BY <1>6, Zenon DEF SaveOK, Indexed, Clean, Roles
<1> QED BY <1>3, <1>4, <1>6, <1>7, Zenon

-----------------------------------------------------------------------------
(* What the worker sends. *)

LEMMA EmitNone ==
  ASSUME TypeOK, NEW t \in Turns, Emit(t, << >>)
  PROVE  UNCHANGED <<wire, got, gone>>
<1>1. wire[t] \in Seq(Events) /\ wire \in [Turns -> Seq(Events)]
  BY DEF TypeOK
<1>2. wire[t] \o << >> = wire[t]
  BY <1>1
<1> QED BY <1>1, <1>2 DEF Emit

LEMMA EmitOne ==
  ASSUME TypeOK, NEW t \in Turns, NEW e \in Events, Emit(t, <<e>>)
  PROVE  /\ UNCHANGED <<got, gone>>
         /\ wire' \in [Turns -> Seq(Events)]
         /\ \A q \in Turns \ {t} : wire'[q] = wire[q]
         /\ Longer(t)
         /\ \A i \in 1 .. Len(wire'[t]) :
              (i \in 1 .. Len(wire[t]) /\ wire'[t][i] = wire[t][i]) \/ wire'[t][i] = e
<1>1. wire[t] \in Seq(Events) /\ wire \in [Turns -> Seq(Events)] /\ Len(wire[t]) \in Nat
  BY DEF TypeOK
<1>2. CASE gone[t]
  <2>1. UNCHANGED <<wire, got, gone>>
    BY <1>2, Zenon DEF Emit
  <2> QED BY <1>1, <2>1 DEF Longer
<1>3. CASE ~gone[t]
  <2>1. /\ UNCHANGED <<got, gone>>
        /\ wire' = [wire EXCEPT ![t] = wire[t] \o <<e>>]
    BY <1>3, Zenon DEF Emit
  <2>2. wire'[t] = wire[t] \o <<e>> /\ \A q \in Turns \ {t} : wire'[q] = wire[q]
    BY <1>1, <2>1, Zenon
  <2>3. wire[t] \o <<e>> \in Seq(Events)
    BY <1>1, Concat
  <2>4. wire' \in [Turns -> Seq(Events)]
    BY <1>1, <2>1, <2>3
  <2>5. /\ Len(wire'[t]) = Len(wire[t]) + 1
        /\ \A i \in 1 .. Len(wire[t]) : wire'[t][i] = wire[t][i]
        /\ wire'[t][Len(wire[t]) + 1] = e
    BY <1>1, <2>2, Concat
  <2>6. Longer(t)
    BY <1>1, <2>5 DEF Longer
  <2>7. \A i \in 1 .. Len(wire'[t]) :
           (i \in 1 .. Len(wire[t]) /\ wire'[t][i] = wire[t][i]) \/ wire'[t][i] = e
    BY <1>1, <2>5
  <2> QED BY <2>1, <2>2, <2>4, <2>6, <2>7, Zenon
<1> QED BY <1>2, <1>3, Zenon

\* Nothing is sent, and the turn goes on.
LEMMA WireQuiet ==
  ASSUME Inv, NEW t \in Turns, pc[t] # "end", UNCHANGED <<wire, gone, logged>>
  PROVE  WireOK(t)'
<1>1. WireOK(t) /\ logged[t] = "none"
  BY Zenon DEF Inv, TurnOK, WireOK
<1> QED BY <1>1, Zenon DEF WireOK, Tells

\* A meta or a token event is sent.
LEMMA WireEvent ==
  ASSUME Inv, NEW t \in Turns, NEW e \in {"meta", "token"}, Emit(t, <<e>>),
         pc[t] # "end", logged' = logged
  PROVE  WireOK(t)'
<1>1. /\ logged'[t] = "none"
      /\ \A i \in 1 .. Len(wire[t]) : /\ wire[t][i] \in {"meta", "token", "timeout"}
                                      /\ wire[t][i] = "timeout" => gone[t]
  BY Zenon DEF Inv, TurnOK, WireOK
<1>2. e \in Events /\ TypeOK /\ e # "timeout"
  BY DEF Events, Inv
<1>3. gone' = gone /\ \A i \in 1 .. Len(wire'[t]) :
        (i \in 1 .. Len(wire[t]) /\ wire'[t][i] = wire[t][i]) \/ wire'[t][i] = e
  BY <1>2, EmitOne, Zenon
<1>4. ASSUME NEW i \in 1 .. Len(wire'[t])
      PROVE  /\ wire'[t][i] \in {"meta", "token", "timeout"}
             /\ wire'[t][i] = "timeout" => gone'[t]
             /\ Tells(wire[t][i], t)' /\ wire'[t][i] \notin {"error", "refused"}
  <2>1. CASE wire'[t][i] = e
    BY <1>2, <2>1, Zenon DEF Tells
  <2>2. CASE i \in 1 .. Len(wire[t]) /\ wire'[t][i] = wire[t][i]
    <3>1. wire[t][i] \in {"meta", "token", "timeout"} /\ (wire[t][i] = "timeout" => gone[t])
      BY <1>1, <2>2, Zenon
    <3>2. wire'[t][i] \in {"meta", "token", "timeout"} /\ (wire'[t][i] = "timeout" => gone'[t])
      BY <1>3, <2>2, <3>1, Zenon
    <3> QED BY <3>2, Zenon DEF Tells
  <2> QED BY <1>3, <2>1, <2>2, Zenon
<1> QED BY <1>1, <1>4, Zenon DEF WireOK

\* The last event of a turn is sent.
LEMMA WireEnd ==
  ASSUME Inv, NEW t \in Turns, NEW e \in Events \ {"timeout"}, Emit(t, <<e>>),
         pc[t] # "end", pc'[t] = "end", Tells(e, t)',
         e \in {"error", "refused"} \/ logged'[t] = "5xx" => Clean(t)'
  PROVE  WireOK(t)'
<1>1. \A i \in 1 .. Len(wire[t]) : /\ wire[t][i] \in {"meta", "token", "timeout"}
                                   /\ wire[t][i] = "timeout" => gone[t]
  BY Zenon DEF Inv, TurnOK, WireOK
<1>2. gone' = gone /\ \A i \in 1 .. Len(wire'[t]) :
        (i \in 1 .. Len(wire[t]) /\ wire'[t][i] = wire[t][i]) \/ wire'[t][i] = e
  BY EmitOne, Zenon DEF Inv
<1>3. ASSUME NEW i \in 1 .. Len(wire'[t])
      PROVE  /\ Tells(wire[t][i], t)'
             /\ wire'[t][i] \in {"error", "refused"} => Clean(t)'
             /\ wire'[t][i] = "timeout" => gone'[t]
  <2>1. CASE wire'[t][i] = e
    BY <2>1, Zenon DEF Tells
  <2>2. CASE i \in 1 .. Len(wire[t]) /\ wire'[t][i] = wire[t][i]
    <3>1. wire'[t][i] \in {"meta", "token", "timeout"} /\ (wire'[t][i] = "timeout" => gone'[t])
      <4>1. wire[t][i] \in {"meta", "token", "timeout"} /\ (wire[t][i] = "timeout" => gone[t])
        BY <1>1, <2>2, Zenon
      <4> QED BY <1>2, <2>2, <4>1, Zenon
    <3> QED BY <3>1, Zenon DEF Tells
  <2> QED BY <1>2, <2>1, <2>2, Zenon
<1> QED BY <1>3, Zenon DEF WireOK

-----------------------------------------------------------------------------
(* The steps before finalize_generation. *)

LEMMA FaultTypes == ASSUME TypeOK, Fault PROVE faults' \in 0 .. MaxFaults
  BY ChatAssumption DEF TypeOK, Fault, ChatAssumption

\* The parts of TypeOK that Local is about.
LEMMA RunTypes ==
  ASSUME TypeOK
  PROVE  /\ mode \in [Turns -> Modes \cup {"none"}]
         /\ answer \in [Turns -> {"none", "text", "empty"}]
         /\ wire \in [Turns -> Seq(Events)]
         /\ window \in [Turns -> SUBSET (1 .. Len(stored))]
         /\ logged \in [Turns -> {"none", "lost", "200", "5xx"}]
         /\ faults \in 0 .. MaxFaults
         /\ \A t \in Turns : Len(wire[t]) <= Len(wire[t])
  BY DEF TypeOK

LEMMA LongerSame ==
  ASSUME TypeOK, NEW t \in Turns, wire' = wire
  PROVE  Longer(t)
  BY DEF Longer, TypeOK

LEMMA LocalSame ==
  ASSUME TypeOK, NEW t \in Turns, UNCHANGED <<pageVars, runVars, netVars, logged>>,
         faults' \in 0 .. MaxFaults
  PROVE  Local(t)
  BY RunTypes, LongerSame, Zenon DEF Local, runVars, netVars

LEMMA QuietStep ==
  ASSUME Inv, NEW t \in Turns, NEW s, Goto(t, s),
         <<pc[t], s>> \in {<<"gateway", "window">>, <<"classify", "retrieve">>,
                           <<"retrieve", "fail">>, <<"llm", "fail">>},
         UNCHANGED <<pageVars, runVars, netVars, saveVars, tickets, logged>>,
         faults' \in 0 .. MaxFaults
  PROVE  Inv'
<1>1. TypeOK /\ pc'[t] = s
  BY GotoFacts DEF Inv
<1>2. Local(t)
  BY <1>1, LocalSame
<1>3. /\ pc[t] \in Early \ {"idle"} /\ s \in (Early \ {"idle"}) \cup {"append_user", "end"}
      /\ pc[t] # "end" /\ (s \in Silent => pc[t] \in Silent)
      /\ s \in {"classify", "retrieve"} => pc[t] \in {"classify", "retrieve"}
  BY DEF Early, Silent
<1>4. Frame(t) /\ TypeOK' /\ SaveOK(t)'
  BY <1>2, <1>3, EarlyStep
<1>5. WireOK(t)'
  BY <1>1, <1>3, WireQuiet, Zenon DEF netVars
<1>6. Recalls(t)'
  <2>1. UNCHANGED <<mode, window>> /\ (pc[t] \in Silent => mode[t] = "none")
    BY Zenon DEF runVars, Inv, TurnOK, Recalls
  <2> QED BY <1>1, <1>3, <1>4, <2>1, RecallsKept, Zenon DEF Read
<1> QED BY <1>4, <1>5, <1>6, WorkStep

LEMMA RefuseStep ==
  ASSUME Inv, NEW t \in Turns, pc[t] \in {"gateway", "window", "retrieve"}, Refuse(t),
         UNCHANGED <<pageVars, runVars, saveVars, tickets, logged>>,
         faults' \in 0 .. MaxFaults
  PROVE  Inv'
<1>1. /\ TypeOK /\ pc'[t] = "end" /\ Goto(t, "end") /\ Emit(t, <<"refused">>)
      /\ "refused" \in Events /\ "refused" \in Events \ {"timeout"}
  BY GotoFacts, Zenon DEF Inv, Refuse, Events
<1>2. logged[t] = "none" /\ mode[t] = "none"
  BY Zenon DEF Inv, TurnOK, WireOK, Recalls, Silent
<1>3. /\ UNCHANGED <<got, gone>> /\ wire' \in [Turns -> Seq(Events)]
      /\ \A q \in Turns \ {t} : wire'[q] = wire[q]
      /\ Longer(t)
  BY <1>1, EmitOne, Zenon
<1>4. Local(t)
  BY <1>1, <1>3, RunTypes, Zenon DEF Local, runVars
<1>5. Frame(t) /\ TypeOK' /\ SaveOK(t)' /\ Clean(t)'
  BY <1>1, <1>4, EarlyStep, Zenon DEF Early
<1>6. WireOK(t)'
  BY <1>1, <1>2, <1>5, WireEnd, Zenon DEF Tells
<1>7. Recalls(t)'
  BY <1>1, <1>2, <1>5, RecallsKept, Zenon DEF runVars, Read
<1> QED BY <1>5, <1>6, <1>7, WorkStep, Zenon

LEMMA DecideStep ==
  ASSUME Inv, NEW t \in Turns, NEW m \in Modes, Decide(t, m), pc[t] \in {"classify", "retrieve"},
         UNCHANGED <<pageVars, conv, answer, window, saveVars, tickets, logged, faults>>
  PROVE  Inv'
<1>1. TypeOK /\ pc'[t] = "llm" /\ Goto(t, "llm")
  BY GotoFacts, Zenon DEF Inv, Decide
<1>2. /\ mode' \in [Turns -> Modes \cup {"none"}]
      /\ \A q \in Turns \ {t} : mode'[q] = mode[q]
  BY <1>1, RunTypes, Zenon DEF Decide
<1>3. /\ UNCHANGED <<got, gone>> /\ wire' \in [Turns -> Seq(Events)]
      /\ \A q \in Turns \ {t} : wire'[q] = wire[q]
      /\ Longer(t)
      /\ WireOK(t)'
  <2>1. CASE page = "form"
    <3>1. Emit(t, <<"meta">>) /\ "meta" \in Events
      BY <2>1, Zenon DEF Decide, Events
    <3>2. WireOK(t)'
      BY <3>1, WireEvent, Zenon
    <3> QED BY <1>1, <3>1, <3>2, EmitOne, Zenon
  <2>2. CASE page # "form"
    <3>1. UNCHANGED <<wire, got, gone>>
      BY <1>1, <2>2, EmitNone, Zenon DEF Decide
    <3>2. WireOK(t)'
      BY <1>1, <3>1, WireQuiet, Zenon
    <3> QED BY <1>1, <3>1, <3>2, RunTypes, LongerSame, Zenon
  <2> QED BY <2>1, <2>2, Zenon
<1>4. Local(t)
  BY <1>1, <1>2, <1>3, RunTypes, Zenon DEF Local
<1>5. Frame(t) /\ TypeOK' /\ SaveOK(t)'
  BY <1>1, <1>4, EarlyStep, Zenon DEF Early
<1>6. Recalls(t)'
  <2>1. Read(t) /\ pc'[t] \notin Silent
    BY <1>1 DEF Read, Silent
  <2> QED BY <1>5, <2>1, RecallsKept, Zenon
<1> QED BY <1>3, <1>5, <1>6, WorkStep, Zenon

LEMMA LlmAnswersInv ==
  ASSUME Inv, NEW t \in Turns, LlmAnswers(t)
  PROVE  Inv'
<1>1. /\ TypeOK /\ pc[t] = "llm" /\ pc'[t] = "append_user" /\ Goto(t, "append_user")
      /\ UNCHANGED <<pageVars, conv, mode, window, saveVars, tickets, logged>>
      /\ faults' \in 0 .. MaxFaults
  BY GotoFacts, FaultTypes, RunTypes, Zenon DEF Inv, LlmAnswers
<1>2. PICK a \in {"text", "empty"} :
        /\ answer' = [answer EXCEPT ![t] = a]
        /\ Emit(t, IF page = "form" /\ a = "text" THEN <<"token">> ELSE <<>>)
  BY Zenon DEF LlmAnswers
<1>3. /\ UNCHANGED <<got, gone>> /\ wire' \in [Turns -> Seq(Events)]
      /\ \A q \in Turns \ {t} : wire'[q] = wire[q]
      /\ Longer(t)
      /\ WireOK(t)'
  <2>1. CASE page = "form" /\ a = "text"
    <3>1. Emit(t, <<"token">>) /\ "token" \in Events
      BY <1>2, <2>1 DEF Events
    <3>2. WireOK(t)'
      BY <1>1, <3>1, WireEvent, Zenon
    <3> QED BY <1>1, <3>1, <3>2, EmitOne, Zenon
  <2>2. CASE ~(page = "form" /\ a = "text")
    <3>1. UNCHANGED <<wire, got, gone>>
      BY <1>1, <1>2, <2>2, EmitNone
    <3>2. WireOK(t)'
      BY <1>1, <3>1, WireQuiet, Zenon
    <3> QED BY <1>1, <3>1, <3>2, RunTypes, LongerSame, Zenon
  <2> QED BY <2>1, <2>2
<1>4. answer' \in [Turns -> {"none", "text", "empty"}]
  BY <1>1, <1>2, RunTypes, Zenon
<1>5. Local(t)
  BY <1>1, <1>3, <1>4, RunTypes, Zenon DEF Local
<1>6. Frame(t) /\ TypeOK' /\ SaveOK(t)'
  BY <1>1, <1>5, EarlyStep, Zenon DEF Early
<1>7. Recalls(t)'
  <2>1. pc'[t] \notin Silent
    BY <1>1 DEF Silent
  <2> QED BY <1>1, <1>6, <2>1, RecallsKept, Zenon DEF Read
<1> QED BY <1>3, <1>6, <1>7, WorkStep, Zenon

LEMMA LogFacts ==
  ASSUME TypeOK, NEW t \in Turns, NEW s \in {"200", "5xx"}, InsertLog(t, s)
  PROVE  /\ logged' \in [Turns -> {"none", "lost", "200", "5xx"}]
         /\ logged'[t] \in {s, "lost"}
         /\ \A q \in Turns \ {t} : logged'[q] = logged[q]
         /\ faults' \in 0 .. MaxFaults
<1>1. faults' \in 0 .. MaxFaults
  BY FaultTypes, Zenon DEF InsertLog, TypeOK
<1>2. \E v \in {s, "lost"} : logged' = [logged EXCEPT ![t] = v]
  BY DEF InsertLog
<1> QED BY <1>1, <1>2, RunTypes

LEMMA FailInv ==
  ASSUME Inv, NEW t \in Turns, Fail(t)
  PROVE  Inv'
<1>1. /\ TypeOK /\ pc[t] = "fail" /\ pc'[t] = "end" /\ Goto(t, "end") /\ InsertLog(t, "5xx")
      /\ UNCHANGED <<pageVars, runVars, saveVars, tickets>>
  BY GotoFacts, Zenon DEF Inv, Fail
<1>2. PICK e \in {"error", "refused"} : Emit(t, <<e>>)
  BY Zenon DEF Fail
<1>3. /\ UNCHANGED <<got, gone>> /\ wire' \in [Turns -> Seq(Events)]
      /\ \A q \in Turns \ {t} : wire'[q] = wire[q]
      /\ Longer(t)
  BY <1>1, <1>2, EmitOne DEF Events
<1>4. /\ logged' \in [Turns -> {"none", "lost", "200", "5xx"}]
      /\ logged'[t] \in {"5xx", "lost"}
      /\ \A q \in Turns \ {t} : logged'[q] = logged[q]
      /\ faults' \in 0 .. MaxFaults
  BY <1>1, LogFacts, Zenon
<1>5. Local(t)
  BY <1>1, <1>3, <1>4, RunTypes, Zenon DEF Local, runVars
<1>6. Frame(t) /\ TypeOK' /\ SaveOK(t)' /\ Clean(t)'
  BY <1>1, <1>5, EarlyStep, Zenon DEF Early
<1>7. WireOK(t)'
  <2>1. e \in Events \ {"timeout"} /\ Tells(e, t)'
    BY <1>4, Zenon DEF Events, Tells
  <2> QED BY <1>1, <1>2, <1>6, <2>1, WireEnd, Zenon
<1>8. Recalls(t)'
  <2>1. pc'[t] \notin Silent
    BY <1>1 DEF Silent
  <2> QED BY <1>1, <1>6, <2>1, RecallsKept, Zenon DEF runVars, Read
<1> QED BY <1>6, <1>7, <1>8, WorkStep

LEMMA LoadWindowInv ==
  ASSUME Inv, NEW t \in Turns, LoadWindow(t)
  PROVE  Inv'
<1>1. /\ TypeOK /\ pc[t] = "window" /\ pc'[t] = "classify" /\ Goto(t, "classify")
      /\ UNCHANGED <<pageVars, conv, mode, answer, wire, got, gone, saveVars, tickets,
                     logged, faults>>
  BY GotoFacts, Zenon DEF Inv, LoadWindow, netVars
<1>2. /\ window' \in [Turns -> SUBSET (1 .. Len(stored))]
      /\ \A q \in Turns \ {t} : window'[q] = window[q]
      /\ window'[t] = {i \in 1 .. Len(stored) : conv[stored[i].turn] = conv[t]}
  BY <1>1, RunTypes, Zenon DEF LoadWindow
<1>3. Local(t)
  BY <1>1, <1>2, RunTypes, LongerSame, Zenon DEF Local
<1>4. Frame(t) /\ TypeOK' /\ SaveOK(t)'
  BY <1>1, <1>3, EarlyStep, Zenon DEF Early
<1>5. WireOK(t)'
  BY <1>1, WireQuiet, Zenon
<1>6. Recalls(t)'
  <2>0. mode[t] = "none"
    BY <1>1, Zenon DEF Inv, TurnOK, Recalls, Silent
  <2> SUFFICES ASSUME NEW u \in Turns, conv[u] = conv[t], Indexed(u)
               PROVE  InOrder(u, window[t])'
    BY <1>1, <2>0, Zenon DEF Recalls, Indexed, saveVars
  <2>1. InOrder(u, 1 .. Len(stored))
    BY Zenon DEF Inv, TurnOK, SaveOK
  <2>2. \A i \in 1 .. Len(stored), r \in Roles : IsRow(i, u, r) => i \in window'[t]
    BY <1>2 DEF IsRow
  <2>3. stored' = stored
    BY <1>1, Zenon DEF saveVars
  <2> QED BY <2>1, <2>2, <2>3, Zenon DEF InOrder, IsRow, Roles
<1> QED BY <1>4, <1>5, <1>6, WorkStep, Zenon

-----------------------------------------------------------------------------
(* finalize_generation. *)

LEMMA AppendStep ==
  ASSUME Inv, NEW t \in Turns, Appending(t), NEW o \in {"indexed", "unindexed", "failed"},
         AppendIs(t, o), faults' \in 0 .. MaxFaults,
         \/ /\ o = "indexed" /\ late' = late
            /\ stored' = Append(stored, [turn |-> t, role |-> Role(t)])
         \/ /\ o # "indexed" /\ stored' = stored
            /\ late' \in {late, late \cup {[turn |-> t, role |-> Role(t)]}}
  PROVE  Inv'
<1> DEFINE row == [turn |-> t, role |-> Role(t)]
           next == IF Role(t) = "user" THEN "append_assistant" ELSE "ticket"
<1>1. /\ TypeOK /\ pc[t] \in {"append_user", "append_assistant"}
      /\ Role(t) \in Roles /\ row \in Message /\ row.turn = t
      /\ Goto(t, next) /\ pc'[t] = next /\ \A q \in Turns \ {t} : pc'[q] = pc[q]
      /\ UNCHANGED <<pageVars, runVars, netVars, tickets, logged>>
  BY GotoFacts, Zenon DEF Inv, Appending, AppendIs, Role, Roles, Message
<1>2. next \in {"append_assistant", "ticket"}
  BY Zenon
<1>3. /\ append' \in [Turns -> [Roles -> {"none", "indexed", "unindexed", "failed"}]]
      /\ append'[t][Role(t)] = o
      /\ \A r \in Roles \ {Role(t)} : append'[t][r] = append[t][r]
      /\ \A q \in Turns \ {t} : append'[q] = append[q]
  BY <1>1, Zenon DEF AppendIs, TypeOK
<1>4. Grows(t) /\ late' \subseteq Message /\ \A m \in late' \ late : m.turn = t
  BY <1>1, Zenon DEF Grows, TypeOK
<1> HIDE DEF next, row
<1>5. Local(t)
  BY <1>1, LocalSame, Zenon
<1>6. TypeOK'
  BY <1>1, <1>2, <1>3, <1>4, <1>5, LocalTypes, Zenon DEF Stages, Streaming, TypeOK
<1>7. Frame(t)
  <2>1. Completed(t)' => Completed(t)
    BY <1>1, Zenon DEF Completed, netVars
  <2> QED BY <1>1, <1>2, <1>3, <1>4, <1>5, <2>1, ZenonT(60) DEF Frame, Local
<1>8. SaveOK(t)'
  <2>1. SaveOK(t) /\ t \notin tickets'
    BY <1>1, Zenon DEF Inv, TurnOK, SaveOK
  <2>2. ASSUME o = "indexed", NEW r, Role(t) = r
        PROVE  \E j \in 1 .. Len(stored') :
                 (\A i \in 1 .. Len(stored) : i < j) /\ IsRow(j, t, r)'
    <3>1. stored \in Seq(Message) /\ Len(stored) \in Nat /\ stored' = Append(stored, row)
      BY <1>1, <2>2 DEF TypeOK, row
    <3>2. Len(stored') = Len(stored) + 1 /\ stored'[Len(stored) + 1] = row
      BY <1>1, <3>1, Appended
    <3> QED BY <2>2, <3>1, <3>2 DEF IsRow, row
  <2>3. \A i \in 1 .. Len(stored), r \in Roles :
           IsRow(i, t, r) => i \in 1 .. Len(stored') /\ IsRow(i, t, r)'
    BY <1>1, <1>4, GrowsOrder, Rows, Zenon
  <2>4. CASE pc[t] = "append_user"
    <3>1. Role(t) = "user" /\ append'[t]["user"] = o /\ append'[t]["assistant"] = "none"
      BY <1>3, <2>1, <2>4, Zenon DEF Role, Roles, SaveOK
    <3>2. o = "indexed" => \E i \in 1 .. Len(stored') : IsRow(i, t, "user")'
      BY <2>2, <3>1, Zenon
    <3> QED BY <1>1, <1>2, <2>1, <3>1, <3>2, Zenon DEF SaveOK, Early, Indexed, Roles
  <2>5. CASE pc[t] = "append_assistant"
    <3>1. /\ Role(t) = "assistant"
          /\ append'[t]["user"] = append[t]["user"] /\ append'[t]["assistant"] = o
      BY <1>3, <2>5, Zenon DEF Role, Roles
    <3>2. append'[t]["user"] = "indexed" => \E i \in 1 .. Len(stored) : IsRow(i, t, "user")
      BY <2>1, <3>1, Zenon DEF SaveOK
    <3>3. append'[t]["user"] = "indexed" => \E i \in 1 .. Len(stored') : IsRow(i, t, "user")'
      BY <2>3, <3>2, Zenon DEF Roles
    <3>4. Indexed(t)' => InOrder(t, 1 .. Len(stored))'
      BY <2>2, <2>3, <3>1, <3>2, Zenon DEF Indexed, InOrder, Roles
    <3> QED BY <1>1, <1>2, <2>1, <3>3, <3>4, Zenon DEF SaveOK, Early
  <2> QED BY <1>1, <2>4, <2>5, Zenon
<1>9. WireOK(t)'
  BY <1>1, WireQuiet, Zenon DEF netVars
<1>10. Recalls(t)'
  <2>1. pc'[t] \notin Silent
    BY <1>1, <1>2 DEF Silent
  <2> QED BY <1>1, <1>2, <1>7, <2>1, RecallsKept, Zenon DEF runVars, Read
<1> QED BY <1>6, <1>7, <1>8, <1>9, <1>10, WorkStep, Zenon

\* The steps of finalize_generation that leave the rows alone.
LEMMA AfterStep ==
  ASSUME Inv, NEW t \in Turns, Local(t), NEW s \in {"log", "end"}, Goto(t, s),
         pc[t] \notin Early \cup {"end"}, UNCHANGED <<append, stored, mode>>,
         late' \subseteq Message, \A m \in late' \ late : m.turn = t,
         tickets' \in {tickets, tickets \cup {t}},
         t \in tickets' => Saved(t) /\ mode[t] = "lore_gap",
         window' = window
  PROVE  Frame(t) /\ TypeOK' /\ SaveOK(t)' /\ Recalls(t)'
<1>1. TypeOK /\ s \in Stages /\ pc'[t] = s /\ \A q \in Turns \ {t} : pc'[q] = pc[q]
  BY GotoFacts, Zenon DEF Inv, Stages, Streaming
<1>2. TypeOK'
  BY <1>1, LocalTypes, ZenonT(30) DEF TypeOK, Grows
<1>3. Frame(t)
  <2>1. Completed(t)' => Completed(t)
    BY <1>1, SentBefore, Zenon DEF Local
  <2> QED BY <1>1, <2>1, Zenon DEF Frame, Local, Early, Grows
<1>4. SaveOK(t)'
  <2>1. SaveOK(t)
    BY Zenon DEF Inv, TurnOK
  <2> QED BY <1>1, <2>1, Zenon DEF SaveOK, Early, Indexed, Saved, InOrder, IsRow
<1>5. Recalls(t)'
  <2>1. pc'[t] \notin Silent
    BY <1>1 DEF Silent
  <2> QED BY <1>1, <1>3, <2>1, RecallsKept, Zenon DEF Read
<1> QED BY <1>2, <1>3, <1>4, <1>5, Zenon

LEMMA CreateTicketInv ==
  ASSUME Inv, NEW t \in Turns, CreateTicket(t)
  PROVE  Inv'
<1>1. /\ TypeOK /\ pc[t] = "ticket" /\ Goto(t, "log") /\ pc'[t] = "log"
      /\ UNCHANGED <<pageVars, runVars, netVars, append, stored, late, logged>>
  BY GotoFacts, Zenon DEF Inv, CreateTicket, saveVars
<1>2. faults' \in 0 .. MaxFaults
  BY <1>1, FaultTypes, RunTypes, Zenon DEF CreateTicket
<1>3. t \notin tickets
  BY <1>1, Zenon DEF Inv, TurnOK, SaveOK
<1>4. /\ tickets' \in {tickets, tickets \cup {t}}
      /\ t \in tickets' => Saved(t) /\ mode[t] = "lore_gap"
  BY <1>3, Zenon DEF CreateTicket
<1>5. Local(t)
  BY <1>1, <1>2, LocalSame, Zenon
<1>6. Frame(t) /\ TypeOK' /\ SaveOK(t)' /\ Recalls(t)'
  BY <1>1, <1>4, <1>5, AfterStep, Zenon DEF TypeOK, Early, runVars
<1>7. WireOK(t)'
  BY <1>1, WireQuiet, Zenon DEF netVars
<1> QED BY <1>6, <1>7, WorkStep, Zenon

LEMMA DoneInv ==
  ASSUME Inv, NEW t \in Turns, Done(t)
  PROVE  Inv'
<1>1. /\ TypeOK /\ pc[t] = "log" /\ Goto(t, "end") /\ pc'[t] = "end"
      /\ InsertLog(t, "200") /\ Emit(t, <<"done">>)
      /\ "done" \in Events /\ "done" \in Events \ {"timeout"}
      /\ UNCHANGED <<pageVars, conv, mode, answer, window, append, stored, late, tickets>>
  BY GotoFacts DEF Inv, Done, saveVars, runVars, Events
<1>2. /\ UNCHANGED <<got, gone>> /\ wire' \in [Turns -> Seq(Events)]
      /\ \A q \in Turns \ {t} : wire'[q] = wire[q]
      /\ Longer(t)
  BY <1>1, EmitOne
<1>3. /\ logged' \in [Turns -> {"none", "lost", "200", "5xx"}]
      /\ logged'[t] \in {"200", "lost"}
      /\ \A q \in Turns \ {t} : logged'[q] = logged[q]
      /\ faults' \in 0 .. MaxFaults
  BY <1>1, LogFacts, Zenon
<1>4. Local(t)
  BY <1>1, <1>2, <1>3, RunTypes, Zenon DEF Local
<1>5. t \in tickets => Saved(t) /\ mode[t] = "lore_gap"
  BY Zenon DEF Inv, TurnOK, SaveOK
<1>6. Frame(t) /\ TypeOK' /\ SaveOK(t)' /\ Recalls(t)'
  BY <1>1, <1>4, <1>5, AfterStep, Zenon DEF TypeOK, Early
<1>7. WireOK(t)'
  BY <1>1, <1>3, WireEnd, Zenon DEF Tells
<1> QED BY <1>6, <1>7, WorkStep

LEMMA CancelInv ==
  ASSUME Inv, NEW t \in Turns, Cancel(t)
  PROVE  Inv'
<1>1. /\ TypeOK /\ pc[t] \in Streaming /\ Goto(t, "end") /\ pc'[t] = "end"
      /\ UNCHANGED <<pageVars, runVars, netVars, append, stored, tickets, logged, faults>>
  BY GotoFacts, ZenonT(30) DEF Inv, Cancel
<1>2. Local(t)
  BY <1>1, LocalSame, RunTypes, Zenon
<1>3. WireOK(t)'
  <2>1. WireOK(t) /\ pc[t] # "end" /\ UNCHANGED <<wire, logged>>
    BY <1>1, Zenon DEF Inv, TurnOK, Streaming, netVars
  <2> QED BY <1>1, <2>1, WireQuiet, Zenon DEF netVars
<1>4. CASE pc[t] \in Early
  <2>1. late' = late
    BY <1>4, Zenon DEF Cancel, Appending, Early
  <2>2. Frame(t) /\ TypeOK' /\ SaveOK(t)'
    BY <1>1, <1>2, <1>4, <2>1, EarlyStep, Zenon DEF Streaming, saveVars
  <2>3. Recalls(t)'
    <3>1. pc'[t] \notin Silent
      BY <1>1 DEF Silent
    <3> QED BY <1>1, <2>2, <3>1, RecallsKept, Zenon DEF runVars, Read
  <2> QED BY <1>3, <2>2, <2>3, WorkStep, Zenon
<1>5. CASE pc[t] \notin Early
  <2>1. late' \subseteq Message /\ \A m \in late' \ late : m.turn = t
    BY <1>1, SMTT(30) DEF Cancel, Role, Roles, Message, TypeOK
  <2>2. t \in tickets => Saved(t) /\ mode[t] = "lore_gap"
    BY DEF Inv, TurnOK, SaveOK
  <2>3. Frame(t) /\ TypeOK' /\ SaveOK(t)' /\ Recalls(t)'
    BY <1>1, <1>2, <1>5, <2>1, <2>2, AfterStep, Zenon DEF Streaming, runVars
  <2> QED BY <1>3, <2>3, WorkStep, Zenon
<1> QED BY <1>4, <1>5, Zenon

\* The gateway gives up a worker that runs on.
LEMMA TimesOutInv ==
  ASSUME Inv, NEW t \in Turns, GatewayTimesOut(t)
  PROVE  Inv'
<1>1. /\ TypeOK /\ pc[t] \notin {"idle", "end"} /\ faults' \in 0 .. MaxFaults
      /\ wire' = [wire EXCEPT ![t] = Append(wire[t], "timeout")]
      /\ gone' = [gone EXCEPT ![t] = TRUE]
      /\ UNCHANGED <<page, sent, busy, current, shown, pageVars, pc, conv, mode, answer, window,
                     got, append, stored, late, tickets, logged>>
  <2>1. pc[t] \in Streaming \cup {"window", "classify"}
    BY Zenon DEF GatewayTimesOut
  <2>2. pc[t] \notin {"idle", "end"}
    BY <2>1 DEF Streaming
  <2> QED BY <2>2, FaultTypes, Zenon DEF Inv, GatewayTimesOut, pageVars, runVars, saveVars
<1>2. /\ wire[t] \in Seq(Events) /\ Len(wire[t]) \in Nat /\ "timeout" \in Events
      /\ wire \in [Turns -> Seq(Events)] /\ gone \in [Turns -> BOOLEAN]
  BY <1>1 DEF TypeOK, Events
<1>3. /\ gone'[t] = TRUE /\ gone' \in [Turns -> BOOLEAN]
      /\ \A q \in Turns : gone[q] => gone'[q]
  BY <1>1, <1>2, Zenon
<1>4. wire'[t] = Append(wire[t], "timeout") /\ \A q \in Turns \ {t} : wire'[q] = wire[q]
  BY <1>1, <1>2, Zenon
<1>5. /\ Len(wire'[t]) = Len(wire[t]) + 1
      /\ \A i \in 1 .. Len(wire[t]) : wire'[t][i] = wire[t][i]
      /\ wire'[t][Len(wire[t]) + 1] = "timeout"
      /\ wire'[t] \in Seq(Events)
  BY <1>2, <1>4, Appended
<1>6. Longer(t) /\ wire' \in [Turns -> Seq(Events)]
  BY <1>1, <1>2, <1>4, <1>5 DEF Longer
<1>7. \A q \in Turns : got'[q] <= Len(wire'[q])
  <2>1. ASSUME NEW q \in Turns PROVE got[q] \in Nat /\ Len(wire[q]) \in Nat /\ got[q] <= Len(wire[q])
    BY <1>1, SMTT(30) DEF TypeOK
  <2>2. ASSUME NEW q \in Turns PROVE got[q] <= Len(wire'[q])
    <3>1. CASE q = t
      BY <1>5, <2>1, <3>1
    <3>2. CASE q # t
      BY <1>4, <2>1, <3>2
    <3> QED BY <3>1, <3>2
  <2> QED BY <1>1, <2>2, Zenon
<1>8. TypeOK'
  BY <1>1, <1>3, <1>6, <1>7, Zenon DEF TypeOK
<1>9. Frame(t)
  <2>1. Completed(t)' => Completed(t)
    BY <1>1, <1>6, SentBefore, Zenon
  <2> QED BY <1>1, <1>3, <1>4, <2>1, Zenon DEF Frame, Grows
<1>10. SaveOK(t)'
  <2>1. SaveOK(t) /\ (Clean(t)' <=> Clean(t))
    BY <1>1, Zenon DEF Inv, TurnOK, Clean, IsRow
  <2> QED BY <1>1, <2>1, Zenon DEF SaveOK, Indexed, Saved, InOrder, IsRow
<1>11. WireOK(t)'
  <2>1. /\ logged[t] = "none"
        /\ \A i \in 1 .. Len(wire[t]) : wire[t][i] \in {"meta", "token", "timeout"}
    BY <1>1, Zenon DEF Inv, TurnOK, WireOK
  <2>2. \A i \in 1 .. Len(wire'[t]) : wire'[t][i] \in {"meta", "token", "timeout"}
    BY <1>2, <1>5, <2>1
  <2> QED BY <1>1, <1>3, <2>1, <2>2, Zenon DEF WireOK, Tells
<1>12. Recalls(t)'
  <2>1. pc[t] \in Silent => mode[t] = "none"
    BY Zenon DEF Inv, TurnOK, Recalls
  <2> QED BY <1>1, <1>9, <2>1, RecallsKept, Zenon DEF Read
<1> QED BY <1>8, <1>9, <1>10, <1>11, <1>12, WorkStep, Zenon

\* Every step of a worker.
LEMMA WorkerInv ==
  ASSUME Inv, NEW t \in Turns, Work(t) \/ (Trouble(t) /\ ~Cut(t) /\ ~EndsEarly(t))
  PROVE  Inv'
<1>1. TypeOK /\ faults \in 0 .. MaxFaults
  BY RunTypes, Zenon DEF Inv
<1>2. CASE Forward(t)
  BY <1>1, <1>2, QuietStep, Zenon DEF Forward
<1>3. CASE LlmFails(t)
  BY <1>1, <1>3, FaultTypes, QuietStep, Zenon DEF LlmFails
<1>4. CASE ForwardFails(t)
  BY <1>1, <1>4, FaultTypes, RefuseStep, Zenon DEF ForwardFails
<1>5. CASE LoadWindowFails(t)
  BY <1>1, <1>5, FaultTypes, RefuseStep, Zenon DEF LoadWindowFails
<1>6. CASE ClassifyIntent(t)
  <2>1. CASE Decide(t, "other")
    BY <1>6, <2>1, DecideStep, Zenon DEF ClassifyIntent, Modes
  <2>2. CASE Goto(t, "retrieve") /\ UNCHANGED <<mode, netVars>>
    BY <1>1, <1>6, <2>2, QuietStep, Zenon DEF ClassifyIntent, runVars
  <2> QED BY <1>6, <2>1, <2>2, Zenon DEF ClassifyIntent
<1>7. CASE Retrieve(t)
  BY <1>7, DecideStep, Zenon DEF Retrieve
<1>8. CASE RetrieveFails(t)
  <2>1. CASE page = "form"
    BY <1>1, <1>8, <2>1, FaultTypes, QuietStep, Zenon DEF RetrieveFails
  <2>2. CASE page # "form"
    BY <1>1, <1>8, <2>2, FaultTypes, RefuseStep, Zenon DEF RetrieveFails
  <2> QED BY <2>1, <2>2, Zenon
<1>9. CASE AppendMessage(t)
  BY <1>1, <1>9, AppendStep, Zenon DEF AppendMessage
<1>10. CASE AppendRefused(t)
  BY <1>1, <1>10, FaultTypes, AppendStep, Zenon DEF AppendRefused
<1>11. CASE AppendUnindexed(t)
  BY <1>1, <1>11, FaultTypes, AppendStep, Zenon DEF AppendUnindexed
<1>12. CASE AppendTimesOut(t)
  BY <1>1, <1>12, FaultTypes, AppendStep, Zenon DEF AppendTimesOut
<1> QED
  BY <1>2, <1>3, <1>4, <1>5, <1>6, <1>7, <1>8, <1>9, <1>10, <1>11, <1>12, LlmAnswersInv,
     FailInv, LoadWindowInv, CreateTicketInv, DoneInv, CancelInv, TimesOutInv, Zenon
  DEF Work, Trouble

\* An append that outlived its caller is of a turn that was being saved.
LEMMA LateAppendInv ==
  ASSUME Inv, NEW m \in late, LateAppend(m)
  PROVE  Inv'
<1>1. /\ TypeOK /\ m \in Message /\ late' = late \ {m}
      /\ UNCHANGED <<page, sent, busy, current, shown, pc, conv, mode, answer, window, wire, got,
                     gone, append, tickets, logged, faults>>
  BY Zenon DEF Inv, TypeOK, LateAppend, pageVars, runVars, netVars
<1>2. PICK t \in Turns, r \in Roles : m = [turn |-> t, role |-> r]
  BY <1>1, Zenon DEF Message
<1>3. Grows(t) /\ ~Clean(t)
  BY <1>2, Zenon DEF LateAppend, Grows, Clean
<1>4. TypeOK'
  <2>1. stored' \in Seq(Message) /\ 1 .. Len(stored) \subseteq 1 .. Len(stored')
    BY <1>1, <1>3, Rows, Zenon
  <2>2. window' \in [Turns -> SUBSET (1 .. Len(stored'))]
    BY <1>1, <2>1, Zenon DEF TypeOK
  <2> QED BY <1>1, <2>1, <2>2, Zenon DEF TypeOK
<1>5. \A q \in Turns : TurnOK(q)'
  <2>1. \A u \in Turns : Completed(u)' => Completed(u)
    BY <1>1, Zenon DEF Completed
  <2> QED BY <1>1, <1>3, <2>1, TurnKept, Zenon
<1>6. PageOK'
  BY <1>1, Zenon DEF Inv, PageOK
<1> QED BY <1>4, <1>5, <1>6 DEF Inv

-----------------------------------------------------------------------------
(* The steps of the page. *)

\* A turn stays in order when its own part, the rows and what the page has got stay.
LEMMA TurnSame ==
  ASSUME Inv, NEW q \in Turns, pc'[q] = pc[q], pc[q] # "idle" => conv'[q] = conv[q],
         \A u \in Turns : Completed(u) => conv'[u] = conv[u],
         \A u \in Turns : Completed(u)' => Completed(u) \/ (pc[q] # "idle" => ~(u < q)),
         gone[q] => gone'[q],
         UNCHANGED <<mode, wire, window, saveVars, tickets, logged>>
  PROVE  TurnOK(q)'
<1>1. TurnOK(q) /\ UNCHANGED <<append, stored, late>>
  BY Zenon DEF Inv, saveVars
<1>2. Clean(q)' <=> Clean(q)
  BY <1>1, Zenon DEF Clean, IsRow
<1>3. SaveOK(q)'
  BY <1>1, <1>2, Zenon DEF TurnOK, SaveOK, Indexed, Saved, InOrder, IsRow
<1>4. WireOK(q)'
  BY <1>1, <1>2, Zenon DEF TurnOK, WireOK, Tells
<1>5. Recalls(q)'
  <2> SUFFICES ASSUME Read(q), NEW u \in Turns, u < q, Completed(u)', conv'[u] = conv'[q],
                      Indexed(u)
               PROVE  InOrder(u, window[q])'
    BY <1>1, Zenon DEF TurnOK, Recalls, Read, Indexed
  <2>1. pc[q] # "idle"
    BY <1>1 DEF TurnOK, Recalls, Read, Silent
  <2>2. Completed(u) /\ conv[u] = conv[q]
    BY <2>1, Zenon
  <2> QED BY <1>1, <2>2, Zenon DEF TurnOK, Recalls, InOrder, IsRow
<1> QED BY <1>3, <1>4, <1>5, Zenon DEF TurnOK

LEMMA AskInv ==
  ASSUME Inv, NEW t \in Turns, Ask(t), current' \in {current, conv'[t]}
  PROVE  Inv'
<1>0. /\ TypeOK /\ PageOK /\ sent \in Int /\ current \in Int /\ MaxTurns \in Int /\ t \in Int
      /\ t = sent + 1 /\ sent' = t /\ ~busy /\ busy' = TRUE /\ 0 <= sent
      /\ shown \subseteq Turns
  BY Numbers, Zenon DEF Inv, Ask
<1> DEFINE c == IF current = 0 THEN t ELSE current
<1>1. /\ conv \in [Turns -> 0 .. sent] /\ current \in 0 .. sent /\ shown \subseteq 1 .. sent
  BY <1>0, Zenon DEF TypeOK
<1>2. /\ conv'[t] = c /\ c \in 0 .. t /\ c # 0
      /\ \A q \in Turns \ {t} : conv'[q] = conv[q]
      /\ conv' \in [Turns -> 0 .. t]
  BY <1>0, <1>1 DEF Ask
<1>3. pc'[t] = "gateway" /\ (\A q \in Turns \ {t} : pc'[q] = pc[q])
  BY <1>0, GotoFacts, Zenon DEF Ask
<1>4. UNCHANGED <<page, shown, mode, answer, window, wire, got, gone, saveVars, append, stored,
                  late, tickets, logged, faults>>
  BY Zenon DEF Ask, netVars, saveVars
<1>5. pc[t] = "idle" /\ t \notin shown
  BY <1>0, <1>1 DEF PageOK
<1> HIDE DEF c
<1>6. TypeOK'
  <2>1. sent' \in 0 .. MaxTurns /\ busy' \in BOOLEAN /\ current' \in 0 .. sent'
    BY <1>0, <1>1, <1>2 DEF Turns
  <2>2. shown' \subseteq 1 .. sent' /\ conv' \in [Turns -> 0 .. sent']
    BY <1>0, <1>1, <1>2, <1>4
  <2>3. pc' \in [Turns -> Streaming \cup {"idle", "gateway", "window", "classify", "end"}]
    BY <1>0 DEF TypeOK, Ask, Goto
  <2> QED BY <1>0, <1>4, <2>1, <2>2, <2>3, Zenon DEF TypeOK
<1>7. PageOK'
  <2>1. \A q \in Turns : (pc'[q] = "idle" <=> q > sent')
    BY <1>0, <1>3, Numbers DEF PageOK
  <2>2. \A q \in 1 .. sent' : conv'[q] # 0
    <3>1. ASSUME NEW q \in 1 .. t PROVE conv'[q] # 0
      <4>1. q \in Turns /\ (q # t => q \in 1 .. sent)
        BY <1>0 DEF Turns
      <4> QED BY <1>0, <1>2, <4>1, Zenon DEF PageOK
    <3> QED BY <1>0, <3>1, Zenon
  <2>3. shown # {} => current # 0 /\ current' = current
    BY <1>0, <1>1, <1>2, Zenon DEF PageOK, c
  <2>4. \A u \in shown' : conv'[u] = current'
    BY <1>0, <1>2, <1>4, <1>5, <2>3 DEF PageOK
  <2>5. sent' # 0 /\ (current' # 0 => conv'[sent'] = current')
    BY <1>0, <1>1, <1>2 DEF c
  <2> QED BY <2>1, <2>2, <2>4, <2>5, Zenon DEF PageOK
<1>8. ASSUME NEW q \in Turns PROVE TurnOK(q)'
  <2>1. CASE q # t
    <3>1. \A u \in Turns : Completed(u) => conv'[u] = conv[u]
      <4>1. ~Completed(t)
        BY <1>5, CompletedEnds
      <4> QED BY <1>2, <4>1, Zenon
    <3>2. \A u \in Turns : Completed(u)' => Completed(u)
      BY <1>4, Zenon DEF Completed
    <3> QED BY <1>2, <1>3, <1>4, <2>1, <3>1, <3>2, TurnSame, Zenon
  <2>2. CASE q = t
    <3>1. /\ Clean(t) /\ (\A r \in Roles : append[t][r] = "none")
          /\ logged[t] = "none" /\ mode[t] = "none" /\ WireOK(t)
      BY <1>5, Zenon DEF Inv, TurnOK, SaveOK, WireOK, Recalls, Early, Silent
    <3>2. Clean(t)' /\ (\A r \in Roles : append'[t][r] = "none")
      BY <1>4, <3>1, Zenon DEF Clean, IsRow
    <3>3. SaveOK(t)'
      BY <1>3, <3>2, Zenon DEF SaveOK, Indexed, Clean, Roles
    <3>4. WireOK(t)'
      BY <1>4, <1>5, WireQuiet
    <3>5. Recalls(t)'
      BY <1>3, <1>4, <3>1 DEF Recalls, Read
    <3> QED BY <2>2, <3>3, <3>4, <3>5, Zenon DEF TurnOK
  <2> QED BY <2>1, <2>2
<1> QED BY <1>6, <1>7, <1>8, Zenon DEF Inv

LEMMA ReceiveInv ==
  ASSUME Inv, NEW t \in Turns, Receive(t)
  PROVE  Inv'
<1> DEFINE event == wire[t][got[t] + 1]
<1>0. /\ TypeOK /\ PageOK /\ sent \in Int /\ t \in Int /\ t = sent /\ busy
      /\ shown \subseteq Turns
  BY Numbers, Zenon DEF Inv, Receive, Consume
<1>1. /\ got[t] < Len(wire[t]) /\ got' = [got EXCEPT ![t] = @ + 1]
      /\ busy' = (event \notin {"done", "error", "refused", "timeout"})
      /\ shown' = IF event = "done" THEN shown \cup {t} ELSE shown
      /\ current' = IF event = "done" THEN conv[t] ELSE current
      /\ UNCHANGED <<page, sent, pc, conv, mode, answer, window, wire, gone, saveVars, append,
                     stored, late, tickets, logged, faults>>
  BY Zenon DEF Receive, Consume, runVars, saveVars
<1>2. /\ got[t] \in Nat /\ Len(wire[t]) \in Nat /\ got[t] + 1 \in 1 .. Len(wire[t])
      /\ got \in [Turns -> Nat]
  BY <1>0, <1>1, SMTT(30) DEF TypeOK
<1> HIDE DEF event
<1>4. got' \in [Turns -> Nat] /\ (\A q \in Turns : got'[q] <= Len(wire'[q]))
  <2>1. got'[t] = got[t] + 1 /\ (\A q \in Turns \ {t} : got'[q] = got[q])
    BY <1>1, <1>2, Zenon
  <2>2. got'[t] <= Len(wire'[t])
    BY <1>1, <1>2, <2>1
  <2>3. \A q \in Turns \ {t} : got'[q] <= Len(wire'[q])
    BY <1>0, <1>1, <2>1, Zenon DEF TypeOK
  <2>4. got' \in [Turns -> Nat]
    BY <1>1, <1>2
  <2> QED BY <2>2, <2>3, <2>4
<1>5. TypeOK'
  <2>1. busy' \in BOOLEAN
    BY <1>1, Zenon
  <2>2. current' \in 0 .. sent /\ shown' \subseteq 1 .. sent
    <3>1. /\ conv[t] \in 0 .. sent /\ current \in 0 .. sent /\ shown \subseteq 1 .. sent
          /\ t \in 1 .. sent
      BY <1>0 DEF TypeOK, Turns
    <3> QED BY <1>1, <3>1
  <2> QED BY <1>0, <1>1, <1>4, <2>1, <2>2, Zenon DEF TypeOK
<1>6. PageOK'
  <2>1. \A u \in shown : conv[u] = current
    BY <1>0, Zenon DEF PageOK
  <2>2. conv[t] # 0 /\ sent # 0 /\ (current # 0 => conv[t] = current)
    BY <1>0 DEF PageOK, Turns
  <2>3. \A u \in shown : conv[u] # 0
    <3>1. \A u \in shown : u \in 1 .. sent
      BY <1>0, Zenon DEF TypeOK
    <3> QED BY <1>0, <3>1, Zenon DEF PageOK
  <2>4. \A u \in shown' : conv'[u] = current'
    BY <1>1, <2>1, <2>2, <2>3, Zenon
  <2>5. busy' => sent' # 0 /\ (current' # 0 => conv'[sent'] = current')
    BY <1>0, <1>1, <2>2, Zenon
  <2> QED BY <1>0, <1>1, <2>4, <2>5, Zenon DEF PageOK
<1>7. ASSUME NEW q \in Turns PROVE TurnOK(q)'
  <2>1. pc[q] # "idle" => ~(t < q)
    BY <1>0, Numbers, Zenon DEF PageOK
  <2>2. \A u \in Turns \ {t} : got'[u] = got[u]
    BY <1>1, <1>2, Zenon
  <2>3. \A u \in Turns \ {t} : Completed(u)' => Completed(u)
    BY <1>1, <2>2, Zenon DEF Completed
  <2> QED BY <1>1, <2>1, <2>3, TurnSame, Zenon
<1> QED BY <1>5, <1>6, <1>7 DEF Inv

\* The request of the page ends, with or without an answer to show.
LEMMA LoseInv ==
  ASSUME Inv, NEW t \in Turns, Cut(t) \/ EndsEarly(t)
  PROVE  Inv'
<1>1. /\ TypeOK /\ PageOK /\ t = sent /\ busy /\ busy' = FALSE
      /\ gone' = [gone EXCEPT ![t] = TRUE] /\ faults' \in 0 .. MaxFaults
      /\ UNCHANGED <<page, sent, pc, conv, mode, answer, window, wire, got,
                     saveVars, append, stored, late, tickets, logged>>
  BY FaultTypes, Zenon DEF Inv, Cut, EndsEarly, Lose, runVars, saveVars
<1>2. gone' \in [Turns -> BOOLEAN] /\ \A q \in Turns : gone[q] => gone'[q]
  BY <1>1, Zenon DEF TypeOK
<1>3. \/ shown' = shown /\ current' = current
      \/ shown' = shown \cup {t} /\ current' = conv[t]
  BY Zenon DEF Cut, EndsEarly
<1>4. /\ conv[t] \in 0 .. sent /\ current \in 0 .. sent /\ shown \subseteq 1 .. sent
      /\ t \in 1 .. sent
  <2>1. conv[t] \in 0 .. sent /\ current \in 0 .. sent /\ shown \subseteq 1 .. sent
    BY <1>1, Zenon DEF TypeOK
  <2>2. t \in 1 .. sent
    BY <1>1 DEF Turns
  <2> QED BY <2>1, <2>2
<1>5. TypeOK'
  <2>1. current' \in 0 .. sent /\ shown' \subseteq 1 .. sent
    BY <1>3, <1>4
  <2> QED BY <1>1, <1>2, <2>1, Zenon DEF TypeOK
<1>6. PageOK'
  <2>1. (current # 0 => conv[t] = current) /\ (\A u \in shown : conv[u] = current /\ conv[u] # 0)
    BY <1>1, <1>4, Zenon DEF PageOK
  <2>2. \A u \in shown' : conv[u] = current'
    BY <1>3, <2>1, Zenon
  <2> QED BY <1>1, <2>2, Zenon DEF PageOK
<1>7. \A q \in Turns : TurnOK(q)'
  <2>1. \A u \in Turns : Completed(u)' => Completed(u)
    BY <1>1, Zenon DEF Completed
  <2> QED BY <1>1, <1>2, <2>1, TurnSame, Zenon
<1> QED BY <1>5, <1>6, <1>7, Zenon DEF Inv

-----------------------------------------------------------------------------

LEMMA InitInv == Init => Inv
<1> SUFFICES ASSUME Init PROVE Inv
  OBVIOUS
<1>1. TypeOK
  <2>1. /\ sent \in 0 .. MaxTurns /\ current \in 0 .. sent /\ faults \in 0 .. MaxFaults
        /\ conv \in [Turns -> 0 .. sent]
    BY ChatAssumption DEF Init, ChatAssumption
  <2>2. busy \in BOOLEAN /\ gone \in [Turns -> BOOLEAN]
    BY Zenon DEF Init
  <2>3. /\ wire \in [Turns -> Seq(Events)] /\ got \in [Turns -> Nat]
        /\ \A t \in Turns : got[t] <= Len(wire[t])
    BY DEF Init
  <2> QED BY <2>1, <2>2, <2>3 DEF Init, TypeOK
<1>2. PageOK
  BY ChatAssumption DEF Init, PageOK, Turns, ChatAssumption
<1>3. ASSUME NEW t \in Turns PROVE TurnOK(t)
  <2>1. /\ pc[t] = "idle" /\ wire[t] = << >> /\ logged[t] = "none"
        /\ \A r \in Roles : append[t][r] = "none"
        /\ stored = << >> /\ late = {} /\ tickets = {} /\ mode[t] = "none"
    BY Zenon DEF Init
  <2>2. SaveOK(t)
    BY <2>1 DEF SaveOK, Clean, Indexed, Roles
  <2>3. WireOK(t)
    BY <2>1 DEF WireOK
  <2>4. Recalls(t)
    BY <2>1 DEF Recalls, Read
  <2> QED BY <2>2, <2>3, <2>4, Zenon DEF TurnOK
<1> QED BY <1>1, <1>2, <1>3 DEF Inv

LEMMA StutterInv == ASSUME Inv, UNCHANGED vars PROVE Inv'
<1>1. UNCHANGED <<page, sent, busy, current, shown, pc, conv, mode, answer, window, wire, got,
                  gone, saveVars, append, stored, late, tickets, logged, faults>>
  BY Zenon DEF vars, pageVars, runVars, netVars, saveVars
<1>2. TypeOK' /\ PageOK'
  BY <1>1, Zenon DEF Inv, TypeOK, PageOK
<1>3. \A q \in Turns : TurnOK(q)'
  <2>1. \A u \in Turns : Completed(u)' => Completed(u)
    BY <1>1, Zenon DEF Completed
  <2> QED BY <1>1, <2>1, TurnSame, Zenon
<1> QED BY <1>2, <1>3, Zenon DEF Inv

LEMMA InvAlways == Spec => []Inv
<1>1. Inv /\ [Next]_vars => Inv'
  <2> SUFFICES ASSUME Inv, [Next]_vars PROVE Inv'
    BY Zenon
  <2>1. CASE UNCHANGED vars
    BY <2>1, StutterInv, Zenon
  <2>2. ASSUME NEW m \in late, LateAppend(m) PROVE Inv'
    BY <2>2, LateAppendInv, Zenon
  <2>3. ASSUME NEW t \in Turns, SendQuery(t) \/ HandleSubmit(t) PROVE Inv'
    BY <2>3, AskInv, Zenon DEF SendQuery, HandleSubmit
  <2>4. ASSUME NEW t \in Turns, Receive(t) \/ Cut(t) \/ EndsEarly(t) PROVE Inv'
    BY <2>4, ReceiveInv, LoseInv, Zenon
  <2>5. ASSUME NEW t \in Turns, Work(t) \/ (Trouble(t) /\ ~Cut(t) /\ ~EndsEarly(t)) PROVE Inv'
    BY <2>5, WorkerInv, Zenon
  <2> QED BY <2>1, <2>2, <2>3, <2>4, <2>5, Zenon DEF Next
<1> QED BY InitInv, <1>1, PTL DEF Spec

\* Every variable of the pages, the connections and the workers keeps its
\* type; in particular a page never reads past what was sent to it.
THEOREM ChatTypes == Spec => []TypeOK
  BY InvAlways, PTL DEF Inv

\* Whatever was cut, given up, cancelled or late, a follow-up question is
\* answered with every earlier answer of its conversation in its window that the
\* page had got to its end and whose two appends were acknowledged and indexed.
THEOREM AnswersRemembered == Spec => []AnswerRemembered
<1>1. Inv => AnswerRemembered
  <2> SUFFICES ASSUME Inv PROVE AnswerRemembered
    BY Zenon
  <2>1. \A t \in Turns : Recalls(t)
    BY Zenon DEF Inv, TurnOK
  <2> QED BY <2>1, Zenon DEF AnswerRemembered, Recalls, Read, Indexed
<1> QED BY InvAlways, <1>1, PTL

\* AC-4: a turn that failed in the worker or on the way to it left nothing
\* behind, and nothing of it is on its way.  The exception is exact: a reader who
\* is told of a failure although something was stored has lost the worker
\* (gone), by a 504 of the gateway or a connection cut before.
THEOREM FailuresLeaveNothing == Spec => []FailedTurnLeavesNothing
<1>1. Inv => FailedTurnLeavesNothing
  <2> SUFFICES ASSUME Inv, NEW t \in Turns, (ToldFailed(t) /\ ~gone[t]) \/ logged[t] = "5xx"
               PROVE  Clean(t)
    BY Zenon DEF FailedTurnLeavesNothing, Clean
  <2>1. WireOK(t) /\ DOMAIN wire[t] = 1 .. Len(wire[t])
    BY DEF Inv, TypeOK, TurnOK
  <2>2. CASE logged[t] = "5xx"
    BY <2>1, <2>2, Zenon DEF WireOK
  <2>3. CASE ToldFailed(t) /\ ~gone[t]
    BY <2>1, <2>3, Zenon DEF WireOK, ToldFailed
  <2> QED BY <2>2, <2>3
<1> QED BY InvAlways, <1>1, PTL

\* AC-9: a ticket is raised only for a saved lore gap, and its rows are in order.
THEOREM TicketsHaveTurns == Spec => []TicketHasTurn
<1>1. Inv => TicketHasTurn
  <2> SUFFICES ASSUME Inv, NEW t \in tickets
               PROVE  Saved(t) /\ mode[t] = "lore_gap" /\ (Indexed(t) => InOrder(t, 1 .. Len(stored)))
    BY Zenon DEF TicketHasTurn, Indexed
  <2>1. t \in Turns
    BY Zenon DEF Inv, TypeOK
  <2> QED BY <2>1, Zenon DEF Inv, TurnOK, SaveOK
<1> QED BY InvAlways, <1>1, PTL

\* The row of the query log contradicts neither an event the worker sent nor the
\* answer a page completed; it says 200 of a turn the reader was told had failed
\* only when the gateway had given the worker up or the reader was cut off.
THEOREM LogsTellOutcome == Spec => []LogTellsOutcome
<1>1. Inv => LogTellsOutcome
  <2> SUFFICES ASSUME Inv, NEW t \in Turns
               PROVE  /\ \A i \in DOMAIN wire[t] : Tells(wire[t][i], t)
                      /\ logged[t] = "200" /\ ToldFailed(t) => gone[t]
                      /\ logged[t] = "5xx" => ~Completed(t)
    BY Zenon DEF LogTellsOutcome, Tells
  <2>1. WireOK(t) /\ DOMAIN wire[t] = 1 .. Len(wire[t]) /\ 1 .. got[t] \subseteq 1 .. Len(wire[t])
    <3>1. got[t] \in Nat /\ Len(wire[t]) \in Nat /\ got[t] <= Len(wire[t])
      BY SMTT(30) DEF Inv, TypeOK
    <3>2. 1 .. got[t] \subseteq 1 .. Len(wire[t])
      BY <3>1
    <3> QED BY <3>2 DEF Inv, TypeOK, TurnOK
  <2>2. \A i \in DOMAIN wire[t] : Tells(wire[t][i], t)
    BY <2>1, Zenon DEF WireOK
  <2>3. logged[t] = "200" /\ ToldFailed(t) => gone[t]
    BY <2>1, Zenon DEF WireOK, Tells, ToldFailed
  <2>4. logged[t] = "5xx" => ~Completed(t)
    BY <2>1, <2>2, Zenon DEF Tells, Completed
  <2> QED BY <2>2, <2>3, <2>4, Zenon
<1> QED BY InvAlways, <1>1, PTL

\* All the answers a page shows are of the conversation the page names.
THEOREM ConversationIsOne == Spec => []OneConversation
<1>1. Inv => OneConversation
  BY Zenon DEF Inv, PageOK, OneConversation
<1> QED BY InvAlways, <1>1, PTL

=============================================================================
