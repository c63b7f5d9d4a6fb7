------------------------------ MODULE Transcript ------------------------------
(***************************************************************************)
(* What a conversation transcript promises to the code that writes it: a   *)
(* log that is opened, extended by one message at a time, possibly erased, *)
(* in which no message is ever written twice, and a message is             *)
(* acknowledged only once it has been written.  ConversationStore          *)
(* implements this module.                                                 *)
(***************************************************************************)
EXTENDS Sequences

CONSTANT Msgs  \* the messages that may be appended

VARIABLES
  exists,   \* whether there is a transcript
  log,      \* the messages of the transcript, in order
  written,  \* every message that was ever appended
  acked     \* the messages whose writer was told they are stored

vars == <<exists, log, written, acked>>

Init == exists = FALSE /\ log = <<>> /\ written = {} /\ acked = {}

Open ==
  /\ ~exists
  /\ exists' = TRUE
  /\ log' = <<>>
  /\ UNCHANGED <<written, acked>>

AppendMsg(m) ==
  /\ exists
  /\ m \notin written
  /\ log' = Append(log, m)
  /\ written' = written \cup {m}
  /\ UNCHANGED <<exists, acked>>

Ack(m) ==
  /\ m \in written
  /\ acked' = acked \cup {m}
  /\ UNCHANGED <<exists, log, written>>

Erase ==
  /\ exists
  /\ exists' = FALSE
  /\ log' = <<>>
  /\ UNCHANGED <<written, acked>>

Next ==
  \/ Open
  \/ Erase
  \/ \E m \in Msgs : AppendMsg(m) \/ Ack(m)

Spec == Init /\ [][Next]_vars
===============================================================================
