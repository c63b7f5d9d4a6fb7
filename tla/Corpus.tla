------------------------------- MODULE Corpus -------------------------------
(***************************************************************************)
(* What retrieval may rely on: the passages of a source are always all the *)
(* passages of one text the source has had, or none.  A text is published  *)
(* in one step, whatever an ingestion run does to get there.               *)
(***************************************************************************)
EXTENDS Naturals

CONSTANTS Paths,      \* the source paths of the corpus
          Bodies,     \* the texts a source may have
          Passages    \* the number of passages a text is split into

VARIABLES held,       \* the texts each source has had
          index       \* the passages that can be retrieved for each source

corpusVars == <<held, index>>

\* The passages of a text, as retrieval sees them.
Split(b) == {<<b, o>> : o \in 0 .. Passages[b] - 1}

CorpusInit ==
  /\ held \in [Paths -> SUBSET Bodies]
  /\ \A p \in Paths : index[p] = {} \/ \E b \in held[p] : index[p] = Split(b)

Edit(p, b) ==
  /\ held' = [held EXCEPT ![p] = @ \cup {b}]
  /\ UNCHANGED index

Publish(p, b) ==
  /\ b \in held[p]
  /\ index' = [index EXCEPT ![p] = Split(b)]
  /\ UNCHANGED held

CorpusNext == \E p \in Paths, b \in Bodies : Edit(p, b) \/ Publish(p, b)

CorpusSpec == CorpusInit /\ [][CorpusNext]_corpusVars
=============================================================================
