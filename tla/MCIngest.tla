------------------------------ MODULE MCIngest ------------------------------
\* Instances of Ingest for TLC: an empty text, one of two passages and one of
\* one; the tiers of the readers as in services/acl.py.
EXTENDS Ingest

MCPassages == [b \in Bodies |-> CASE b = "empty" -> 0 [] b = "long" -> 2 [] OTHER -> 1]
MCFile(b, h) == [body |-> b, header |-> h]
MCUploads ==
  {<<1, MCFile("long", "members")>>,
   <<1, MCFile("short", "members")>>, <<1, MCFile("empty", "public")>>,
   <<1, MCFile("long", "bad")>>, <<2, MCFile("short", "members")>>}
MCInitial == {[p \in {1} |-> MCFile("long", "public")], [p \in {1} |-> MCFile("empty", "public")]}
MCAllowed == [u \in Users |-> IF u = "members" THEN {"public", "members"} ELSE {"public"}]
=============================================================================
