---------------------------- MODULE MCGDriveSync ----------------------------
(* Instances of GDriveSync.                                                *)
EXTENDS GDriveSync

\* A document, a later one that may come to its name, a presentation named like
\* that one with its suffix, a tab that may come to the name of another, and a
\* picture.
MCOrder == <<"doc", "deck", "essay", "grid", "pic", "sheet">>
MCKind == [doc |-> "gdoc", deck |-> "gslide", essay |-> "gdoc", grid |-> "tab",
           pic |-> "png", sheet |-> "tab"]
MCNames == [doc |-> << <<"a">> >>, deck |-> << <<"a", "essay">> >>,
            essay |-> << <<"b">>, <<"a">> >>, grid |-> << <<"g">>, <<"h">> >>,
            pic |-> << <<"p">>, <<"q">> >>, sheet |-> << <<"h">> >>]

\* Two documents of one name.
SameOrder == <<"doc", "old">>
SameKind == [doc |-> "gdoc", old |-> "gdoc"]
SameNames == [doc |-> << <<"a">> >>, old |-> << <<"a">> >>]
=============================================================================
