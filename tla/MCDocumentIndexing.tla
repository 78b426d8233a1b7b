------------------------- MODULE MCDocumentIndexing -------------------------
(* Instances of DocumentIndexing for TLC.                                   *)
EXTENDS DocumentIndexing

\* A new knowledge base, and one that has been indexed with both models before.
Collections == {NoColl, [text |-> 3, image |-> 5]}
=============================================================================
