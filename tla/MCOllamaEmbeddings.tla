------------------------- MODULE MCOllamaEmbeddings -------------------------
(***************************************************************************)
(* Small instance of OllamaEmbeddings: two calls under two permits, with   *)
(* two batches of up to two texts, blanks before and between the others,   *)
(* or with nothing but a blank.                                            *)
(***************************************************************************)
EXTENDS OllamaEmbeddings

CONSTANTS c1, c2

TwoCalls == {c1, c2}
FewInputs == {<<FALSE>>, <<FALSE, TRUE, TRUE, FALSE, TRUE>>}
=============================================================================
