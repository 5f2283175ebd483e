----------------------------- MODULE MCIndexer ------------------------------
(***************************************************************************)
(* A small instance of Indexer: the vault's initialize, two changes and an *)
(* event the decoder does not know, on pages of two.                       *)
(***************************************************************************)
EXTENDS Indexer

MCFeed == <<"initialize", "change", "other", "change">>
=============================================================================
