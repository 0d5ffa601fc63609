-------------------------- MODULE MCIndexerService --------------------------
(* A chain of a few blocks.                                                *)
EXTENDS IndexerService
=============================================================================
