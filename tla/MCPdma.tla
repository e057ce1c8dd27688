------------------------------- MODULE MCPdma -------------------------------
(* Small instances of the PDMA driver for TLC.                             *)
EXTENDS Pdma

(* Two channels, each driven by its own client thread.                     *)
MCChannels == {0, 1}

(* Done and item stand for the four event bits; pause and timeout are     *)
(* cleared like item and never raised (no descriptor sets pause).          *)
MCEvents == {"done", "item"}

(* With PDMA_MAX_LINE_SIZE = 2: one node (1) and two nodes (3).           *)
MCLengths == {1, 3}

(* A length that is a multiple of PDMA_MAX_LINE_SIZE.                      *)
MCLengthsExact == {2}

(* One length: the stop-and-wait of k_pdma_config and the ch_llt_saddr   *)
(* store do not depend on how long the chain is.                           *)
MCLengthsOne == {1}
=============================================================================
