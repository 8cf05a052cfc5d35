--------------------------- MODULE MCBinanceFeed ---------------------------
(***************************************************************************)
(* Small instances of BinanceFeed.                                         *)
(***************************************************************************)
EXTENDS BinanceFeed

CONSTANTS l1
=============================================================================
