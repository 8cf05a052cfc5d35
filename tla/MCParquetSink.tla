---------------------------- MODULE MCParquetSink ----------------------------
(***************************************************************************)
(* Small instances of ParquetSink.                                         *)
(***************************************************************************)
EXTENDS ParquetSink

CONSTANTS binance, okx
=============================================================================
