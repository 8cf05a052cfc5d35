----------------------------- MODULE MCOKXFeed -----------------------------
(***************************************************************************)
(* Small instances of OKXFeed.                                             *)
(***************************************************************************)
EXTENDS OKXFeed

CONSTANTS l1
=============================================================================
