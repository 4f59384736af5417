----------------------------- MODULE MCRequests -----------------------------
EXTENDS Requests

(* The table of the present code.                                          *)
MCPolicy == SeededBy(HeadRevision)
=============================================================================
