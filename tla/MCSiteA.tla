------------------------------- MODULE MCSiteA -------------------------------
(* Small instances of SiteA: one or two jobs.                              *)
EXTENDS SiteA
=============================================================================
