---------------------------- MODULE MCSiteWorkflows ----------------------------
(* An instance of SiteWorkflows for TLC. *)
EXTENDS SiteWorkflows

CONSTANTS v1, v2

MCCamera == {v1, v2}
MCScopes == SUBSET MCCamera \ {{}}
=============================================================================
