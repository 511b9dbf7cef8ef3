---------------------------- MODULE MCRunServer ----------------------------
(* Two clients for a table of one, so that one may be refused.             *)
EXTENDS RunServer

CONSTANTS c1, c2
=============================================================================
