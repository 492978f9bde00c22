---------------------------- MODULE MCFtdServer ----------------------------
(* FtdServer with small sets of threads and session objects.               *)
EXTENDS FtdServer
=============================================================================
