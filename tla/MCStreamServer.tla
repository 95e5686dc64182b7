---------------------------- MODULE MCStreamServer ----------------------------
(* A tab that queries the kernel, a tab that follows the log, a unary call. *)
EXTENDS StreamServer

CONSTANTS metrics, perf, rest
===============================================================================
