---------------------------- MODULE MCLKBackend ----------------------------
(* Thread layouts for the runs of module LKBackend.                         *)
EXTENDS LKBackend

\* Two threads on the first node, one on the second.
MCNode == <<1, 1, 2>>
=============================================================================
