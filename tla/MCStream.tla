------------------------------ MODULE MCStream ------------------------------
(* A small instance of JobStream for TLC, with the files of MCLifecycle. *)
EXTENDS JobStream, MCLifecycle
=============================================================================
