---------------------------- MODULE MCAppServer ----------------------------
(* Two streams over one process. *)
EXTENDS AppServer

CONSTANTS a, b

TwoStreams == {a, b}

=============================================================================
