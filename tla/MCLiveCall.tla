----------------------------- MODULE MCLiveCall -----------------------------
(* Two calls of one page, one after or during the other, by either route.  *)
EXTENDS LiveCall

=============================================================================
