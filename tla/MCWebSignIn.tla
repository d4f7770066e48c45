---------------------------- MODULE MCWebSignIn ----------------------------
(* One page, one browser and the handler, with either keeper of a login.   *)
EXTENDS WebSignIn

BothCustodies == {"store", "cookie"}

=============================================================================
