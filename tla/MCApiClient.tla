----------------------------- MODULE MCApiClient -----------------------------
(* One call of each kind; every body of six tokens, in chunks of up to three.*)
EXTENDS ApiClient

=============================================================================
