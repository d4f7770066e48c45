--------------------------- MODULE MCRenderService ---------------------------
(* Two subjects with two requests and a sign-out between them.           *)
EXTENDS RenderService

=============================================================================
