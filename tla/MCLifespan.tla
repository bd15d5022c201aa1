----------------------------- MODULE MCLifespan -----------------------------
(* The lifespan has no constants but the stub's bounds, given in the .cfg.  *)
EXTENDS Lifespan
=============================================================================
