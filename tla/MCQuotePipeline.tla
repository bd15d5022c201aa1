-------------------------- MODULE MCQuotePipeline --------------------------
(* Values for TLC: a frame with a row that is passed over, two that are      *)
(* published and one that cannot be converted.                              *)
EXTENDS QuotePipeline

SomeFrames == {<<"blank", "quote", "quote", "bad", "quote">>}
=============================================================================
