---------------------------- MODULE EventStream ----------------------------
(***************************************************************************)
(* The Redis stream of the event bus (app/core/event_bus.py), which is all *)
(* that the publishers and the SSE connections share.                      *)
(***************************************************************************)
EXTENDS Integers, Sequences

VARIABLES
    log         \* the entries of the stream, in order
=============================================================================
