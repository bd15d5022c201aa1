--------------------------- MODULE MCStreamRunner ---------------------------
(* Symbol lists for TLC: each service is set, replaced and cleared by some  *)
(* change from one of these to another.                                     *)
EXTENDS StreamRunner, TLC

L(e, f, o) == [s \in Service |-> CASE s = "equities" -> e
                                   [] s = "futures"  -> f
                                   [] s = "options"  -> o]
MCInitial == L({"a"}, {}, {})
MCPayload == {L({"a"}, {}, {"b"}), L({}, {"a"}, {"b"}), L({"b"}, {}, {})}

Symmetry == Permutations(Client)
=============================================================================
