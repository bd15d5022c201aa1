--------------------------- MODULE MCReadThrough ----------------------------
(* Values for TLC: one contract, asked for twice in a list in two writings   *)
(* of its symbol, and two chains that differ in the expiration only.         *)
EXTENDS ReadThrough, TLC

ContractAs(form) == [kind |-> "option", name |-> "SPY", form |-> form, exp |-> None,
                     from |-> None, to |-> None, rest |-> "any"]
ChainOf(e) == [kind |-> "chain", name |-> "SPY", form |-> "upper", exp |-> e,
               from |-> 1, to |-> 2, rest |-> "any"]

Symbols == {"SPY"}
Dates   == 1..2
Rests   == {"any"}
Gateway == ContractAs("gateway")
Osi     == ContractAs("osi")
Whole   == ChainOf(None)
OneDay  == ChainOf(1)
Items   == {Gateway, Osi, Whole, OneDay}
Lists   == {<<Gateway, Osi>>, <<Whole>>, <<OneDay>>}

TtlPerKind == [quote |-> 1, option |-> 1, chain |-> 2]

Symmetry == Permutations(Caller)
=============================================================================
