---------------------------- MODULE MCBarStitch ----------------------------
(* Values for TLC: two or three days of two hours of two instants each.     *)
EXTENDS BarStitch, TLC

Env(p, l, lab, o, tf) ==
    [postgres |-> p, live |-> l, label |-> lab, option |-> o, tf |-> tf]
Clients == {<<TRUE, "live_schwab">>, <<TRUE, "sample">>, <<FALSE, "sample">>}
MCEnvs == {Env(p, c[1], c[2], o, tf) : p \in BOOLEAN, c \in Clients,
                                       o \in BOOLEAN, tf \in {"1m", "1d", "5m"}}
Stub1m == {Env(TRUE, FALSE, "sample", FALSE, "1m")}

Win(a, b) == [s |-> a, e |-> b]
\* Whole days, parts of days, one instant, and a window that ends before it
\* starts.
MCWindows == {Win(0, 11), Win(1, 6), Win(4, 8), Win(5, 5), Win(7, 3)}
=============================================================================
