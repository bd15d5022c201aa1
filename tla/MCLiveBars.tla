----------------------------- MODULE MCLiveBars -----------------------------
(* Values for TLC.  Days have two or three instants; the last instant of a  *)
(* day stands for the end of the day, at which no candle is stamped.        *)
EXTENDS LiveBars, TLC

CONSTANT DayLength

MCDayOf == [t \in Times |-> t \div DayLength]

Win(a, b) == [s |-> a, e |-> b]
TwoDays == {Win(1, 3)}
Straddling == {Win(1, 2)}
Covering == {Win(0, 1)}
\* Windows that end before they start: on an earlier day, or on the same one.
BackToFront == {Win(3, 1)}
BackInADay  == {Win(1, 0)}
OneAndTwoDays == TwoDays \cup Covering \cup BackToFront \cup BackInADay
NoWindows == {}

Env(l, o, tf, lab) == [live |-> l, option |-> o, tf |-> tf, label |-> lab]
Equity1m == {Env(TRUE, FALSE, "1m", "live_schwab")}
Equity   == {Env(TRUE, FALSE, tf, lab) : tf \in {"1m", "1d"},
                                         lab \in {"live_schwab", "sample"}}
AllEnvs  == {Env(TRUE, o, tf, "live_schwab") : o \in BOOLEAN, tf \in {"1m", "5m"}}
            \cup {Env(FALSE, o, "1m", "sample") : o \in BOOLEAN}
            \cup Equity

Symmetry == Permutations(Req)
=============================================================================
