------------------------------ MODULE BarReads ------------------------------
(***************************************************************************)
(* LiveBars with two more histories of a request: the bars it may have seen, *)
(* for the refinement of BarStore, and the days that were never covered.   *)
(***************************************************************************)
EXTENDS LiveBars

VARIABLES
    seen,       \* history: bars of a request's window cached since it came in
    bare        \* history: days of its window never covered since it came in

\* The bars of window w in blobs b.
Cached(w, b) == {t \in InWindow(w) : t \in b[DayOf[t]]}

Span(w) == DayOf[w.s]..DayOf[w.e]

ReadInit == Init /\ seen = [r \in Req |-> {}] /\ bare = [r \in Req |-> {}]

StillBare(r) ==
    {d \in IF pc[r] = "idle" THEN Span(win'[r]) ELSE bare[r] :
        ~DayCovered(env.tf, blob', win'[r], d)}

Look ==
    /\ seen' = [r \in Req |-> IF pc'[r] = "idle" THEN {}
                             ELSE seen[r] \cup Cached(win'[r], blob')]
    /\ bare' = [r \in Req |-> IF pc'[r] = "idle" THEN {} ELSE StillBare(r)]

ReadNext == Next /\ Look

readVars == <<vars, seen, bare>>

ReadSpec == ReadInit /\ [][ReadNext]_readVars

-----------------------------------------------------------------------------
(* A request for equity bars that is answered without having asked Schwab   *)
(* has met its active marker, or every day of its window was covered at     *)
(* some moment while it ran: days are read and then checked one by one, and *)
(* others merge, overwrite and let expire in between (get_live_bars and     *)
(* live_bars_window_covered look at different blobs).                       *)
UncoveredIsBackfilled ==
    [][\A r \in Req :
          (/\ pc[r] \notin Backfilling \cup {"done"} /\ pc'[r] = "done"
           /\ env.live /\ ~NoBackfillSeries
           /\ win[r] \notin marked) => bare[r] = {}]_readVars

\* What makes it so: the days behind the loop of checks are not bare.
BareAhead ==
    \A r \in Req : pc[r] # "idle" =>
        /\ \A d \in bare[r] : d \in Span(win[r]) /\ ~DayCovered(env.tf, blob, win[r], d)
        /\ pc[r] = "cover" => \A d \in bare[r] : day[r] <= d

-----------------------------------------------------------------------------
\* The mapping to the state of BarStore.
Phase(label) == IF label = "idle" THEN "out"
                ELSE IF label = "done" THEN "answered"
                ELSE IF label = "failed" THEN "failed" ELSE "asking"

phaseBar  == [r \in Req |-> Phase(pc[r])]
wantBar   == [r \in Req |-> IF pc[r] = "idle" THEN {} ELSE InWindow(win[r])]
storedBar == UNION {blob[d] : d \in Days}

Promise == INSTANCE BarStore WITH
    Bar <- Times, partials <- ~env.live \/ ~NoBackfillSeries,
    stored <- storedBar, phase <- phaseBar, want <- wantBar

(* A request reads one day after the other, may merge what Schwab sends in  *)
(* between and reads again, while other requests merge, writers overwrite   *)
(* and days expire: its answer still is one that a single look at the       *)
(* cache, with some of the passing changes, could give.                    *)
ImplementsStore == Promise!Spec

\* What makes it so: lists and answers only hold bars that were cached.
SeenBy(r) ==
    /\ pc[r] = "idle" => seen[r] = {} /\ kept[r] = {} /\ answer[r] = {}
    /\ pc[r] # "idle" => Cached(win[r], blob) \subseteq seen[r]
    /\ live[r] \cup out[r] \cup answer[r] \subseteq seen[r]

ListsSeen == seen \in [Req -> SUBSET Times] /\ \A r \in Req : SeenBy(r)
=============================================================================
