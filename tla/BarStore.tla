------------------------------ MODULE BarStore ------------------------------
(***************************************************************************)
(* What a request for live bars is promised by a cache that others write   *)
(* and that forgets: its answer holds every bar it asked for that was there *)
(* all along, and only bars that were there at some time, while it ran.    *)
(* For a series without partial answers it may hold nothing instead.  How   *)
(* days are read one by one, coverage, markers, transactions and Schwab are *)
(* not seen here.                                                          *)
(***************************************************************************)
EXTENDS Naturals

CONSTANTS
    Req,        \* requests
    Bar         \* the bars there may be

VARIABLES
    partials,   \* whether this series has partial answers
    stored,     \* the bars in the cache
    phase,      \* of a request: "out", "asking", "answered", "failed"
    want,       \* the bars it asks for
    kept,       \* those that have been cached ever since it came in
    seen,       \* those that have been cached at some time since
    answer      \* its answer

requests == <<phase, want, answer>>
vars     == <<partials, stored, requests, kept, seen>>

Init ==
    /\ partials \in BOOLEAN
    /\ stored = {}
    /\ phase  = [r \in Req |-> "out"]
    /\ want   = [r \in Req |-> {}]
    /\ kept   = [r \in Req |-> {}]
    /\ seen   = [r \in Req |-> {}]
    /\ answer = [r \in Req |-> {}]

Ask(r) ==
    /\ phase[r] = "out"
    /\ phase' = [phase EXCEPT ![r] = "asking"]
    /\ \E W \in SUBSET Bar :
          /\ want' = [want EXCEPT ![r] = W]
          /\ kept' = [kept EXCEPT ![r] = W \cap stored]
          /\ seen' = [seen EXCEPT ![r] = W \cap stored]
    /\ UNCHANGED <<partials, stored, answer>>

\* Bars come and go: merges of requests, other writers, expiry.
Change ==
    /\ stored' \in SUBSET Bar
    /\ kept' = [r \in Req |-> kept[r] \cap stored']
    /\ seen' = [r \in Req |-> seen[r] \cup (want[r] \cap stored')]
    /\ UNCHANGED <<partials, requests>>

Answer(r) ==
    /\ phase[r] = "asking"
    /\ phase' = [phase EXCEPT ![r] = "answered"]
    /\ \E A \in SUBSET seen[r] :
          /\ kept[r] \subseteq A \/ (~partials /\ A = {})
          /\ answer' = [answer EXCEPT ![r] = A]
    /\ UNCHANGED <<partials, stored, want, kept, seen>>

Fail(r) ==
    /\ phase[r] = "asking"
    /\ phase' = [phase EXCEPT ![r] = "failed"]
    /\ UNCHANGED <<partials, stored, want, kept, seen, answer>>

Leave(r) ==
    /\ phase[r] \in {"answered", "failed"}
    /\ phase'  = [phase  EXCEPT ![r] = "out"]
    /\ want'   = [want   EXCEPT ![r] = {}]
    /\ kept'   = [kept   EXCEPT ![r] = {}]
    /\ seen'   = [seen   EXCEPT ![r] = {}]
    /\ answer' = [answer EXCEPT ![r] = {}]
    /\ UNCHANGED <<partials, stored>>

Next == Change \/ \E r \in Req : Ask(r) \/ Answer(r) \/ Fail(r) \/ Leave(r)

Spec == Init /\ [][Next]_vars
=============================================================================
