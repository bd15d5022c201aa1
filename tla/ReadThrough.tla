---------------------------- MODULE ReadThrough -----------------------------
(***************************************************************************)
(* Quotes, option quotes and option chains are read through Redis:         *)
(* DataResolver.get_quote, get_option_quote and get_option_chain over      *)
(* LiveCache, called by api/quotes.py and api/options.py for every item of *)
(* a list in turn.  No lock spans the GET, the call of Schwab and the SET. *)
(*                                                                         *)
(* An item is [kind, name, form, exp, from, to, rest].  form is how the    *)
(* client writes the symbol: "upper", "lower" or, for options, "gateway"   *)
(* (ROOT_YYYYMMDD...), "osi" and "lower" (OSI in lower case).  The dates   *)
(* are None except in chains; rest stands for contract_type, strike_count  *)
(* and include_quotes of a chain, as one.                                  *)
(***************************************************************************)
EXTENDS Integers, Sequences

CONSTANTS
    Caller,    \* requests at the same time
    Symbol, Date, Rest,
    Item,      \* what may be asked for
    Ask,       \* lists of items of one request; a chain comes alone
    None,
    Ttl,       \* quote_ttl_seconds and the other two, by kind
    MaxDelay,  \* the longest time from Schwab's reading of a quote to the SET
    MaxRequests, MaxTime    \* bounds: requests of all callers together, clock

Kinds == {"quote", "option", "chain"}

Forms == {"upper", "lower", "gateway", "osi"}

VARIABLES
    clock,
    cache,    \* Redis: the snapshot under a key, or None
    until,    \* when the key expires
    requests, \* how many came in
    pc,       \* "idle", "get", "call", "set"; "done" and "failed" at the end
    ask,      \* the list of the request
    out,      \* what was appended to the answer so far
    made,     \* the snapshot just made of Schwab's answer
    began,    \* history: when the request came in
    stored,   \* history: when a key was last set, None if Redis lost it
    newest    \* history: the newest time read for a key and answered, or None

vars == <<clock, cache, until, requests, pc, ask, out, made, began, stored, newest>>

\* schwab_option_symbol maps gateway ids to OSI and leaves the rest alone;
\* equities and the symbols of chains are upper-cased.
Canonical(item) ==
    IF item.kind # "option" THEN "upper"
    ELSE IF item.form = "gateway" THEN "osi" ELSE item.form

\* Slips in the key, for mutation runs.
KeyWithoutDates(item) == [item EXCEPT !.form = Canonical(item), !.exp = None, !.from = None, !.to = None]
KeyAsWritten(item) == item

\* quote_key, option_quote_key, option_chain_key: all parameters.
Key(item) == [item EXCEPT !.form = Canonical(item)]

\* What Schwab is asked: upper case; an expiration replaces from and to.
Asked(item) ==
    [kind |-> item.kind, name |-> item.name, rest |-> item.rest,
     from |-> IF item.exp # None THEN item.exp ELSE item.from,
     to   |-> IF item.exp # None THEN item.exp ELSE item.to]

\* A snapshot, with when Schwab read it; of None if it had nothing.
Snap == [of : {None} \cup {Asked(i) : i \in Item}, form : Forms, asof : Nat]

ASSUME ReadAssumption ==
    /\ Item \subseteq [kind : Kinds, name : Symbol, form : Forms, exp : Date \cup {None},
                       from : Date \cup {None}, to : Date \cup {None}, rest : Rest]
    /\ Ask \subseteq Seq(Item) \ {<<>>}
    /\ \A list \in Ask : \A i \in DOMAIN list :
          list[i].kind = list[1].kind /\ (list[i].kind = "chain" => Len(list) = 1)
    /\ Ttl \in [Kinds -> Nat \ {0}]
    /\ MaxDelay \in Nat /\ MaxTime \in Nat /\ MaxRequests \in Nat
    /\ None \notin Nat /\ None \notin Snap

\* The entry of the answer is looked up by the symbol as normalised, in a
\* dict whose keys are in upper case.
Finds(item) == Canonical(item) # "lower"

\* The snapshot made of an answer: of None if Schwab did not know the symbol.
Snapshot(item, known) ==
    [of |-> IF known /\ Finds(item) THEN Asked(item) ELSE None,
     form |-> Canonical(item), asof |-> clock]

Current(c) == ask[c][Len(out[c]) + 1]
CurrentKey(c) == Key(Current(c))

\* Slips in what is set, for mutation runs.
ExpiryNever(c) == MaxTime + 1
KeptIfThere(c) == IF cache[CurrentKey(c)] # None THEN cache[CurrentKey(c)] ELSE made[c]

\* SET ... EX ttl
Expiry(c) == clock + Ttl[Current(c).kind]
Replaced(c) == made[c]

\* The loop over the items; an exception leaves it.
AfterItem(c) == IF Len(out[c]) + 1 = Len(ask[c]) THEN "done" ELSE "get"
AfterError(c) == "failed"

Later(t, u) == IF u = None \/ t > u THEN t ELSE u

-----------------------------------------------------------------------------
Init ==
    /\ clock = 0
    /\ requests = 0
    /\ cache = [k \in {Key(i) : i \in Item} |-> None]
    /\ until = [k \in {Key(i) : i \in Item} |-> 0]
    /\ pc = [c \in Caller |-> "idle"]
    /\ ask = [c \in Caller |-> <<>>]
    /\ out = [c \in Caller |-> <<>>]
    /\ made = [c \in Caller |-> None]
    /\ began = [c \in Caller |-> 0]
    /\ stored = [k \in {Key(i) : i \in Item} |-> None]
    /\ newest = [k \in {Key(i) : i \in Item} |-> None]

\* A request comes in, also after an answer or an error.
Request(c, list) ==
    /\ pc[c] \in {"idle", "done", "failed"}
    /\ requests < MaxRequests
    /\ requests' = requests + 1
    /\ pc' = [pc EXCEPT ![c] = "get"]
    /\ ask' = [ask EXCEPT ![c] = list]
    /\ out' = [out EXCEPT ![c] = <<>>]
    /\ began' = [began EXCEPT ![c] = clock]
    /\ UNCHANGED <<clock, cache, until, made, stored, newest>>

\* The item is answered; the loop goes on to the next, and the list is sent
\* after the last.
Append1(c, snap) ==
    /\ out' = [out EXCEPT ![c] = Append(@, snap)]
    /\ pc' = [pc EXCEPT ![c] = AfterItem(c)]
    /\ newest' = [newest EXCEPT ![CurrentKey(c)] = Later(snap.asof, @)]
    /\ UNCHANGED <<clock, requests, ask, began>>

\* GET finds a snapshot.
Hit(c) ==
    /\ pc[c] = "get"
    /\ cache[CurrentKey(c)] # None
    /\ Append1(c, cache[CurrentKey(c)])
    /\ UNCHANGED <<cache, until, made, stored>>

\* GET finds nothing: Schwab is called, after the rate limiter.
Miss(c) ==
    /\ pc[c] = "get"
    /\ cache[CurrentKey(c)] = None
    /\ pc' = [pc EXCEPT ![c] = "call"]
    /\ UNCHANGED <<clock, cache, until, requests, ask, out, made, began, stored, newest>>

\* Schwab answers, with or without the symbol, from what it reads now.
Quoted(c, known) ==
    /\ pc[c] = "call"
    /\ made' = [made EXCEPT ![c] = Snapshot(Current(c), known)]
    /\ pc' = [pc EXCEPT ![c] = "set"]
    /\ UNCHANGED <<clock, cache, until, requests, ask, out, began, stored, newest>>

\* SET, with the expiry; the item is answered.
Set(c) ==
    LET k == CurrentKey(c) IN
    /\ cache' = [cache EXCEPT ![k] = Replaced(c)]
    /\ until' = [until EXCEPT ![k] = Expiry(c)]
    /\ stored' = [stored EXCEPT ![k] = clock]

Stored(c) ==
    /\ pc[c] = "set"
    /\ Set(c)
    /\ Append1(c, made[c])
    /\ made' = [made EXCEPT ![c] = None]

\* GET, the call of Schwab or SET raises: the whole request answers an
\* error, whatever was appended.  A SET may have been carried out.
Fail(c) ==
    /\ pc[c] \in {"get", "call", "set"}
    /\ pc' = [pc EXCEPT ![c] = AfterError(c)]
    /\ out' = [out EXCEPT ![c] = <<>>]
    /\ made' = [made EXCEPT ![c] = None]
    /\ \/ UNCHANGED <<cache, until, stored>>
       \/ pc[c] = "set" /\ Set(c)
    /\ UNCHANGED <<clock, requests, ask, began, newest>>

Ends(k) == until[k] <= clock + 1

\* Time passes; keys expire.  A snapshot is not held longer than MaxDelay.
Tick ==
    /\ clock < MaxTime
    /\ \A c \in Caller : pc[c] = "set" => clock < made[c].asof + MaxDelay
    /\ clock' = clock + 1
    /\ cache' = [k \in DOMAIN cache |-> IF Ends(k) THEN None ELSE cache[k]]
    /\ until' = [k \in DOMAIN cache |-> IF Ends(k) THEN 0 ELSE until[k]]
    /\ UNCHANGED <<requests, pc, ask, out, made, began, stored, newest>>

\* Redis loses a key: evicted, or restarted without it.
Lose(k) ==
    /\ cache[k] # None
    /\ cache' = [cache EXCEPT ![k] = None]
    /\ until' = [until EXCEPT ![k] = 0]
    /\ stored' = [stored EXCEPT ![k] = None]
    /\ UNCHANGED <<clock, requests, pc, ask, out, made, began, newest>>

Proceed(c) == Hit(c) \/ Miss(c) \/ (\E known \in BOOLEAN : Quoted(c, known)) \/ Stored(c) \/ Fail(c)

Next ==
    \/ \E c \in Caller : Proceed(c) \/ \E list \in Ask : Request(c, list)
    \/ Tick
    \/ \E k \in DOMAIN cache : Lose(k)

Spec == Init /\ [][Next]_vars

-----------------------------------------------------------------------------
TypeOK ==
    /\ clock \in 0..MaxTime /\ requests \in 0..MaxRequests
    /\ cache \in [{Key(i) : i \in Item} -> Snap \cup {None}]
    /\ until \in [{Key(i) : i \in Item} -> Nat]
    /\ pc \in [Caller -> {"idle", "get", "call", "set", "done", "failed"}]
    /\ ask \in [Caller -> Ask \cup {<<>>}]
    /\ \A c \in Caller : Len(out[c]) <= Len(ask[c]) /\ (pc[c] = "done" => Len(out[c]) = Len(ask[c]))
    /\ made \in [Caller -> Snap \cup {None}]
    /\ \A c \in Caller : began[c] \in 0..clock

(* Every item of an answer is about what that item asked for, or empty:      *)
(* a snapshot cached for another expiration, range or contract is not served. *)
AnswersMatch ==
    \A c \in Caller : \A i \in 1..Len(out[c]) :
        out[c][i].of \in {None, Asked(ask[c][i])}

(* What is sent was read from Schwab at most one TTL and one delay before    *)
(* the request came in, however fetches of one key overlap: items of a list  *)
(* grow old only while the request itself waits for the items behind them.   *)
StalenessBounded ==
    \A c \in Caller : \A i \in 1..Len(out[c]) :
        out[c][i].asof + Ttl[ask[c][i].kind] + MaxDelay >= began[c]

(* A slow fetch may overwrite a newer snapshot: answers for a key go back in *)
(* time, but by no more than the delay of that fetch.                       *)
BackwardsBounded ==
    \A k \in DOMAIN cache :
        (cache[k] # None /\ newest[k] # None) => cache[k].asof + MaxDelay >= newest[k]

(* Schwab is called only for keys not set within the last TTL by any request, *)
(* if Redis kept them.                                                      *)
MissMeansExpired ==
    [][\A c \in Caller :
          (pc[c] = "get" /\ pc'[c] = "call") =>
              LET last == stored[[Current(c) EXCEPT !.form = Canonical(Current(c))]]
              IN  last = None \/ clock >= last + Ttl[Current(c).kind]]_vars
=============================================================================
