------------------------------ MODULE EventBus ------------------------------
(***************************************************************************)
(* The event bus of market_gateway and its SSE connections.                *)
(*                                                                         *)
(*   EventBus.publish, stream_from   app/core/event_bus.py                 *)
(*   events_stream                   app/api/events.py                     *)
(*                                                                         *)
(* The bus is one Redis stream; an event is addressed by its position.     *)
(* Each connection runs stream_from: it reads with XREAD, blocking, from   *)
(* its cursor, and the cursor is "$" (the end of the stream at the moment  *)
(* the server handles the call) until a first message has been looked at.  *)
(***************************************************************************)
EXTENDS EventStream

CONSTANTS
    Client,     \* SSE connections; one is reused after a disconnect
    Event,      \* what is published
    Readable,   \* the entries that parse as a GatewayEvent
    Count,      \* COUNT of XREAD (10)
    MaxErrors   \* bound: calls to Redis that raise in one behaviour

ASSUME EventAssumption == Readable \subseteq Event

ASSUME BusAssumption == Count \in Nat \ {0} /\ MaxErrors \in Nat

VARIABLES
    conn,       \* where each connection is
    fresh,      \* current is still "$"
    current,    \* the cursor when it is not "$"
    from,       \* what the cursor of the XREAD under way meant to the server
    last,       \* the last position of the batch in resp
    errors,     \* what MaxErrors counts
    start, got  \* history: the cursor the first batch began at; events yielded

cursor  == <<fresh, current, from, last>>
busHistory == <<start, got>>
conns   == <<conn, cursor, errors, busHistory>>
busVars == <<log, conns>>

\* The number of the message the loop over a batch looks at next.
NextMessage(c) == (IF fresh[c] THEN from[c] ELSE current[c]) + 1

\* Plausible slips in the cursor, for mutation runs.
CursorForgotten(c) == Len(log)
CursorAfterSleepForgotten(c) == TRUE

\* The cursor as the server reads it when the call arrives.
CursorAtServer(c) == IF fresh[c] THEN Len(log) ELSE current[c]

\* The last message of a reply with COUNT.
BatchEnd(c) == IF from[c] + Count <= Len(log) THEN from[c] + Count ELSE Len(log)

\* current = msg_id, before the entry is parsed.
CursorAfter(c, i) == i

\* A good entry is yielded; bad JSON and empty data are passed over.
Yielded(c, i) == IF log[i] \in Readable THEN got[c] \cup {i} ELSE got[c]

\* stream_from goes on after the sleep with the cursor it had.
FreshAfterSleep(c) == fresh[c]

Goto(c, label) == conn' = [conn EXCEPT ![c] = label]

-----------------------------------------------------------------------------
BusInit ==
    /\ log = <<>>
    /\ conn    = [c \in Client |-> "closed"]
    /\ fresh   = [c \in Client |-> TRUE]
    /\ current = [c \in Client |-> 0]
    /\ from    = [c \in Client |-> 0]
    /\ last    = [c \in Client |-> 0]
    /\ errors  = 0
    /\ start   = [c \in Client |-> 0]
    /\ got     = [c \in Client |-> {}]

\* XADD, by any publisher.  One that raises changes nothing here.
Publish ==
    /\ \E e \in Event : log' = Append(log, e)
    /\ UNCHANGED conns

\* GET /events/stream: the starting heartbeat is sent.
Open(c) ==
    /\ conn[c] = "closed"
    /\ Goto(c, "read")
    /\ UNCHANGED <<log, cursor, errors, busHistory>>

\* XREAD arrives at the server.
Read(c) ==
    LET at == CursorAtServer(c) IN
    /\ conn[c] = "read"
    /\ Goto(c, "block")
    /\ from'  = [from  EXCEPT ![c] = at]
    /\ start' = [start EXCEPT ![c] = IF fresh[c] THEN at ELSE @]
    /\ UNCHANGED <<log, fresh, current, last, errors, got>>

\* It answers as soon as there is something behind the cursor ...
Served(c) ==
    /\ conn[c] = "block"
    /\ from[c] < Len(log)
    /\ Goto(c, "batch")
    /\ last' = [last EXCEPT ![c] = BatchEnd(c)]
    /\ UNCHANGED <<log, fresh, current, from, errors, busHistory>>

\* ... or with nothing after xread_block_ms: an idle heartbeat.
Idle(c) ==
    /\ conn[c] = "block"
    /\ from[c] = Len(log)
    /\ Goto(c, "read")
    /\ UNCHANGED <<log, cursor, errors, busHistory>>

\* The call raises, also after the server has answered: stream_error, sleep.
Error(c) ==
    /\ conn[c] \in {"read", "block"}
    /\ errors < MaxErrors
    /\ errors' = errors + 1
    /\ Goto(c, "sleep")
    /\ UNCHANGED <<log, cursor, busHistory>>

WakeUp(c) ==
    /\ conn[c] = "sleep"
    /\ Goto(c, "read")
    /\ fresh' = [fresh EXCEPT ![c] = FreshAfterSleep(c)]
    /\ UNCHANGED <<log, current, from, last, errors, busHistory>>

\* One turn of the loop over the messages of the reply.
Message(c) ==
    LET i == NextMessage(c) IN
    /\ conn[c] = "batch"
    /\ fresh'   = [fresh   EXCEPT ![c] = FALSE]
    /\ current' = [current EXCEPT ![c] = CursorAfter(c, i)]
    /\ got'     = [got     EXCEPT ![c] = Yielded(c, i)]
    /\ Goto(c, IF i = last[c] THEN "read" ELSE "batch")
    /\ UNCHANGED <<log, from, last, errors, start>>

\* The client disconnects: the generator is cancelled where it stands.
Disconnect(c) ==
    /\ conn[c] # "closed"
    /\ Goto(c, "closed")
    /\ fresh'   = [fresh   EXCEPT ![c] = TRUE]
    /\ current' = [current EXCEPT ![c] = 0]
    /\ from'    = [from    EXCEPT ![c] = 0]
    /\ last'    = [last    EXCEPT ![c] = 0]
    /\ start'   = [start   EXCEPT ![c] = 0]
    /\ got'     = [got     EXCEPT ![c] = {}]
    /\ UNCHANGED <<log, errors>>

-----------------------------------------------------------------------------
\* What a connection does by itself: asyncio runs every ready generator and
\* Redis answers.
Proceed(c) == Read(c) \/ Served(c) \/ WakeUp(c) \/ Message(c)

Stream(c) == Open(c) \/ Proceed(c) \/ Idle(c) \/ Error(c) \/ Disconnect(c)

BusNext == Publish \/ \E c \in Client : Stream(c)

BusSpec == BusInit /\ [][BusNext]_busVars

-----------------------------------------------------------------------------
BusTypeOK ==
    /\ log \in Seq(Event)
    /\ conn \in [Client -> {"closed", "read", "block", "sleep", "batch"}]
    /\ fresh \in [Client -> BOOLEAN]
    /\ current \in [Client -> 0..Len(log)]
    /\ from \in [Client -> 0..Len(log)]
    /\ last \in [Client -> 0..Len(log)]
    /\ errors \in 0..MaxErrors
    /\ start \in [Client -> 0..Len(log)]
    /\ got \in [Client -> SUBSET Nat]

(* From the first message on, a connection has yielded exactly the good    *)
(* events between the place its first batch began and its cursor: none     *)
(* missed and none twice, whatever errors, idle reads and bad entries came *)
(* between (stream_from never goes back to "$" once it has a cursor).      *)
NothingMissed ==
    \A c \in Client : ~fresh[c] =>
        got[c] = {i \in start[c] + 1 .. current[c] : log[i] \in Readable}

-----------------------------------------------------------------------------
(* The promise of EventFeed, and the mapping to its state                  *)

Following(c) == ~fresh[c] \/ conn[c] \in {"block", "batch"}

seatBar  == [c \in Client |-> IF conn[c] = "closed" THEN "out"
                              ELSE IF Following(c) THEN "following" ELSE "waiting"]
startBar == [c \in Client |-> IF Following(c) THEN start[c] ELSE 0]
posBar   == [c \in Client |-> IF ~fresh[c] THEN current[c]
                              ELSE IF Following(c) THEN from[c] ELSE 0]

Feed == INSTANCE EventFeed WITH seat <- seatBar, start <- startBar,
                                pos <- posBar, got <- got

(* stream_from implements EventFeed: a client's events are a contiguous    *)
(* part of the stream, which may begin late and then has no hole.          *)
ImplementsFeed == Feed!Spec

\* What makes NothingMissed inductive: where the cursors are.
CursorsInLog ==
    \A c \in Client :
        /\ fresh[c] => got[c] = {}
        /\ ~fresh[c] => start[c] <= current[c] /\ current[c] <= Len(log)
        /\ conn[c] = "closed" => fresh[c] /\ start[c] = 0
        /\ conn[c] \in {"block", "batch"} => from[c] <= Len(log)
        /\ (conn[c] \in {"block", "batch"} /\ fresh[c]) => from[c] = start[c]
        /\ (conn[c] = "block" /\ ~fresh[c]) => from[c] = current[c]
        /\ conn[c] = "batch" => NextMessage(c) <= last[c] /\ last[c] <= Len(log)

BusInv == BusTypeOK /\ CursorsInLog /\ NothingMissed
=============================================================================
