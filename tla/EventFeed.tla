----------------------------- MODULE EventFeed ------------------------------
(***************************************************************************)
(* What a client of /events/stream is promised: once its feed has begun,   *)
(* it gets the events of the log one after the other, none left out and    *)
(* none twice, until it leaves.  Before the first event reaches it the     *)
(* feed may lapse and begin again later in the log.  Events that cannot be *)
(* read back are passed over.                                              *)
(***************************************************************************)
EXTENDS Integers, Sequences

CONSTANTS
    Client,     \* SSE connections
    Event,      \* what is published
    Readable    \* the events that parse as a GatewayEvent

VARIABLES
    log,        \* the events published so far
    seat,       \* of a client: "out", "waiting" for its feed, "following" it
    start,      \* the length of the log when its feed began
    pos,        \* the last event its feed has passed
    got         \* the positions of the events it has received

feed == <<seat, start, pos, got>>
vars == <<log, feed>>

Init ==
    /\ log = <<>>
    /\ seat  = [c \in Client |-> "out"]
    /\ start = [c \in Client |-> 0]
    /\ pos   = [c \in Client |-> 0]
    /\ got   = [c \in Client |-> {}]

Publish == /\ \E e \in Event : log' = Append(log, e)
           /\ UNCHANGED feed

Join(c) == /\ seat[c] = "out"
           /\ seat' = [seat EXCEPT ![c] = "waiting"]
           /\ UNCHANGED <<log, start, pos, got>>

Begin(c) == /\ seat[c] = "waiting"
            /\ seat'  = [seat  EXCEPT ![c] = "following"]
            /\ start' = [start EXCEPT ![c] = Len(log)]
            /\ pos'   = [pos   EXCEPT ![c] = Len(log)]
            /\ UNCHANGED <<log, got>>

\* Nothing of the feed has been passed yet.
Lapse(c) == /\ seat[c] = "following"
            /\ pos[c] = start[c]
            /\ seat'  = [seat  EXCEPT ![c] = "waiting"]
            /\ start' = [start EXCEPT ![c] = 0]
            /\ pos'   = [pos   EXCEPT ![c] = 0]
            /\ UNCHANGED <<log, got>>

Deliver(c) ==
    LET i == pos[c] + 1 IN
    /\ seat[c] = "following"
    /\ i <= Len(log)
    /\ pos' = [pos EXCEPT ![c] = i]
    /\ got' = [got EXCEPT ![c] = IF log[i] \in Readable THEN @ \cup {i} ELSE @]
    /\ UNCHANGED <<log, seat, start>>

Leave(c) == /\ seat[c] # "out"
            /\ seat'  = [seat  EXCEPT ![c] = "out"]
            /\ start' = [start EXCEPT ![c] = 0]
            /\ pos'   = [pos   EXCEPT ![c] = 0]
            /\ got'   = [got   EXCEPT ![c] = {}]
            /\ UNCHANGED log

Next == \/ Publish
        \/ \E c \in Client : Join(c) \/ Begin(c) \/ Lapse(c) \/ Deliver(c) \/ Leave(c)

Spec == Init /\ [][Next]_vars
=============================================================================
