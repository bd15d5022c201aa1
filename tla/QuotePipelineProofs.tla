-------------------------- MODULE QuotePipelineProofs --------------------------
(***************************************************************************)
(* Proofs about the way of a quote from Schwab to the SSE clients, for      *)
(* every number of connections, every COUNT of XREAD, every bound.         *)
(*                                                                         *)
(*  - EventBus: types, NothingMissed, and that stream_from implements      *)
(*    EventFeed, whoever publishes.                                        *)
(*  - QuotePipeline: its steps are steps of PublishQueue and of EventBus,  *)
(*    and what a client misses between two quotes.                         *)
(***************************************************************************)
EXTENDS QuotePipeline, PublishQueueProofs

USE EventAssumption, BusAssumption DEF EventAssumption, BusAssumption

-----------------------------------------------------------------------------
(* EventBus                                                                *)

\* A published event stays where it is: positions of the log are for ever.
LEMMA AppendKeeps ==
    ASSUME NEW S, NEW s \in Seq(S), NEW e \in S
    PROVE  /\ Append(s, e) \in Seq(S)
           /\ Len(Append(s, e)) = Len(s) + 1
           /\ \A i \in 1..Len(s) : Append(s, e)[i] = s[i]
    OBVIOUS

\* All actions but Publish keep the log.
LEMMA LogKept ==
    ASSUME NEW c \in Client, Stream(c)
    PROVE  log' = log
    BY DEF Stream, Proceed, Open, Read, Served, Idle, Error, WakeUp, Message,
           Disconnect

LEMMA BusInitInv == BusInit => BusInv
    BY DEF BusInit, BusInv, BusTypeOK, CursorsInLog, NothingMissed

LEMMA PublishInv == BusInv /\ Publish => BusInv'
<1> SUFFICES ASSUME BusInv, Publish PROVE BusInv' OBVIOUS
<1>1. PICK e \in Event : log' = Append(log, e) BY DEF Publish
<1>2. /\ log' \in Seq(Event) /\ Len(log') = Len(log) + 1
      /\ \A i \in 1..Len(log) : log'[i] = log[i]
  BY <1>1, AppendKeeps DEF BusInv, BusTypeOK
<1>3. UNCHANGED conns /\ UNCHANGED <<conn, fresh, current, from, last, errors, start, got>>
  BY DEF Publish, conns, cursor, busHistory
<1>4. BusTypeOK' BY <1>2, <1>3 DEF BusInv, BusTypeOK, Publish
<1>5. CursorsInLog'
  BY <1>2, <1>3 DEF BusInv, BusTypeOK, CursorsInLog, NextMessage
<1>6. NothingMissed'
  <2> SUFFICES ASSUME NEW c \in Client, ~fresh[c]
               PROVE  got[c] = {i \in start[c] + 1 .. current[c] : log'[i] \in Readable}
    BY <1>3 DEF NothingMissed
  <2>1. got[c] = {i \in start[c] + 1 .. current[c] : log[i] \in Readable}
    BY DEF BusInv, NothingMissed
  <2>2. \A i \in start[c] + 1 .. current[c] : i \in 1..Len(log)
    BY DEF BusInv, BusTypeOK, CursorsInLog
  <2> QED BY <1>2, <2>1, <2>2
<1> QED BY <1>4, <1>5, <1>6 DEF BusInv

LEMMA StreamInv ==
    ASSUME BusInv, NEW c \in Client, Stream(c)
    PROVE  BusInv'
<1> USE DEF BusInv, BusTypeOK, CursorsInLog, NothingMissed, Goto, cursor, busHistory, NextMessage
<1>1. CASE Open(c) BY <1>1 DEF Open
<1>2. CASE Read(c)
  <2>1. CursorAtServer(c) \in 0..Len(log) BY DEF CursorAtServer
  <2>2. BusTypeOK' BY <1>2, <2>1 DEF Read
  <2>3. CursorsInLog' BY <1>2, <2>1 DEF Read, CursorAtServer
  <2>4. NothingMissed' BY <1>2 DEF Read
  <2> QED BY <2>2, <2>3, <2>4
<1>3. CASE Served(c)
  <2>1. BatchEnd(c) \in from[c] + 1 .. Len(log) BY <1>3 DEF Served, BatchEnd
  <2>2. BusTypeOK' BY <1>3, <2>1 DEF Served
  <2>3. CursorsInLog' BY <1>3, <2>1 DEF Served
  <2>4. NothingMissed' BY <1>3 DEF Served
  <2> QED BY <2>2, <2>3, <2>4
<1>4. CASE Idle(c) BY <1>4 DEF Idle
<1>5. CASE Error(c) BY <1>5 DEF Error
<1>6. CASE WakeUp(c) BY <1>6 DEF WakeUp, FreshAfterSleep
<1>7. CASE Message(c)
  <2> DEFINE i == NextMessage(c)
  <2>1. /\ i \in 1..Len(log) /\ i <= last[c] /\ i = (IF fresh[c] THEN from[c] ELSE current[c]) + 1
        /\ conn[c] = "batch"
    BY <1>7 DEF Message
  <2>2. /\ log' = log /\ from' = from /\ last' = last /\ errors' = errors /\ start' = start
        /\ fresh' = [fresh EXCEPT ![c] = FALSE]
        /\ current' = [current EXCEPT ![c] = i]
        /\ got' = [got EXCEPT ![c] = IF log[i] \in Readable THEN got[c] \cup {i} ELSE got[c]]
        /\ conn' = [conn EXCEPT ![c] = IF i = last[c] THEN "read" ELSE "batch"]
    BY <1>7 DEF Message, CursorAfter, Yielded
  <2> HIDE DEF i, NextMessage
  <2>3. BusTypeOK' BY <2>1, <2>2
  <2>4. start[c] <= i - 1 BY <2>1
  <2>5. CursorsInLog' BY <2>1, <2>2, <2>4 DEF NextMessage
  <2>6. got[c] = {j \in start[c] + 1 .. i - 1 : log[j] \in Readable}
    <3>1. CASE fresh[c] BY <2>1, <3>1
    <3>2. CASE ~fresh[c] BY <2>1, <3>2
    <3> QED BY <3>1, <3>2
  <2>7. got'[c] = {j \in start[c] + 1 .. i : log[j] \in Readable}
    BY <2>1, <2>2, <2>4, <2>6
  <2>8. NothingMissed'
    <3> SUFFICES ASSUME NEW d \in Client, ~fresh'[d]
                 PROVE  got'[d] = {j \in start[d] + 1 .. current'[d] : log[j] \in Readable}
      BY <2>2
    <3>1. CASE d = c BY <2>2, <2>7, <3>1
    <3>2. CASE d # c BY <2>2, <3>2
    <3> QED BY <3>1, <3>2
  <2> QED BY <2>3, <2>5, <2>8
<1>8. CASE Disconnect(c) BY <1>8 DEF Disconnect
<1> QED BY <1>1, <1>2, <1>3, <1>4, <1>5, <1>6, <1>7, <1>8 DEF Stream, Proceed

LEMMA BusNextInv == BusInv /\ [BusNext]_busVars => BusInv'
<1> SUFFICES ASSUME BusInv, [BusNext]_busVars PROVE BusInv' OBVIOUS
<1>1. CASE Publish BY <1>1, PublishInv
<1>2. CASE \E c \in Client : Stream(c) BY <1>2, StreamInv
<1>3. CASE UNCHANGED busVars
  BY <1>3 DEF busVars, conns, cursor, busHistory, BusInv, BusTypeOK, CursorsInLog, NothingMissed,
              NextMessage
<1> QED BY <1>1, <1>2, <1>3 DEF BusNext

LEMMA BusInvariance == BusSpec => []BusInv
    BY BusInitInv, BusNextInv, PTL DEF BusSpec

(* The variables of the bus and of every connection keep their types.      *)
THEOREM BusTypeCorrect == BusSpec => []BusTypeOK
<1>1. BusInv => BusTypeOK BY DEF BusInv
<1> QED BY <1>1, BusInvariance, PTL

(* A connection yields exactly the good events from where its first batch  *)
(* began to its cursor (stream_from, event_bus.py).                        *)
THEOREM NothingIsMissed == BusSpec => []NothingMissed
<1>1. BusInv => NothingMissed BY DEF BusInv
<1> QED BY <1>1, BusInvariance, PTL

-----------------------------------------------------------------------------
(* The refinement, step by step                                            *)

LEMMA FeedInit == BusInit => Feed!Init
    BY DEF BusInit, Feed!Init, seatBar, startBar, posBar, Following

USE DEF Goto, cursor, busHistory, Following, seatBar, startBar, posBar

\* XREAD with "$" begins the feed at the end of the log, with a cursor goes on.
LEMMA ReadStep ==
    ASSUME BusInv, NEW c \in Client, Read(c)
    PROVE  Feed!Begin(c) \/ UNCHANGED Feed!vars
<1> USE DEF BusInv, BusTypeOK, CursorsInLog, Read, CursorAtServer
<1>1. CASE fresh[c]
  <2>1. seatBar[c] = "waiting" BY <1>1
  <2>2. seatBar' = [seatBar EXCEPT ![c] = "following"] BY <1>1
  <2>3. startBar' = [startBar EXCEPT ![c] = Len(log)] BY <1>1
  <2>4. posBar' = [posBar EXCEPT ![c] = Len(log)] BY <1>1
  <2> QED BY <2>1, <2>2, <2>3, <2>4 DEF Feed!Begin
<1>2. CASE ~fresh[c]
  BY <1>2 DEF Feed!vars, Feed!feed
<1> QED BY <1>1, <1>2

\* A call that answers nothing or raises, before the first message: "$" again.
LEMMA LapseStep ==
    ASSUME BusInv, NEW c \in Client, Idle(c) \/ Error(c)
    PROVE  Feed!Lapse(c) \/ UNCHANGED Feed!vars
<1> USE DEF BusInv, BusTypeOK, CursorsInLog, Idle, Error
<1>1. CASE fresh[c] /\ conn[c] = "block"
  <2>1. seatBar[c] = "following" /\ posBar[c] = startBar[c] BY <1>1
  <2>2. seatBar' = [seatBar EXCEPT ![c] = "waiting"] BY <1>1
  <2>3. startBar' = [startBar EXCEPT ![c] = 0] BY <1>1
  <2>4. posBar' = [posBar EXCEPT ![c] = 0] BY <1>1
  <2> QED BY <2>1, <2>2, <2>3, <2>4 DEF Feed!Lapse
<1>2. CASE ~(fresh[c] /\ conn[c] = "block")
  BY <1>2 DEF Feed!vars, Feed!feed
<1> QED BY <1>1, <1>2

LEMMA MessageStep ==
    ASSUME BusInv, NEW c \in Client, Message(c)
    PROVE  Feed!Deliver(c)
<1> USE DEF BusInv, BusTypeOK, CursorsInLog, NextMessage
<1> DEFINE i == NextMessage(c)
<1>1. posBar[c] + 1 = i /\ seatBar[c] = "following" /\ i <= Len(log)
  BY DEF Message
<1>2. /\ log' = log
      /\ got' = [got EXCEPT ![c] = IF log[i] \in Readable THEN got[c] \cup {i} ELSE got[c]]
  BY DEF Message, Yielded
<1>3. posBar' = [posBar EXCEPT ![c] = i] BY DEF Message, CursorAfter
<1>4. seatBar' = seatBar BY DEF Message
<1>5. startBar' = startBar BY DEF Message
<1> HIDE DEF i, posBar, seatBar, startBar
<1>6. got' = [got EXCEPT ![c] = IF log[i] \in Readable THEN @ \cup {i} ELSE @]
  BY <1>2
<1> QED BY <1>1, <1>2, <1>3, <1>4, <1>5, <1>6 DEF Feed!Deliver

LEMMA OpenStep ==
    ASSUME BusInv, NEW c \in Client, Open(c)
    PROVE  Feed!Join(c)
<1> USE DEF BusInv, BusTypeOK, CursorsInLog, Open
<1>1. seatBar[c] = "out" OBVIOUS
<1>2. seatBar' = [seatBar EXCEPT ![c] = "waiting"] OBVIOUS
<1>3. startBar' = startBar OBVIOUS
<1>4. posBar' = posBar OBVIOUS
<1> QED BY <1>1, <1>2, <1>3, <1>4 DEF Feed!Join

LEMMA DisconnectStep ==
    ASSUME BusInv, NEW c \in Client, Disconnect(c)
    PROVE  Feed!Leave(c)
<1> USE DEF BusInv, BusTypeOK, CursorsInLog, Disconnect
<1>1. seatBar[c] # "out" OBVIOUS
<1>2. seatBar' = [seatBar EXCEPT ![c] = "out"] OBVIOUS
<1>3. startBar' = [startBar EXCEPT ![c] = 0] OBVIOUS
<1>4. posBar' = [posBar EXCEPT ![c] = 0] OBVIOUS
<1> QED BY <1>1, <1>2, <1>3, <1>4 DEF Feed!Leave

LEMMA FeedStep == BusInv /\ [BusNext]_busVars => [Feed!Next]_Feed!vars
<1> SUFFICES ASSUME BusInv, [BusNext]_busVars PROVE Feed!Next \/ UNCHANGED Feed!vars
  OBVIOUS
<1>1. CASE Publish
  BY <1>1 DEF Publish, conns, Feed!Next, Feed!Publish, Feed!feed
<1>2. ASSUME NEW c \in Client, Stream(c) PROVE Feed!Next \/ UNCHANGED Feed!vars
  <2>1. CASE Open(c) BY <2>1, OpenStep DEF Feed!Next
  <2>2. CASE Read(c) BY <2>2, ReadStep DEF Feed!Next
  <2>3. CASE Served(c) \/ WakeUp(c)
    BY <2>3 DEF BusInv, BusTypeOK, CursorsInLog, Served, WakeUp, FreshAfterSleep, Feed!vars, Feed!feed
  <2>4. CASE Idle(c) \/ Error(c) BY <2>4, LapseStep DEF Feed!Next
  <2>5. CASE Message(c) BY <2>5, MessageStep DEF Feed!Next
  <2>6. CASE Disconnect(c) BY <2>6, DisconnectStep DEF Feed!Next
  <2> QED BY <1>2, <2>1, <2>2, <2>3, <2>4, <2>5, <2>6 DEF Stream, Proceed
<1>3. CASE UNCHANGED busVars
  BY <1>3 DEF busVars, conns, Feed!vars, Feed!feed
<1> QED BY <1>1, <1>2, <1>3 DEF BusNext

(* stream_from implements EventFeed: what a client is sent is one gapless  *)
(* part of the stream, whichever calls fail and however the reads fall.    *)
THEOREM FeedImplemented == BusSpec => ImplementsFeed
<1>1. BusInit => Feed!Init BY FeedInit
<1>2. BusInv /\ [BusNext]_busVars => [Feed!Next]_Feed!vars BY FeedStep
<1> QED BY <1>1, <1>2, BusInvariance, PTL DEF BusSpec, ImplementsFeed, Feed!Spec

-----------------------------------------------------------------------------
(* QuotePipeline: the queue and the bus share nothing but the stream.      *)

\* Where a frame is, by what became of it so far.
FatesPlaced ==
    \A n \in 1..Len(frames) :
        /\ fate[n] = "taken" => held = n
        /\ fate[n] = "queued" => n > Len(frames) - Len(queue)
        /\ pc = "down" => fate[n] \notin {"queued", "taken"}

LogIsQuotes == log \in Seq(QuoteEvent)

PipelineInv == IInv /\ FatesPlaced /\ LogIsQuotes

\* What the worker puts on the stream.
LEMMA EntryIsQuote ==
    ASSUME IInv, Apply
    PROVE  [n |-> held, r |-> row] \in QuoteEvent
<1>1. /\ held \in 1..Len(frames) /\ Len(frames) <= MaxFrames /\ Len(frames) \in Nat
      /\ frames \in Seq(Frame) /\ row \in 1..Len(frames[held])
  <2>1. sent /\ TypeOK /\ WorkerInPlace BY DEF Apply, IInv
  <2>2. held # 0 /\ held \in 0..Len(frames) /\ Len(frames) \in Nat BY <2>1 DEF TypeOK, WorkerInPlace
  <2>3. held \in 1..Len(frames) BY <2>2
  <2>4. Len(frames[held]) \in Nat BY <2>1, <2>3, FrameRows
  <2>5. row \in 1..Len(frames[held]) + 1 /\ row <= Len(frames[held])
    BY <2>1, <2>3 DEF WorkerInPlace
  <2>6. row \in 1..Len(frames[held]) BY <2>4, <2>5
  <2> QED BY <2>1, <2>2, <2>3, <2>6 DEF TypeOK
<1>2. held \in 1..MaxFrames BY <1>1, QueueAssumption DEF QueueAssumption
<1>3. frames[held] \in Frame /\ frames[held] \in Seq(RowKind)
  BY <1>1, QueueAssumption DEF QueueAssumption
<1>4. row \in DOMAIN frames[held] BY <1>1, <1>3
<1>5. row \in UNION {DOMAIN f : f \in Frame} BY <1>3, <1>4
<1> QED BY <1>2, <1>5 DEF QuoteEvent

\* Only Apply writes the stream.
LEMMA QueueLog ==
    ASSUME IInv, [Next]_vars
    PROVE  log' = log \/ \E e \in QuoteEvent : log' = Append(log, e)
<1>1. CASE Apply BY <1>1, EntryIsQuote DEF Apply
<1>2. CASE ~ Apply
  BY <1>2 DEF Next, Worker, Handle, Take, PassRow, SendRow, EndFrame, Published, PublishFails,
              EndSession, JoinWorker, NewSession, vars
<1> QED BY <1>1, <1>2

LEMMA NextLogIsQuotes ==
    ASSUME PipelineInv, [Next]_vars
    PROVE  LogIsQuotes'
<1>1. log' = log \/ \E e \in QuoteEvent : log' = Append(log, e) BY QueueLog DEF PipelineInv
<1>2. log \in Seq(QuoteEvent) BY DEF PipelineInv, LogIsQuotes
<1> QED BY <1>1, <1>2, AppendKeeps DEF LogIsQuotes

LEMMA HandlePlaces ==
    ASSUME IInv, FatesPlaced, Handle
    PROVE  FatesPlaced'
<1> DEFINE new  == Len(frames) + 1
           kept == MakeRoom(queue)
           dropped == {queue[i] : i \in 1..Len(queue)} \ {kept[i] : i \in 1..Len(kept)}
<1>1. /\ Len(frames) \in Nat /\ Len(queue) \in Nat /\ queue \in Seq(Nat \ {0})
      /\ frames \in Seq(Frame)
      /\ \A i \in 1..Len(queue) : queue[i] = Len(frames) - Len(queue) + i
  BY DEF IInv, TypeOK, QueueIsNewest
<1>2. /\ kept \in Seq(Nat \ {0}) /\ Len(kept) \in Nat /\ Len(kept) <= Len(queue)
      /\ \A j \in 1..Len(queue) : j > Len(queue) - Len(kept) => \E i \in 1..Len(kept) : kept[i] = queue[j]
      /\ Len(kept) < Len(queue) => Len(kept) = Len(queue) - 1 /\ queue # <<>>
  <2>1. CASE Len(queue) = QueueMax
    <3>1. queue # <<>> BY <1>1, <2>1, QueueAssumption DEF QueueAssumption
    <3>2. kept = Tail(queue) BY <2>1 DEF MakeRoom
    <3>3. /\ Tail(queue) \in Seq(Nat \ {0}) /\ Len(Tail(queue)) = Len(queue) - 1
          /\ \A i \in 1..Len(Tail(queue)) : Tail(queue)[i] = queue[i + 1]
      BY <1>1, <3>1, TailFacts
    <3> HIDE DEF kept
    <3>4. ASSUME NEW j \in 1..Len(queue), j > Len(queue) - Len(kept)
          PROVE  \E i \in 1..Len(kept) : kept[i] = queue[j]
      <4>1. j - 1 \in 1..Len(kept) /\ (j - 1) + 1 = j BY <1>1, <3>2, <3>3, <3>4
      <4> QED BY <4>1, <3>2, <3>3
    <3> QED BY <1>1, <3>1, <3>2, <3>3, <3>4
  <2>2. CASE Len(queue) # QueueMax
    <3>1. kept = queue BY <2>2 DEF MakeRoom
    <3> HIDE DEF kept
    <3> QED BY <1>1, <3>1
  <2> QED BY <2>1, <2>2
<1>3. \E f \in Frame : frames' = Append(frames, f) BY DEF Handle
<1>4. Len(frames') = new BY <1>1, <1>3
<1>5. /\ queue' = Append(kept, new) /\ held' = held /\ pc' = "up"
      /\ fate' = [n \in 1..new |-> IF n = new THEN "queued"
                                   ELSE IF n \in dropped THEN "dropped" ELSE fate[n]]
  BY DEF Handle, Entered, worker
<1> HIDE DEF kept
<1>6. Len(queue') = Len(kept) + 1
  <2>1. new \in Nat \ {0} BY <1>1
  <2> QED BY <2>1, <1>2, <1>5, AppendFacts
<1> SUFFICES ASSUME NEW n \in 1..new
             PROVE  /\ fate'[n] = "taken" => held' = n
                    /\ fate'[n] = "queued" => n > new - Len(queue')
                    /\ pc' # "down"
  BY <1>4, <1>5 DEF FatesPlaced
<1>7. CASE n = new BY <1>1, <1>2, <1>5, <1>6, <1>7
<1>8. CASE n # new
  <2>1. n \in 1..Len(frames) BY <1>1, <1>8
  <2>2. fate'[n] = IF n \in dropped THEN "dropped" ELSE fate[n] BY <1>5, <1>8
  <2>3. fate'[n] = "taken" => held' = n BY <2>1, <2>2, <1>5 DEF FatesPlaced
  <2>4. ASSUME fate'[n] = "queued" PROVE n > new - Len(queue')
    <3>1. n \notin dropped /\ fate[n] = "queued" BY <2>2, <2>4
    <3>2. n > Len(frames) - Len(queue) BY <2>1, <3>1 DEF FatesPlaced
    <3> DEFINE j == n - (Len(frames) - Len(queue))
    <3>3. j \in 1..Len(queue) BY <1>1, <2>1, <3>2
    <3>4. queue[j] = n
      <4>1. queue[j] = Len(frames) - Len(queue) + j BY <1>1, <3>3
      <4>2. Len(frames) - Len(queue) + j = n
        <5>1. Len(frames) \in Int /\ Len(queue) \in Int /\ n \in Int BY <1>1, <2>1
        <5> QED BY <5>1
      <4> HIDE DEF j
      <4> QED BY <4>1, <4>2
    <3>5. \E i \in 1..Len(kept) : kept[i] = n BY <3>1, <3>3, <3>4
    <3>6. ASSUME Len(kept) < Len(queue), n = Len(frames) - Len(queue) + 1 PROVE FALSE
      <4>1. Len(kept) = Len(queue) - 1 /\ queue # <<>> BY <1>2, <3>6
      <4>2. Len(queue) = QueueMax BY <4>1, <1>1 DEF kept, MakeRoom
      <4>3. kept = Tail(queue) BY <4>2 DEF kept, MakeRoom
      <4>4. PICK i \in 1..Len(kept) : kept[i] = n BY <3>5
      <4>5. kept[i] = queue[i + 1] /\ i + 1 \in 1..Len(queue) BY <1>1, <4>1, <4>3, <4>4, TailFacts
      <4>6. queue[i + 1] = Len(frames) - Len(queue) + (i + 1) BY <1>1, <4>5
      <4> QED BY <1>1, <3>6, <4>4, <4>5, <4>6
    <3>7. Len(kept) = Len(queue) \/ Len(kept) = Len(queue) - 1 BY <1>1, <1>2
    <3> QED BY <1>1, <1>2, <1>6, <2>1, <3>2, <3>6, <3>7
  <2> QED BY <2>3, <2>4, <1>5
<1> QED BY <1>7, <1>8

LEMMA TakePlaces ==
    ASSUME IInv, FatesPlaced, Take
    PROVE  FatesPlaced'
<1>1. /\ Len(frames) \in Nat /\ queue \in Seq(Nat \ {0}) /\ Len(queue) \in Nat
      /\ queue # <<>> /\ held = 0
      /\ \A i \in 1..Len(queue) : queue[i] = Len(frames) - Len(queue) + i
      /\ fate \in [1..Len(frames) -> Fates]
  BY DEF IInv, TypeOK, QueueIsNewest, Take
<1>2. /\ Head(queue) = queue[1] /\ Len(queue) >= 1 /\ Len(Tail(queue)) = Len(queue) - 1
  BY <1>1, TailFacts
<1>3. Head(queue) = Len(frames) - Len(queue) + 1 /\ Head(queue) \in 1..Len(frames)
  <2>1. queue[1] = Len(frames) - Len(queue) + 1 BY <1>1, <1>2
  <2>2. queue[1] \in Nat \ {0} BY <1>1, <1>2
  <2>3. Len(queue) \in Nat /\ Len(queue) >= 1 /\ Len(frames) \in Nat BY <1>1, <1>2
  <2>4. queue[1] >= 1 /\ queue[1] <= Len(frames) BY <2>1, <2>2, <2>3
  <2>5. Head(queue) = queue[1] BY <1>2
  <2> QED BY <2>1, <2>2, <2>3, <2>4, <2>5
<1>4. /\ pc' = "up" /\ frames' = frames /\ held' = Head(queue) /\ queue' = Tail(queue)
      /\ fate' = [fate EXCEPT ![Head(queue)] = "taken"]
  BY DEF Take
<1> SUFFICES ASSUME NEW n \in 1..Len(frames)
             PROVE  /\ fate'[n] = "taken" => held' = n
                    /\ fate'[n] = "queued" => n > Len(frames) - Len(queue')
  BY <1>4 DEF FatesPlaced
<1>5. CASE n = Head(queue) BY <1>1, <1>3, <1>4, <1>5
<1>6. CASE n # Head(queue)
  <2>1. fate'[n] = fate[n] BY <1>1, <1>4, <1>6
  <2>2. fate[n] # "taken" BY <1>1 DEF FatesPlaced
  <2>3. fate[n] = "queued" => n > Len(frames) - Len(queue) BY DEF FatesPlaced
  <2> QED BY <1>1, <1>2, <1>3, <1>4, <1>6, <2>1, <2>2, <2>3
<1> QED BY <1>5, <1>6

LEMMA FinishPlaces ==
    ASSUME IInv, FatesPlaced, NEW end \in {"handled", "failed"},
           Finish(held, end), held' = 0, UNCHANGED <<pc, queue, frames>>, pc = "up"
    PROVE  FatesPlaced'
<1>1. fate' = [fate EXCEPT ![held] = end] /\ fate \in [1..Len(frames) -> Fates]
  BY DEF Finish, IInv, TypeOK
<1>2. \A n \in 1..Len(frames) : fate'[n] = IF n = held THEN end ELSE fate[n]
  BY <1>1
<1> QED BY <1>2 DEF FatesPlaced

LEMMA NextPlaces ==
    ASSUME IInv, FatesPlaced, [Next]_vars
    PROVE  FatesPlaced'
<1>1. CASE Handle BY <1>1, HandlePlaces
<1>2. CASE Take BY <1>2, TakePlaces
<1>3. CASE EndFrame
  <2>1. Finish(held, "handled") /\ held' = 0 /\ UNCHANGED <<pc, queue, frames>> /\ pc = "up"
    BY <1>3 DEF EndFrame
  <2> QED BY <2>1, FinishPlaces
<1>4. CASE PublishFails
  <2>1. Finish(held, "failed") /\ held' = 0 /\ UNCHANGED <<pc, queue, frames>> /\ pc = "up"
    BY <1>4 DEF PublishFails, GiveUp
  <2> QED BY <2>1, FinishPlaces
<1>5. CASE PassRow \/ SendRow \/ Apply \/ Published \/ UNCHANGED vars
  <2>1. UNCHANGED <<pc, queue, held, frames, fate>>
    BY <1>5 DEF PassRow, SendRow, Apply, Published, vars, session, worker, history
  <2> QED BY <2>1 DEF FatesPlaced
<1>6. CASE EndSession
  <2>1. pc' = "leaving" /\ UNCHANGED <<queue, held, frames, fate>>
    BY <1>6 DEF EndSession, worker, history
  <2> QED BY <2>1 DEF FatesPlaced
<1>7. CASE JoinWorker
  <2>1. /\ frames' = frames /\ DOMAIN fate = 1..Len(frames)
        /\ fate' = [n \in DOMAIN fate |->
                      IF fate[n] \in {"queued", "taken"} THEN "abandoned" ELSE fate[n]]
    BY <1>7 DEF JoinWorker, IInv, TypeOK
  <2>2. \A n \in 1..Len(frames) : fate'[n] \notin {"queued", "taken"} BY <2>1
  <2> QED BY <2>1, <2>2 DEF FatesPlaced
<1>8. CASE NewSession
  <2>1. pc = "down" /\ pc' = "up" /\ UNCHANGED <<frames, fate>>
    BY <1>8 DEF NewSession, history
  <2>2. \A n \in 1..Len(frames) : fate[n] \notin {"queued", "taken"} BY <2>1 DEF FatesPlaced
  <2> QED BY <2>1, <2>2 DEF FatesPlaced
<1> QED BY <1>1, <1>2, <1>3, <1>4, <1>5, <1>6, <1>7, <1>8 DEF Next, Worker

LEMMA InitPipeline == Init => PipelineInv
<1> SUFFICES ASSUME Init PROVE PipelineInv OBVIOUS
<1>1. IInv BY InitIInv
<1>2. FatesPlaced BY DEF Init, FatesPlaced
<1>3. LogIsQuotes BY DEF Init, LogIsQuotes
<1> QED BY <1>1, <1>2, <1>3 DEF PipelineInv

LEMMA NextPipeline == PipelineInv /\ [Next]_vars => PipelineInv'
BY NextIInv, NextPlaces, NextLogIsQuotes DEF PipelineInv

-----------------------------------------------------------------------------
(* The pipeline runs both components.                                      *)

LEMMA PipelineStepsQueue == [PipelineNext]_pipelineVars => [Next]_vars
<1> SUFFICES ASSUME [PipelineNext]_pipelineVars PROVE [Next]_vars OBVIOUS
<1>1. CASE QueueStep BY <1>1 DEF QueueStep
<1>2. CASE ClientStep
  <2>1. PICK c \in Client : Stream(c) /\ UNCHANGED queueVars BY <1>2 DEF ClientStep
  <2>2. log' = log BY <2>1, LogKept
  <2> QED BY <2>1, <2>2 DEF queueVars, vars
<1>3. CASE UNCHANGED pipelineVars BY <1>3 DEF pipelineVars, queueVars, vars
<1> QED BY <1>1, <1>2, <1>3 DEF PipelineNext

(* The connections do nothing to the queue and its worker.                 *)
THEOREM PipelineRunsQueue == PipelineSpec => Spec
<1>1. PipelineInit => Init BY DEF PipelineInit
<1> QED BY <1>1, PipelineStepsQueue, PTL DEF PipelineSpec, Spec

LEMMA PipelineInvariance == Spec => []PipelineInv
BY InitPipeline, NextPipeline, PTL DEF Spec

\* To the bus, a step of the queue is a publication or nothing.
LEMMA PipelineStepsBus == IInv /\ [PipelineNext]_pipelineVars => [BusNext]_busVars
<1> SUFFICES ASSUME IInv, [PipelineNext]_pipelineVars PROVE [BusNext]_busVars OBVIOUS
<1>1. CASE QueueStep
  <2>1. Next /\ UNCHANGED conns BY <1>1 DEF QueueStep
  <2>2. log' = log \/ \E e \in QuoteEvent : log' = Append(log, e) BY <2>1, QueueLog
  <2>3. CASE log' = log BY <2>1, <2>3 DEF busVars
  <2>4. CASE \E e \in QuoteEvent : log' = Append(log, e)
    <3>1. \E e \in Event : log' = Append(log, e)
      BY <2>4, PipelineAssumption DEF PipelineAssumption
    <3> QED BY <2>1, <3>1 DEF Publish, BusNext
  <2> QED BY <2>2, <2>3, <2>4
<1>2. CASE ClientStep BY <1>2 DEF ClientStep, BusNext
<1>3. CASE UNCHANGED pipelineVars BY <1>3 DEF pipelineVars, busVars
<1> QED BY <1>1, <1>2, <1>3 DEF PipelineNext

(* The queue does nothing to the bus but publish events that parse.        *)
THEOREM PipelineRunsBus == PipelineSpec => BusSpec
<1>1. PipelineInit => BusInit BY DEF PipelineInit
<1>2. PipelineSpec => []IInv
  <2>1. PipelineInv => IInv BY DEF PipelineInv
  <2> QED BY <2>1, PipelineRunsQueue, PipelineInvariance, PTL
<1> QED BY <1>1, <1>2, PipelineStepsBus, PTL DEF PipelineSpec, BusSpec

(* What is proved of the queue and of the bus holds from end to end: order, *)
(* no lost counter, and every client gets one gapless part of the stream.  *)
THEOREM PipelineCorrect ==
    PipelineSpec => /\ []TasksBalanced /\ []QueueIsNewest /\ []PublishedInOrder
                    /\ []HandledIsPublished /\ []NothingMissed /\ ImplementsFeed
BY PipelineRunsQueue, PipelineRunsBus, TasksAreBalanced, NewestWait, OrderIsKept,
   HandledFramesArePublished, NothingIsMissed, FeedImplemented, PTL

-----------------------------------------------------------------------------
(* What a client misses                                                    *)

\* The entries of frame n lie between those of earlier and of later frames.
LEMMA BetweenFrames ==
    ASSUME TypeOK, PublishedInOrder,
           NEW i \in 1..Len(log), NEW j \in 1..Len(log), log[i].n < log[j].n
    PROVE  i < j
<1>1. log[i].n \in Nat /\ log[j].n \in Nat BY LogEntry
<1>2. i \in Nat /\ j \in Nat BY DEF TypeOK
<1>3. j < i => log[j].n <= log[i].n BY <1>1, <1>2 DEF PublishedInOrder
<1> QED BY <1>1, <1>2, <1>3

LEMMA OnlyLostMissing ==
    ASSUME PipelineInv, BusInv
    PROVE  OnlyLostFramesMissing
<1> SUFFICES ASSUME NEW c \in Client, NEW i \in got[c], NEW k \in got[c],
                    NEW n \in log[i].n + 1 .. log[k].n - 1
             PROVE  /\ fate[n] \in {"handled", "failed", "dropped", "abandoned"}
                    /\ fate[n] = "handled" => Received(c, n) = Quotes(n)
  BY DEF OnlyLostFramesMissing
<1>1. /\ TypeOK /\ PublishedInOrder /\ HandledIsPublished /\ LogIsBehind
      /\ Len(log) \in Nat /\ Len(frames) \in Nat /\ Len(queue) \in Nat
      /\ held \in 0..Len(frames)
  BY DEF PipelineInv, IInv, TypeOK
<1>2. ~ fresh[c] BY DEF BusInv, CursorsInLog
<1>3. /\ got[c] = {j \in start[c] + 1 .. current[c] : log[j] \in Readable}
      /\ start[c] \in Nat /\ current[c] \in Nat /\ current[c] <= Len(log)
  BY <1>1, <1>2 DEF BusInv, BusTypeOK, CursorsInLog, NothingMissed
<1>4. \A j \in 1..Len(log) : log[j] \in Readable
  <2>1. \A j \in 1..Len(log) : log[j] \in QuoteEvent BY DEF PipelineInv, LogIsQuotes
  <2> QED BY <2>1, PipelineAssumption DEF PipelineAssumption
<1>5. got[c] = start[c] + 1 .. current[c]
  <2>1. \A j \in start[c] + 1 .. current[c] : j \in 1..Len(log) BY <1>1, <1>3
  <2> QED BY <1>3, <1>4, <2>1
<1>6. i \in 1..Len(log) /\ k \in 1..Len(log) BY <1>1, <1>3, <1>5
<1>7. log[i].n \in Nat /\ log[k].n \in Nat /\ log[i].n # 0 /\ n \in Nat
      /\ log[i].n < n /\ n < log[k].n
  BY <1>1, <1>6, LogEntry
<1>8. log[k].n <= Len(frames) - Len(queue) /\ (held > 0 => log[k].n <= held)
  BY <1>1, <1>6 DEF LogIsBehind
<1>9. n \in 1..Len(frames) BY <1>1, <1>7, <1>8
<1>10. fate[n] \in Fates BY <1>1, <1>9 DEF TypeOK
<1>11. fate[n] # "queued"
  BY <1>1, <1>7, <1>8, <1>9 DEF PipelineInv, FatesPlaced
<1>12. fate[n] # "taken"
  BY <1>1, <1>7, <1>8, <1>9 DEF PipelineInv, FatesPlaced
<1>13. Received(c, n) = Events(n)
  <2>1. ASSUME NEW j \in 1..Len(log), log[j].n = n PROVE j \in got[c]
    <3>1. i < j /\ j < k BY <1>1, <1>6, <1>7, <2>1, BetweenFrames
    <3> QED BY <1>1, <1>3, <1>5, <1>6, <3>1
  <2>2. \A j \in got[c] : j \in 1..Len(log) BY <1>1, <1>3, <1>5
  <2>3. {j \in got[c] : log[j].n = n} = {j \in 1..Len(log) : log[j].n = n}
    BY <2>1, <2>2
  <2> QED BY <2>3 DEF Received, Events
<1>14. fate[n] = "handled" => Events(n) = Quotes(n)
  BY <1>1, <1>9 DEF HandledIsPublished, Quotes
<1> QED BY <1>10, <1>11, <1>12, <1>13, <1>14 DEF Fates

(* From Schwab's frames to a client's screen: between two quotes a client   *)
(* gets, nothing is missing but frames the full queue threw away, whose     *)
(* publication failed, or that a reconnect gave up.                        *)
THEOREM NothingElseMissing == PipelineSpec => []OnlyLostFramesMissing
BY PipelineRunsQueue, PipelineRunsBus, PipelineInvariance, BusInvariance, OnlyLostMissing, PTL
=============================================================================
