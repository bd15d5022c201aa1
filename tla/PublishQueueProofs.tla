------------------------- MODULE PublishQueueProofs -------------------------
(***************************************************************************)
(* Proofs about PublishQueue, for frames of any rows, a queue of any size  *)
(* and every bound: types, the counter of tasks, what a full queue keeps,  *)
(* the order of the events and what a handled frame leaves on the bus.     *)
(***************************************************************************)
EXTENDS PublishQueue, TLAPS

USE QueueAssumption DEF QueueAssumption


LEMMA AppendFacts ==
    ASSUME NEW S, NEW s \in Seq(S), NEW e \in S
    PROVE  /\ Append(s, e) \in Seq(S)
           /\ Len(Append(s, e)) = Len(s) + 1
           /\ \A i \in 1..Len(s) : Append(s, e)[i] = s[i]
           /\ Append(s, e)[Len(s) + 1] = e
    OBVIOUS

LEMMA TailFacts ==
    ASSUME NEW S, NEW s \in Seq(S), s # <<>>
    PROVE  /\ Tail(s) \in Seq(S) /\ Head(s) \in S /\ Head(s) = s[1]
           /\ Len(s) >= 1 /\ Len(Tail(s)) = Len(s) - 1
           /\ \A i \in 1..Len(Tail(s)) : Tail(s)[i] = s[i + 1]
    OBVIOUS

\* A frame is a sequence of row kinds.
LEMMA FrameRows ==
    ASSUME TypeOK, NEW n \in 1..Len(frames)
    PROVE  frames[n] \in Seq(RowKind) /\ Len(frames[n]) \in Nat
    BY DEF TypeOK

\* What an XADD that is carried out adds to the events of a frame.
LEMMA EventsAfterApply ==
    ASSUME TypeOK, WorkerInPlace, Apply, NEW n
    PROVE  Events(n)' = IF n = held THEN Events(n) \cup {row} ELSE Events(n)
<1>1. /\ log \in Seq(Entry)
      /\ log' = Append(log, [n |-> held, r |-> row])
  BY DEF TypeOK, Apply
<1>2. /\ Len(log') = Len(log) + 1 /\ Len(log) \in Nat
      /\ \A i \in 1..Len(log) : log'[i] = log[i]
      /\ log'[Len(log) + 1] = [n |-> held, r |-> row]
  <2>1. held \in Nat \ {0} /\ row \in Nat \ {0} BY DEF TypeOK, Apply, WorkerInPlace
  <2>2. [n |-> held, r |-> row] \in Entry BY <2>1 DEF Entry
  <2> QED BY <1>1, <2>2
<1>3. \A i : i \in 1..Len(log') <=> (i \in 1..Len(log) \/ i = Len(log) + 1)
  BY <1>2
<1>4. [n |-> held, r |-> row].n = held /\ [n |-> held, r |-> row].r = row
  OBVIOUS
<1>5. {i \in 1..Len(log') : log'[i].n = n} =
        {i \in 1..Len(log) : log[i].n = n} \cup (IF n = held THEN {Len(log) + 1} ELSE {})
  BY <1>2, <1>3, <1>4
<1>6. ASSUME NEW r PROVE r \in Events(n)' <=> (r \in Events(n) \/ (n = held /\ r = row))
  BY <1>2, <1>3, <1>4 DEF Events
<1> QED BY <1>6

LEMMA EventsKept ==
    ASSUME NEW n, log' = log
    PROVE  Events(n)' = Events(n)
    BY DEF Events

-----------------------------------------------------------------------------
LEMMA InitIInv == Init => IInv
<1> SUFFICES ASSUME Init PROVE IInv OBVIOUS
<1> USE DEF Init
<1>1. TypeOK
  <2>1. fate \in [1..Len(frames) -> Fates] BY DEF Fates
  <2>2. Len(frames) = 0 /\ Len(queue) = 0 OBVIOUS
  <2>4. Len(frames) <= MaxFrames /\ Len(queue) <= QueueMax /\ held \in 0..Len(frames)
    BY <2>2
  <2>5. pc \in {"up", "leaving", "down"} /\ sent \in BOOLEAN OBVIOUS
  <2>6. unfinished \in Nat /\ row \in Nat /\ applied \in Nat /\ faults \in 0..MaxFaults OBVIOUS
  <2>3. frames \in Seq(Frame) /\ queue \in Seq(Nat \ {0})
        /\ log \in Seq(Entry)
    OBVIOUS
  <2> QED BY <2>1, <2>3, <2>4, <2>5, <2>6 DEF TypeOK
<1>2. TasksBalanced BY DEF TasksBalanced
<1>3. QueueIsNewest BY DEF QueueIsNewest
<1>4. PublishedInOrder BY DEF PublishedInOrder
<1>5. HandledIsPublished BY DEF HandledIsPublished
<1>6. WorkerInPlace BY DEF WorkerInPlace
<1>7. LogIsBehind BY DEF LogIsBehind
<1>8. RowsPassed BY DEF RowsPassed
<1> QED BY <1>1, <1>2, <1>3, <1>4, <1>5, <1>6, <1>7, <1>8 DEF IInv

LEMMA LogEntry ==
    ASSUME TypeOK, NEW i \in 1..Len(log)
    PROVE  log[i].n \in Nat \ {0} /\ log[i].r \in Nat \ {0}
<1>1. log[i] \in Entry BY DEF TypeOK
<1> QED BY <1>1 DEF Entry

\* Frames wait once each, so no more wait than have come.
LEMMA QueueFits ==
    ASSUME TypeOK, QueueIsNewest
    PROVE  Len(queue) <= Len(frames)
<1>1. Len(queue) \in Nat /\ Len(frames) \in Nat /\ queue \in Seq(Nat \ {0}) BY DEF TypeOK
<1>2. CASE Len(queue) = 0 BY <1>1, <1>2
<1>3. CASE Len(queue) > 0
  <2>1. 1 \in 1..Len(queue) BY <1>1, <1>3
  <2>2. queue[1] \in Nat \ {0} /\ queue[1] = Len(frames) - Len(queue) + 1
    BY <1>1, <2>1 DEF QueueIsNewest
  <2> QED BY <1>1, <2>2
<1> QED BY <1>1, <1>2, <1>3

LEMMA HandleIInv == IInv /\ Handle => IInv'
<1> SUFFICES ASSUME IInv, Handle PROVE IInv' OBVIOUS
<1> DEFINE new  == Len(frames) + 1
           kept == MakeRoom(queue)
           dropped == {queue[i] : i \in 1..Len(queue)} \ {kept[i] : i \in 1..Len(kept)}
<1>1. PICK f \in Frame : frames' = Append(frames, f) BY DEF Handle
<1>2. /\ frames' \in Seq(Frame) /\ Len(frames') = new /\ Len(frames) \in Nat
      /\ \A n \in 1..Len(frames) : frames'[n] = frames[n]
  BY <1>1 DEF IInv, TypeOK
<1>3. /\ kept \in Seq(Nat \ {0}) /\ Len(kept) <= Len(queue) /\ Len(kept) < QueueMax
      /\ Len(kept) \in Nat /\ Len(queue) \in Nat /\ QueueMax \in Nat \ {0}
      /\ \A i \in 1..Len(kept) : kept[i] = new - 1 - Len(kept) + i
  <2>1. /\ queue \in Seq(Nat \ {0}) /\ Len(queue) <= QueueMax /\ Len(queue) \in Nat
        /\ \A i \in 1..Len(queue) : queue[i] = Len(frames) - Len(queue) + i
    BY DEF IInv, TypeOK, QueueIsNewest
  <2>2. CASE Len(queue) = QueueMax
    <3>1. queue # <<>> BY <2>1, <2>2
    <3>2. /\ Tail(queue) \in Seq(Nat \ {0}) /\ Len(Tail(queue)) = Len(queue) - 1
          /\ \A i \in 1..Len(Tail(queue)) : Tail(queue)[i] = queue[i + 1]
      BY <2>1, <3>1, TailFacts
    <3>3. kept = Tail(queue) BY <2>2 DEF MakeRoom
    <3>4. ASSUME NEW i \in 1..Len(kept) PROVE kept[i] = new - 1 - Len(kept) + i
      <4>1. i \in Int /\ i \in 1..Len(Tail(queue)) /\ i + 1 \in 1..Len(queue)
        BY <2>1, <3>2, <3>3
      <4>2. kept[i] = queue[i + 1] /\ queue[i + 1] = Len(frames) - Len(queue) + (i + 1)
        BY <2>1, <3>2, <3>3, <4>1
      <4> HIDE DEF kept
      <4> QED BY <1>2, <2>1, <3>2, <3>3, <4>1, <4>2
    <3> QED BY <2>1, <2>2, <3>2, <3>3, <3>4
  <2>3. CASE Len(queue) # QueueMax
    <3>1. kept = queue BY <2>3 DEF MakeRoom
    <3> HIDE DEF kept
    <3>2. Len(queue) < QueueMax BY <2>1, <2>3
    <3> QED BY <1>2, <2>1, <3>1, <3>2
  <2> QED BY <2>2, <2>3
<1> HIDE DEF kept
<1>4. /\ queue' = Append(kept, new)
      /\ unfinished' = unfinished - (Len(queue) - Len(kept)) + 1
      /\ fate' = [n \in 1..new |-> IF n = new THEN "queued"
                                   ELSE IF n \in dropped THEN "dropped" ELSE fate[n]]
      /\ pc = "up" /\ pc' = pc /\ held' = held /\ row' = row /\ sent' = sent
      /\ applied' = applied /\ log' = log /\ faults' = faults /\ Len(frames) < MaxFrames
  BY DEF Handle, Entered, kept, TasksDropped, worker
<1>5. /\ queue' \in Seq(Nat \ {0}) /\ Len(queue') = Len(kept) + 1
      /\ \A i \in 1..Len(kept) : queue'[i] = kept[i]
      /\ queue'[Len(kept) + 1] = new
  <2>1. new \in Nat \ {0} BY <1>2
  <2> QED BY <2>1, <1>3, <1>4, AppendFacts
<1> HIDE DEF new, dropped
<1>a. /\ new = Len(frames) + 1 /\ new \in Nat /\ Len(frames) \in Nat /\ Len(frames') = new
      /\ Len(queue) \in Nat /\ Len(kept) \in Nat /\ Len(kept) <= Len(queue)
      /\ Len(kept) < QueueMax /\ Len(queue') = Len(kept) + 1
  BY <1>2, <1>3, <1>5 DEF new
<1>b. /\ unfinished \in Nat /\ held \in 0..Len(frames)
      /\ unfinished = Len(queue) + (IF held = 0 THEN 0 ELSE 1)
      /\ unfinished' = unfinished - (Len(queue) - Len(kept)) + 1
      /\ held' = held
  BY <1>4 DEF IInv, TypeOK, TasksBalanced
<1>c. unfinished' = Len(queue') + (IF held' = 0 THEN 0 ELSE 1) BY <1>a, <1>b
<1>6. TypeOK'
  <2>1. fate' \in [1..Len(frames') -> Fates] BY <1>a, <1>4 DEF IInv, TypeOK, Fates
  <2>2. unfinished' \in Nat
    BY <1>a, <1>b, <1>c
  <2>3. Len(frames') <= MaxFrames /\ Len(queue') <= QueueMax BY <1>a, <1>4
  <2>4. held' \in 0..Len(frames') BY <1>a, <1>b
  <2>5. frames' \in Seq(Frame) /\ queue' \in Seq(Nat \ {0}) BY <1>2, <1>5
  <2> QED BY <1>4, <2>1, <2>2, <2>3, <2>4, <2>5 DEF IInv, TypeOK
<1>7. TasksBalanced' BY <1>c DEF TasksBalanced
<1>8. QueueIsNewest'
  <2>1. ASSUME NEW i \in 1..Len(queue') PROVE queue'[i] = Len(frames') - Len(queue') + i
    <3>1. CASE i = Len(kept) + 1 BY <1>a, <1>5, <3>1
    <3>2. CASE i # Len(kept) + 1
      <4>1. i \in 1..Len(kept) /\ i \in Int BY <1>a, <3>2
      <4>2. queue'[i] = kept[i] /\ kept[i] = new - 1 - Len(kept) + i BY <1>3, <1>5, <4>1
      <4> QED BY <1>a, <4>1, <4>2
    <3> QED BY <3>1, <3>2
  <2> QED BY <2>1 DEF QueueIsNewest
<1>9. PublishedInOrder' BY <1>4 DEF IInv, PublishedInOrder
<1>10. Len(frames) - Len(queue) <= Len(frames') - Len(queue') BY <1>a
<1>11. WorkerInPlace'
  <2>1. held > 0 => held \notin dropped
    <3> SUFFICES ASSUME held > 0, held \in dropped PROVE FALSE OBVIOUS
    <3>1. PICK i \in 1..Len(queue) : queue[i] = held BY DEF dropped
    <3>2. fate[held] = "queued" BY <1>4, <3>1 DEF IInv, LogIsBehind
    <3>3. fate[held] = "taken" BY DEF IInv, WorkerInPlace
    <3> QED BY <3>2, <3>3
  <2>2. held > 0 => fate'[held] = "taken"
    <3> SUFFICES ASSUME held > 0 PROVE fate'[held] = "taken" OBVIOUS
    <3>1. held \in 1..Len(frames) /\ held # new BY <1>a, <1>b
    <3>2. fate[held] = "taken" BY DEF IInv, WorkerInPlace
    <3> QED BY <1>a, <1>4, <2>1, <3>1, <3>2
  <2>3. held > 0 => held \in 1..Len(frames) /\ frames'[held] = frames[held]
    BY <1>2 DEF IInv, TypeOK
  <2>4. held = 0 => ~sent BY DEF IInv, WorkerInPlace
  <2>5. held > 0 => /\ held <= Len(frames) - Len(queue)
                    /\ row \in 1..Len(frames[held]) + 1
    BY DEF IInv, WorkerInPlace
  <2>6. held > 0 => held <= Len(frames') - Len(queue')
    BY <1>a, <1>b, <1>10, <2>5
  <2>7. sent => held > 0 BY <2>4 DEF IInv, TypeOK
  <2> QED BY <1>4, <2>2, <2>3, <2>4, <2>5, <2>6, <2>7 DEF IInv, WorkerInPlace
<1>12. LogIsBehind'
  <2>1. \A i \in 1..Len(log) : log[i].n <= Len(frames') - Len(queue')
    <3> SUFFICES ASSUME NEW i \in 1..Len(log)
                 PROVE  log[i].n <= Len(frames') - Len(queue')
      OBVIOUS
    <3>1. log[i].n \in Nat /\ log[i].n <= Len(frames) - Len(queue)
      BY LogEntry DEF IInv, LogIsBehind
    <3> QED BY <1>a, <1>10, <3>1
  <2>2. \A i \in 1..Len(queue') : fate'[queue'[i]] = "queued"
    <3> SUFFICES ASSUME NEW i \in 1..Len(queue') PROVE fate'[queue'[i]] = "queued" OBVIOUS
    <3>1. CASE i = Len(kept) + 1 BY <1>a, <1>4, <1>5, <3>1
    <3>2. CASE i # Len(kept) + 1
      <4>1. i \in 1..Len(kept) /\ queue'[i] = kept[i] BY <1>a, <1>5, <3>2
      <4>2. kept[i] \in 1..Len(frames) /\ kept[i] \notin dropped
        <5>1. kept[i] = new - 1 - Len(kept) + i /\ i \in Int BY <1>3, <4>1
        <5>2. Len(queue) <= Len(frames) BY QueueFits DEF IInv
        <5>3. kept[i] \in 1..Len(frames) BY <1>a, <4>1, <5>1, <5>2
        <5> QED BY <4>1, <5>3 DEF dropped
      <4>3. \E j \in 1..Len(queue) : queue[j] = kept[i]
        <5>1. i + (Len(queue) - Len(kept)) \in 1..Len(queue) BY <1>3, <4>1
        <5>2. queue[i + (Len(queue) - Len(kept))] = kept[i]
          <6>1. queue[i + (Len(queue) - Len(kept))]
                  = Len(frames) - Len(queue) + (i + (Len(queue) - Len(kept)))
            BY <5>1 DEF IInv, QueueIsNewest
          <6>2. kept[i] = new - 1 - Len(kept) + i /\ i \in Int BY <1>3, <4>1
          <6> QED BY <1>a, <6>1, <6>2
        <5> QED BY <5>1, <5>2
      <4>4. fate[kept[i]] = "queued" BY <1>4, <4>3 DEF IInv, LogIsBehind
      <4> QED BY <1>a, <1>4, <4>1, <4>2, <4>4
    <3> QED BY <3>1, <3>2
  <2> QED BY <1>4, <2>1, <2>2 DEF IInv, LogIsBehind
<1>13. RowsPassed'
  <2>1. held > 0 => held \in 1..Len(frames) /\ frames'[held] = frames[held]
    BY <1>2 DEF IInv, TypeOK
  <2> QED BY <1>4, <2>1, EventsKept DEF IInv, RowsPassed
<1>14. HandledIsPublished'
  <2>1. \A n : Events(n)' = Events(n) BY <1>4, EventsKept
  <2> SUFFICES ASSUME NEW n \in 1..Len(frames')
               PROVE  /\ fate'[n] = "handled" =>
                            Events(n) = {r \in 1..Len(frames'[n]) :
                                           /\ frames'[n][r] = "quote"
                                           /\ \A s \in 1..r : frames'[n][s] # "bad"}
                      /\ fate'[n] \in {"queued", "dropped"} => Events(n) = {}
    BY <2>1 DEF HandledIsPublished
  <2>2. CASE n = new
    <3>1. \A i \in 1..Len(log) : log[i].n < new
      <4> SUFFICES ASSUME NEW i \in 1..Len(log) PROVE log[i].n < new OBVIOUS
      <4>1. log[i].n \in Nat /\ log[i].n <= Len(frames) - Len(queue)
        BY LogEntry DEF IInv, LogIsBehind
      <4> QED BY <1>a, <4>1
    <3>2. \A i \in 1..Len(log) : log[i].n # n
      BY <1>a, <2>2, <3>1 DEF IInv, TypeOK
    <3>3. Events(n) = {} BY <3>2 DEF Events
    <3> QED BY <1>4, <2>2, <3>3
  <2>3. CASE n # new
    <3>1. n \in 1..Len(frames) /\ frames'[n] = frames[n] BY <1>a, <1>2, <2>3
    <3>2. CASE n \in dropped
      <4>1. fate[n] = "queued" BY <1>4, <3>2 DEF IInv, LogIsBehind, dropped
      <4>2. fate'[n] = "dropped" BY <1>a, <1>4, <2>3, <3>1, <3>2
      <4> QED BY <3>1, <4>1, <4>2 DEF IInv, HandledIsPublished
    <3>3. CASE n \notin dropped
      <4>1. fate'[n] = fate[n] BY <1>a, <1>4, <2>3, <3>1, <3>3
      <4> QED BY <3>1, <4>1 DEF IInv, HandledIsPublished
    <3> QED BY <3>2, <3>3
  <2> QED BY <2>2, <2>3
<1> QED BY <1>6, <1>7, <1>8, <1>9, <1>11, <1>12, <1>13, <1>14 DEF IInv

LEMMA TakeIInv == IInv /\ Take => IInv'
<1> SUFFICES ASSUME IInv, Take PROVE IInv' OBVIOUS
<1> DEFINE h == Head(queue)
<1>1. /\ queue # <<>> /\ pc = "up" /\ pc' = pc /\ held = 0 /\ held' = h /\ row' = 1
      /\ queue' = Tail(queue) /\ fate' = [fate EXCEPT ![h] = "taken"]
      /\ unfinished' = unfinished /\ sent' = sent /\ applied' = applied /\ log' = log
      /\ faults' = faults /\ frames' = frames
  BY DEF Take
<1>2. /\ queue \in Seq(Nat \ {0}) /\ Len(queue) \in Nat /\ Len(frames) \in Nat
      /\ Len(queue) <= QueueMax /\ Len(queue) <= Len(frames)
      /\ \A i \in 1..Len(queue) : queue[i] = Len(frames) - Len(queue) + i
  BY QueueFits DEF IInv, TypeOK, QueueIsNewest
<1>3. /\ queue' \in Seq(Nat \ {0}) /\ Len(queue) >= 1 /\ Len(queue') = Len(queue) - 1
      /\ h = queue[1]
      /\ \A i \in 1..Len(queue') : queue'[i] = queue[i + 1]
  BY <1>1, <1>2, TailFacts
<1>4. h = Len(frames) - Len(queue) + 1 /\ h \in 1..Len(frames)
      /\ h = Len(frames) - Len(queue')
  BY <1>2, <1>3
<1>5. fate[h] = "queued" BY <1>1, <1>2, <1>3 DEF IInv, LogIsBehind
<1> HIDE DEF h
<1>6. /\ fate \in [1..Len(frames) -> Fates] /\ fate'[h] = "taken"
      /\ \A n \in 1..Len(frames) : n # h => fate'[n] = fate[n]
  BY <1>1, <1>4 DEF IInv, TypeOK
<1>7. TypeOK'
  <2>1. fate' \in [1..Len(frames) -> Fates] BY <1>1, <1>6 DEF Fates
  <2>2. held' \in 0..Len(frames) /\ Len(queue') <= QueueMax BY <1>1, <1>2, <1>3, <1>4
  <2> QED BY <1>1, <1>3, <2>1, <2>2 DEF IInv, TypeOK
<1>8. TasksBalanced' BY <1>1, <1>2, <1>3, <1>4 DEF IInv, TasksBalanced
<1>9. QueueIsNewest'
  <2> SUFFICES ASSUME NEW i \in 1..Len(queue')
               PROVE  queue'[i] = Len(frames') - Len(queue') + i
    BY DEF QueueIsNewest
  <2>1. i \in Int /\ i + 1 \in 1..Len(queue) BY <1>2, <1>3
  <2>2. queue[i + 1] = Len(frames) - Len(queue) + (i + 1) BY <1>2, <2>1
  <2> QED BY <1>1, <1>2, <1>3, <2>1, <2>2
<1>10. PublishedInOrder' BY <1>1 DEF IInv, PublishedInOrder
<1>11. \A i \in 1..Len(log) : log[i].n < h
  <2> SUFFICES ASSUME NEW i \in 1..Len(log) PROVE log[i].n < h OBVIOUS
  <2>1. log[i].n \in Nat /\ log[i].n <= Len(frames) - Len(queue)
    BY LogEntry DEF IInv, LogIsBehind
  <2> QED BY <1>2, <1>4, <2>1
<1>12. Events(h) = {}
  <2>1. \A i \in 1..Len(log) : log[i].n # h
    <3> SUFFICES ASSUME NEW i \in 1..Len(log) PROVE log[i].n # h OBVIOUS
    <3>1. log[i].n \in Nat /\ log[i].n < h BY <1>11, LogEntry DEF IInv
    <3> QED BY <1>4, <3>1
  <2> QED BY <2>1 DEF Events
<1>13. \A n : Events(n)' = Events(n) BY <1>1, EventsKept
<1>14. HandledIsPublished'
  <2> SUFFICES ASSUME NEW n \in 1..Len(frames)
               PROVE  /\ fate'[n] = "handled" =>
                            Events(n) = {r \in 1..Len(frames[n]) :
                                           /\ frames[n][r] = "quote"
                                           /\ \A s \in 1..r : frames[n][s] # "bad"}
                      /\ fate'[n] \in {"queued", "dropped"} => Events(n) = {}
    BY <1>1, <1>13 DEF HandledIsPublished
  <2>1. CASE n = h BY <1>6, <1>12, <2>1
  <2>2. CASE n # h BY <1>6, <2>2 DEF IInv, HandledIsPublished
  <2> QED BY <2>1, <2>2
<1>15. ~sent /\ applied = 0 BY <1>1 DEF IInv, WorkerInPlace
<1>16. Len(frames[h]) \in Nat BY <1>4, FrameRows DEF IInv
<1>17. WorkerInPlace' BY <1>1, <1>4, <1>6, <1>15, <1>16 DEF WorkerInPlace
<1>18. LogIsBehind'
  <2>1. \A i \in 1..Len(log) : log[i].n <= Len(frames) - Len(queue') /\ log[i].n <= h
                               /\ log[i].n # h
    <3> SUFFICES ASSUME NEW i \in 1..Len(log)
                 PROVE  log[i].n <= h /\ log[i].n # h
      BY <1>4
    <3>1. log[i].n \in Nat /\ log[i].n < h BY <1>11, LogEntry DEF IInv
    <3> QED BY <1>4, <3>1
  <2>2. \A i \in 1..Len(queue') : fate'[queue'[i]] = "queued"
    <3> SUFFICES ASSUME NEW i \in 1..Len(queue') PROVE fate'[queue'[i]] = "queued" OBVIOUS
    <3>1. i \in Int /\ i + 1 \in 1..Len(queue) /\ i >= 1 BY <1>2, <1>3
    <3>2. queue[i + 1] = Len(frames) - Len(queue) + (i + 1) BY <1>2, <3>1
    <3>3. queue[i + 1] \in 1..Len(frames) /\ queue[i + 1] # h BY <1>2, <1>4, <3>1, <3>2
    <3>4. fate[queue[i + 1]] = "queued" BY <1>1, <3>1 DEF IInv, LogIsBehind
    <3> QED BY <1>3, <1>6, <3>3, <3>4
  <2> QED BY <1>1, <2>1, <2>2 DEF LogIsBehind
<1>19. RowsPassed' BY <1>1, <1>12, <1>13, <1>15, <1>16 DEF RowsPassed
<1> QED BY <1>7, <1>8, <1>9, <1>10, <1>14, <1>17, <1>18, <1>19 DEF IInv

\* A step that leaves the log, the frames and the queue alone keeps what is
\* said about them only.
LEMMA Untouched ==
    ASSUME IInv, UNCHANGED <<log, frames, queue>>
    PROVE  QueueIsNewest' /\ PublishedInOrder' /\ \A n : Events(n)' = Events(n)
    BY EventsKept DEF IInv, QueueIsNewest, PublishedInOrder

LEMMA PassRowIInv == IInv /\ PassRow => IInv'
<1> SUFFICES ASSUME IInv, PassRow PROVE IInv' OBVIOUS
<1>1. /\ pc' = pc /\ queue' = queue /\ unfinished' = unfinished /\ held' = held
      /\ sent' = sent /\ applied' = applied /\ log' = log /\ faults' = faults
      /\ frames' = frames /\ fate' = fate /\ row' = row + 1
      /\ held > 0 /\ ~sent /\ row <= Len(frames[held]) /\ frames[held][row] = "blank"
  BY DEF PassRow, session, history, Passed
<1>2. /\ held \in 1..Len(frames) /\ Len(frames[held]) \in Nat /\ row \in 1..Len(frames[held])
      /\ applied = 0
  <2>1. held \in 1..Len(frames) BY <1>1 DEF IInv, TypeOK
  <2>2. Len(frames[held]) \in Nat BY <2>1, FrameRows DEF IInv
  <2> QED BY <1>1, <2>1, <2>2 DEF IInv, WorkerInPlace
<1>3. QueueIsNewest' /\ PublishedInOrder' /\ \A n : Events(n)' = Events(n)
  BY <1>1, Untouched
<1>4. TypeOK' BY <1>1, <1>2 DEF IInv, TypeOK
<1>5. TasksBalanced' BY <1>1 DEF IInv, TasksBalanced
<1>6. HandledIsPublished' BY <1>1, <1>3 DEF IInv, HandledIsPublished
<1>7. WorkerInPlace' BY <1>1, <1>2 DEF IInv, WorkerInPlace
<1>8. LogIsBehind'
  <2> SUFFICES ASSUME NEW i \in 1..Len(log), log[i].n = held PROVE log[i].r <= row + 1
    BY <1>1 DEF IInv, LogIsBehind
  <2>1. log[i].r \in Nat /\ log[i].r <= row BY <1>1, LogEntry DEF IInv, LogIsBehind
  <2> QED BY <1>2, <2>1
<1>9. row + 1 \notin Events(held)
  <2> SUFFICES ASSUME NEW i \in 1..Len(log), log[i].n = held PROVE log[i].r # row + 1
    BY DEF Events
  <2>1. log[i].r \in Nat /\ log[i].r <= row BY <1>1, LogEntry DEF IInv, LogIsBehind
  <2> QED BY <1>2, <2>1
<1>10. row \notin Events(held) BY <1>1, <1>2 DEF IInv, RowsPassed
<1>11. RowsPassed'
  <2> SUFFICES ASSUME NEW r \in 1..Len(frames[held]), r < row + 1
               PROVE  /\ frames[held][r] # "bad"
                      /\ r \in Events(held) <=> frames[held][r] = "quote"
    BY <1>1, <1>2, <1>3, <1>9 DEF RowsPassed
  <2>1. CASE r = row BY <1>1, <1>10, <2>1
  <2>2. CASE r # row
    <3>1. r < row BY <1>2, <2>2
    <3> QED BY <1>1, <3>1 DEF IInv, RowsPassed
  <2> QED BY <2>1, <2>2
<1> QED BY <1>3, <1>4, <1>5, <1>6, <1>7, <1>8, <1>11 DEF IInv

LEMMA SendRowIInv == IInv /\ SendRow => IInv'
<1> SUFFICES ASSUME IInv, SendRow PROVE IInv' OBVIOUS
<1>1. /\ pc' = pc /\ queue' = queue /\ unfinished' = unfinished /\ held' = held
      /\ row' = row /\ applied' = applied /\ log' = log /\ faults' = faults
      /\ frames' = frames /\ fate' = fate /\ sent' = TRUE
      /\ held > 0 /\ row <= Len(frames[held]) /\ frames[held][row] = "quote"
  BY DEF SendRow, session, history
<1>3. QueueIsNewest' /\ PublishedInOrder' /\ \A n : Events(n)' = Events(n)
  BY <1>1, Untouched
<1>4. TypeOK' BY <1>1 DEF IInv, TypeOK
<1>5. TasksBalanced' BY <1>1 DEF IInv, TasksBalanced
<1>6. HandledIsPublished' BY <1>1, <1>3 DEF IInv, HandledIsPublished
<1>7. WorkerInPlace' BY <1>1 DEF IInv, WorkerInPlace
<1>8. LogIsBehind' BY <1>1 DEF IInv, LogIsBehind
<1>9. RowsPassed' BY <1>1, <1>3 DEF IInv, RowsPassed
<1> QED BY <1>3, <1>4, <1>5, <1>6, <1>7, <1>8, <1>9 DEF IInv

\* The rows of frame n that come before its first bad one.
GoodRows(n) == {r \in 1..Len(frames[n]) :
                   /\ frames[n][r] = "quote"
                   /\ \A s \in 1..r : frames[n][s] # "bad"}

\* The worker lets go of its frame.
LEMMA FinishIInv ==
    ASSUME IInv, held > 0, NEW end \in {"handled", "failed"}, Finish(held, end),
           held' = 0, UNCHANGED <<pc, queue, log, frames>>, faults' \in 0..MaxFaults,
           end = "handled" => Events(held) = GoodRows(held)
    PROVE  IInv'
<1>1. /\ unfinished' = unfinished - 1 /\ fate' = [fate EXCEPT ![held] = end]
      /\ row' = 0 /\ sent' = FALSE /\ applied' = 0
  BY DEF Finish
<1>2. QueueIsNewest' /\ PublishedInOrder' /\ \A n : Events(n)' = Events(n)
  BY Untouched
<1>3. held \in 1..Len(frames) BY DEF IInv, TypeOK
<1>4. /\ fate \in [1..Len(frames) -> Fates] /\ fate'[held] = end
      /\ \A n \in 1..Len(frames) : n # held => fate'[n] = fate[n]
  BY <1>1, <1>3 DEF IInv, TypeOK
<1>5. unfinished = Len(queue) + 1 /\ Len(queue) \in Nat /\ Len(frames) \in Nat
  BY <1>3 DEF IInv, TasksBalanced, TypeOK
<1>6. TypeOK'
  <2>1. fate' \in [1..Len(frames) -> Fates] BY <1>1, <1>4 DEF Fates
  <2>2. held' \in 0..Len(frames) /\ unfinished' \in Nat BY <1>1, <1>5
  <2> QED BY <1>1, <2>1, <2>2 DEF IInv, TypeOK
<1>7. TasksBalanced' BY <1>1, <1>5 DEF TasksBalanced
<1>8. HandledIsPublished'
  <2> SUFFICES ASSUME NEW n \in 1..Len(frames)
               PROVE  /\ fate'[n] = "handled" => Events(n) = GoodRows(n)
                      /\ fate'[n] \in {"queued", "dropped"} => Events(n) = {}
    BY <1>2 DEF HandledIsPublished, GoodRows
  <2>1. CASE n = held BY <1>4, <2>1
  <2>2. CASE n # held BY <1>4, <2>2 DEF IInv, HandledIsPublished, GoodRows
  <2> QED BY <2>1, <2>2
<1>9. WorkerInPlace' BY <1>1 DEF WorkerInPlace
<1>10. LogIsBehind'
  <2>1. ASSUME pc = "up", NEW i \in 1..Len(queue) PROVE fate'[queue[i]] = "queued"
    <3>1. fate[queue[i]] = "queued" BY <2>1 DEF IInv, LogIsBehind
    <3>2. fate[held] = "taken" BY DEF IInv, WorkerInPlace
    <3>3. queue[i] = Len(frames) - Len(queue) + i /\ i \in Int /\ Len(queue) <= Len(frames)
      BY QueueFits DEF IInv, QueueIsNewest
    <3>4. queue[i] \in 1..Len(frames) BY <1>5, <3>3
    <3> QED BY <1>4, <3>1, <3>2, <3>4
  <2> QED BY <2>1 DEF IInv, LogIsBehind
<1>11. RowsPassed' BY DEF RowsPassed
<1> QED BY <1>2, <1>6, <1>7, <1>8, <1>9, <1>10, <1>11 DEF IInv

LEMMA EndFrameIInv == IInv /\ EndFrame => IInv'
<1> SUFFICES ASSUME IInv, EndFrame PROVE IInv' OBVIOUS
<1>1. /\ held > 0 /\ ~sent /\ Finish(held, "handled") /\ held' = 0
      /\ UNCHANGED <<pc, queue, log, frames>> /\ faults' = faults
      /\ row <= Len(frames[held]) => frames[held][row] \notin Passed \cup {"quote"}
  BY DEF EndFrame
<1>2. held \in 1..Len(frames) BY <1>1 DEF IInv, TypeOK
<1>3. /\ frames[held] \in Seq(RowKind) /\ Len(frames[held]) \in Nat
      /\ row \in 1..Len(frames[held]) + 1
  BY <1>1, <1>2, FrameRows DEF IInv, WorkerInPlace
<1>4. row <= Len(frames[held]) => frames[held][row] = "bad"
  BY <1>1, <1>3 DEF RowKind, Passed
<1>5. row \notin Events(held) BY <1>1 DEF IInv, RowsPassed, WorkerInPlace
<1>6. \A r \in Events(held) : r \in 1..Len(frames[held]) /\ r < row
  <2> SUFFICES ASSUME NEW i \in 1..Len(log), log[i].n = held
               PROVE  log[i].r \in 1..Len(frames[held]) /\ log[i].r < row
    BY DEF Events
  <2>1. log[i].r \in Nat \ {0} /\ log[i].r <= row
    BY <1>1, LogEntry DEF IInv, LogIsBehind
  <2>2. log[i].r # row BY <1>5 DEF Events
  <2> QED BY <1>3, <2>1, <2>2
<1>7. ASSUME NEW r \in 1..Len(frames[held])
      PROVE  r \in Events(held) <=>
                frames[held][r] = "quote" /\ \A s \in 1..r : frames[held][s] # "bad"
  <2>1. CASE r < row
    <3>1. \A s \in 1..r : s \in 1..Len(frames[held]) /\ s < row BY <1>3, <2>1
    <3> QED BY <1>1, <2>1, <3>1 DEF IInv, RowsPassed
  <2>2. CASE ~(r < row)
    <3>1. row <= Len(frames[held]) /\ row \in 1..r BY <1>3, <2>2
    <3> QED BY <1>4, <1>6, <2>2, <3>1
  <2> QED BY <2>1, <2>2
<1>8. Events(held) = GoodRows(held) BY <1>6, <1>7 DEF GoodRows
<1>9. faults' \in 0..MaxFaults BY <1>1 DEF IInv, TypeOK
<1> QED BY <1>1, <1>8, <1>9, FinishIInv

LEMMA PublishFailsIInv == IInv /\ PublishFails => IInv'
<1> SUFFICES ASSUME IInv, PublishFails PROVE IInv' OBVIOUS
<1>1. /\ sent /\ Finish(held, "failed") /\ held' = 0
      /\ UNCHANGED <<pc, queue, log, frames>> /\ faults' = faults + 1 /\ faults < MaxFaults
  BY DEF PublishFails, GiveUp
<1>2. held > 0 BY <1>1 DEF IInv, WorkerInPlace, TypeOK
<1>3. faults' \in 0..MaxFaults BY <1>1 DEF IInv, TypeOK
<1> QED BY <1>1, <1>2, <1>3, FinishIInv

LEMMA ApplyIInv == IInv /\ Apply => IInv'
<1> SUFFICES ASSUME IInv, Apply PROVE IInv' OBVIOUS
<1> DEFINE e == [n |-> held, r |-> row]
<1>1. /\ sent /\ log' = Append(log, e) /\ applied' = applied + 1
      /\ pc' = pc /\ queue' = queue /\ unfinished' = unfinished /\ held' = held
      /\ row' = row /\ sent' = sent /\ frames' = frames /\ fate' = fate
      /\ faults' \in 0..MaxFaults
  BY DEF Apply, session, history, IInv, TypeOK
<1>2. /\ held \in 1..Len(frames) /\ Len(frames[held]) \in Nat /\ held > 0
      /\ held <= Len(frames) - Len(queue) /\ fate[held] = "taken"
      /\ row \in 1..Len(frames[held]) /\ applied \in Nat
  <2>1. held > 0 /\ held \in 1..Len(frames) BY <1>1 DEF IInv, WorkerInPlace, TypeOK
  <2>2. Len(frames[held]) \in Nat BY <2>1, FrameRows DEF IInv
  <2> QED BY <1>1, <2>1, <2>2 DEF IInv, WorkerInPlace, TypeOK
<1>3. e \in Entry /\ e.n = held /\ e.r = row BY <1>2 DEF Entry
<1> HIDE DEF e
<1>4. /\ log' \in Seq(Entry) /\ Len(log') = Len(log) + 1 /\ Len(log) \in Nat
      /\ \A i \in 1..Len(log) : log'[i] = log[i]
      /\ log'[Len(log) + 1] = e
  BY <1>1, <1>3 DEF IInv, TypeOK
<1>5. TypeOK' BY <1>1, <1>2, <1>4 DEF IInv, TypeOK
<1>6. TasksBalanced' BY <1>1 DEF IInv, TasksBalanced
<1>7. QueueIsNewest' BY <1>1 DEF IInv, QueueIsNewest
<1>8. \A n : Events(n)' = IF n = held THEN Events(n) \cup {row} ELSE Events(n)
  BY EventsAfterApply DEF IInv
<1>9. PublishedInOrder'
  <2> SUFFICES ASSUME NEW i \in 1..Len(log'), NEW j \in 1..Len(log'), i < j
               PROVE  \/ log'[i].n < log'[j].n
                      \/ log'[i].n = log'[j].n /\ log'[i].r <= log'[j].r
    BY DEF PublishedInOrder
  <2>1. i \in 1..Len(log) /\ log'[i] = log[i] BY <1>4
  <2>2. CASE j \in 1..Len(log) BY <1>4, <2>1, <2>2 DEF IInv, PublishedInOrder
  <2>3. CASE j \notin 1..Len(log)
    <3>1. log'[j] = e BY <1>4, <2>3
    <3>2. /\ log[i].n \in Nat /\ log[i].n <= held
          /\ log[i].n = held => log[i].r <= row
      BY <1>2, <2>1, LogEntry DEF IInv, LogIsBehind
    <3> QED BY <1>2, <1>3, <2>1, <3>1, <3>2
  <2> QED BY <2>2, <2>3
<1>10. HandledIsPublished'
  <2> SUFFICES ASSUME NEW n \in 1..Len(frames)
               PROVE  /\ fate[n] = "handled" => Events(n)' = GoodRows(n)
                      /\ fate[n] \in {"queued", "dropped"} => Events(n)' = {}
    BY <1>1 DEF HandledIsPublished, GoodRows
  <2>1. CASE n = held BY <1>2, <2>1
  <2>2. CASE n # held BY <1>8, <2>2 DEF IInv, HandledIsPublished, GoodRows
  <2> QED BY <2>1, <2>2
<1>11. WorkerInPlace' BY <1>1, <1>2 DEF IInv, WorkerInPlace
<1>12. LogIsBehind'
  <2> SUFFICES ASSUME NEW i \in 1..Len(log')
               PROVE  /\ log'[i].n <= Len(frames) - Len(queue)
                      /\ log'[i].n <= held
                      /\ log'[i].n = held => log'[i].r <= row
    BY <1>1 DEF IInv, LogIsBehind
  <2>1. CASE i \in 1..Len(log) BY <1>2, <1>4, <2>1 DEF IInv, LogIsBehind
  <2>2. CASE i \notin 1..Len(log)
    <3>1. log'[i] = e BY <1>4, <2>2
    <3> QED BY <1>2, <1>3, <3>1
  <2> QED BY <2>1, <2>2
<1>13. RowsPassed'
  <2>1. PICK h \in 1..Len(frames) : h = held BY <1>2
  <2>2. Events(h)' = Events(h) \cup {row} /\ applied' > 0 BY <1>1, <1>2, <1>8, <2>1
  <2>3. ASSUME NEW r \in 1..Len(frames[h]), r < row
        PROVE  /\ frames[h][r] # "bad"
               /\ r \in Events(h)' <=> frames[h][r] = "quote"
    <3>1. r # row BY <1>2, <2>3
    <3> QED BY <1>2, <2>1, <2>2, <2>3, <3>1 DEF IInv, RowsPassed
  <2> QED BY <1>1, <2>1, <2>2, <2>3 DEF RowsPassed
<1> QED BY <1>5, <1>6, <1>7, <1>9, <1>10, <1>11, <1>12, <1>13 DEF IInv

LEMMA PublishedIInv == IInv /\ Published => IInv'
<1> SUFFICES ASSUME IInv, Published PROVE IInv' OBVIOUS
<1>1. /\ pc' = pc /\ queue' = queue /\ unfinished' = unfinished /\ held' = held
      /\ log' = log /\ faults' = faults /\ frames' = frames /\ fate' = fate
      /\ row' = row + 1 /\ sent' = FALSE /\ applied' = 0 /\ sent /\ applied > 0
  BY DEF Published, session, history
<1>2. /\ held \in 1..Len(frames) /\ Len(frames[held]) \in Nat /\ held > 0
      /\ row \in 1..Len(frames[held]) /\ frames[held][row] = "quote"
  <2>1. held > 0 /\ held \in 1..Len(frames) BY <1>1 DEF IInv, WorkerInPlace, TypeOK
  <2>2. Len(frames[held]) \in Nat BY <2>1, FrameRows DEF IInv
  <2> QED BY <1>1, <2>1, <2>2 DEF IInv, WorkerInPlace
<1>3. QueueIsNewest' /\ PublishedInOrder' /\ \A n : Events(n)' = Events(n)
  BY <1>1, Untouched
<1>4. TypeOK'
  <2>0. row \in Nat BY DEF IInv, TypeOK
  <2>a. row' = row + 1 /\ sent' = FALSE /\ applied' = 0 BY DEF Published
  <2>1. row' \in Nat /\ applied' \in Nat BY <2>0, <2>a
  <2>2. sent' \in BOOLEAN BY <2>a
  <2> QED BY <1>1, <2>1, <2>2 DEF IInv, TypeOK
<1>5. TasksBalanced' BY <1>1 DEF IInv, TasksBalanced
<1>6. HandledIsPublished' BY <1>1, <1>3 DEF IInv, HandledIsPublished
<1>7. WorkerInPlace' BY <1>1, <1>2 DEF IInv, WorkerInPlace
<1>8. \A i \in 1..Len(log) : log[i].n = held => log[i].r \in Nat /\ log[i].r <= row
  BY <1>2, LogEntry DEF IInv, LogIsBehind
<1>9. LogIsBehind'
  <2> SUFFICES ASSUME NEW i \in 1..Len(log), log[i].n = held PROVE log[i].r <= row + 1
    BY <1>1 DEF IInv, LogIsBehind
  <2> QED BY <1>2, <1>8
<1>10. row + 1 \notin Events(held)
  <2> SUFFICES ASSUME NEW i \in 1..Len(log), log[i].n = held PROVE log[i].r # row + 1
    BY DEF Events
  <2> QED BY <1>2, <1>8
<1>11. RowsPassed'
  <2> SUFFICES ASSUME NEW r \in 1..Len(frames[held]), r < row + 1
               PROVE  /\ frames[held][r] # "bad"
                      /\ r \in Events(held) <=> frames[held][r] = "quote"
    BY <1>1, <1>2, <1>3, <1>10 DEF RowsPassed
  <2>1. CASE r = row BY <1>1, <1>2, <2>1 DEF IInv, RowsPassed
  <2>2. CASE r # row
    <3>1. r < row BY <1>2, <2>2
    <3> QED BY <1>2, <3>1 DEF IInv, RowsPassed
  <2> QED BY <2>1, <2>2
<1> QED BY <1>3, <1>4, <1>5, <1>6, <1>7, <1>9, <1>11 DEF IInv

LEMMA EndSessionIInv == IInv /\ EndSession => IInv'
<1> SUFFICES ASSUME IInv, EndSession PROVE IInv' OBVIOUS
<1>1. /\ pc' = "leaving" /\ queue' = queue /\ unfinished' = unfinished /\ held' = held
      /\ row' = row /\ sent' = sent /\ applied' = applied /\ log' = log
      /\ frames' = frames /\ fate' = fate /\ faults' = faults + 1 /\ faults < MaxFaults
  BY DEF EndSession, worker, history
<1>2. TypeOK' BY <1>1 DEF IInv, TypeOK
<1>3. QueueIsNewest' /\ PublishedInOrder' /\ \A n : Events(n)' = Events(n)
  BY <1>1, Untouched
<1>4. TasksBalanced' BY <1>1 DEF IInv, TasksBalanced
<1>5. HandledIsPublished' BY <1>1, <1>3 DEF IInv, HandledIsPublished
<1>6. WorkerInPlace' BY <1>1 DEF IInv, WorkerInPlace
<1>7. LogIsBehind' BY <1>1 DEF IInv, LogIsBehind
<1>8. RowsPassed' BY <1>1, <1>3 DEF IInv, RowsPassed
<1> QED BY <1>2, <1>3, <1>4, <1>5, <1>6, <1>7, <1>8 DEF IInv

LEMMA JoinWorkerIInv == IInv /\ JoinWorker => IInv'
<1> SUFFICES ASSUME IInv, JoinWorker PROVE IInv' OBVIOUS
<1>1. /\ pc' = "down" /\ queue' = queue /\ held' = 0 /\ row' = 0 /\ sent' = FALSE
      /\ applied' = 0 /\ log' = log /\ faults' = faults /\ frames' = frames
      /\ unfinished' = IF held = 0 THEN unfinished ELSE unfinished - 1
      /\ fate' = [n \in DOMAIN fate |->
                     IF fate[n] \in {"queued", "taken"} THEN "abandoned" ELSE fate[n]]
  BY DEF JoinWorker
<1>2. DOMAIN fate = 1..Len(frames) /\ fate \in [1..Len(frames) -> Fates]
  BY DEF IInv, TypeOK
<1>3. unfinished' = Len(queue) /\ Len(queue) \in Nat
  BY <1>1 DEF IInv, TasksBalanced, TypeOK
<1>4. TypeOK'
  <2>1. fate' \in [1..Len(frames) -> Fates] BY <1>1, <1>2 DEF Fates
  <2>2. held' \in 0..Len(frames) BY <1>1 DEF IInv, TypeOK
  <2> QED BY <1>1, <1>3, <2>1, <2>2 DEF IInv, TypeOK
<1>5. QueueIsNewest' /\ PublishedInOrder' /\ \A n : Events(n)' = Events(n)
  BY <1>1, Untouched
<1>6. TasksBalanced' BY <1>1, <1>3 DEF TasksBalanced
<1>7. HandledIsPublished'
  <2>1. \A n \in 1..Len(frames) : fate'[n] = fate[n] \/ fate'[n] = "abandoned"
    BY <1>1, <1>2
  <2> QED BY <1>1, <1>5, <2>1 DEF IInv, HandledIsPublished
<1>8. WorkerInPlace' BY <1>1 DEF WorkerInPlace
<1>9. LogIsBehind' BY <1>1 DEF IInv, LogIsBehind
<1>10. RowsPassed' BY <1>1 DEF RowsPassed
<1> QED BY <1>4, <1>5, <1>6, <1>7, <1>8, <1>9, <1>10 DEF IInv

LEMMA NewSessionIInv == IInv /\ NewSession => IInv'
<1> SUFFICES ASSUME IInv, NewSession PROVE IInv' OBVIOUS
<1>0. held = 0 BY DEF NewSession, IInv, WorkerInPlace
<1>1. /\ pc' = "up" /\ queue' = <<>> /\ unfinished' = 0 /\ held' = held /\ row' = row
      /\ sent' = sent /\ applied' = applied /\ log' = log /\ faults' = faults
      /\ frames' = frames /\ fate' = fate
  BY DEF NewSession, worker, history
<1>2. Len(queue') = 0 /\ queue' \in Seq(Nat \ {0}) BY <1>1
<1>3. TypeOK' BY <1>1, <1>2 DEF IInv, TypeOK
<1>4. TasksBalanced' BY <1>0, <1>1, <1>2 DEF TasksBalanced
<1>5. QueueIsNewest' BY <1>2 DEF QueueIsNewest
<1>6. \A n : Events(n)' = Events(n) BY <1>1, EventsKept
<1>7. PublishedInOrder' BY <1>1 DEF IInv, PublishedInOrder
<1>8. HandledIsPublished' BY <1>1, <1>6 DEF IInv, HandledIsPublished
<1>9. WorkerInPlace' BY <1>0, <1>1 DEF IInv, WorkerInPlace
<1>10. LogIsBehind'
  <2> SUFFICES ASSUME NEW i \in 1..Len(log) PROVE log[i].n <= Len(frames) - 0
    BY <1>0, <1>1, <1>2 DEF LogIsBehind
  <2>1. log[i].n \in Nat /\ log[i].n <= Len(frames) - Len(queue)
    BY LogEntry DEF IInv, LogIsBehind
  <2>2. Len(queue) \in Nat /\ Len(frames) \in Nat BY DEF IInv, TypeOK
  <2> QED BY <2>1, <2>2
<1>11. RowsPassed' BY <1>0, <1>1 DEF RowsPassed
<1> QED BY <1>3, <1>4, <1>5, <1>7, <1>8, <1>9, <1>10, <1>11 DEF IInv

-----------------------------------------------------------------------------
LEMMA NextIInv == IInv /\ [Next]_vars => IInv'
<1> SUFFICES ASSUME IInv, [Next]_vars PROVE IInv' OBVIOUS
<1>1. CASE Handle BY <1>1, HandleIInv
<1>2. CASE Take BY <1>2, TakeIInv
<1>3. CASE PassRow BY <1>3, PassRowIInv
<1>4. CASE SendRow BY <1>4, SendRowIInv
<1>5. CASE EndFrame BY <1>5, EndFrameIInv
<1>6. CASE Apply BY <1>6, ApplyIInv
<1>7. CASE Published BY <1>7, PublishedIInv
<1>8. CASE PublishFails BY <1>8, PublishFailsIInv
<1>9. CASE EndSession BY <1>9, EndSessionIInv
<1>10. CASE JoinWorker BY <1>10, JoinWorkerIInv
<1>11. CASE NewSession BY <1>11, NewSessionIInv
<1>12. CASE UNCHANGED vars
  <2>1. UNCHANGED <<pc, queue, unfinished, held, row, sent, applied, log, faults, frames, fate>>
    BY <1>12 DEF vars, session, worker, history
  <2>2. \A n : Events(n)' = Events(n) BY <2>1, EventsKept
  <2> QED BY <2>1, <2>2 DEF IInv, TypeOK, TasksBalanced, QueueIsNewest, PublishedInOrder,
                        HandledIsPublished, WorkerInPlace, LogIsBehind, RowsPassed
<1> QED BY <1>1, <1>2, <1>3, <1>4, <1>5, <1>6, <1>7, <1>8, <1>9, <1>10, <1>11, <1>12
        DEF Next, Worker

LEMMA Invariance == Spec => []IInv
    BY InitIInv, NextIInv, PTL DEF Spec

(* The queue, the worker and the log keep their types; the queue never      *)
(* holds more than its maximum.                                            *)
THEOREM TypeCorrect == Spec => []TypeOK
<1>1. IInv => TypeOK BY DEF IInv
<1> QED BY <1>1, Invariance, PTL

(* Every frame that leaves the queue is counted off once (task_done in      *)
(* _quote_handler and in _publish_worker).                                 *)
THEOREM TasksAreBalanced == Spec => []TasksBalanced
<1>1. IInv => TasksBalanced BY DEF IInv
<1> QED BY <1>1, Invariance, PTL

(* What waits are the newest frames (the drop-oldest rule of                *)
(* _quote_handler).                                                        *)
THEOREM NewestWait == Spec => []QueueIsNewest
<1>1. IInv => QueueIsNewest BY DEF IInv
<1> QED BY <1>1, Invariance, PTL

(* Quotes reach the bus in the order Schwab sent them, over all sessions.   *)
THEOREM OrderIsKept == Spec => []PublishedInOrder
<1>1. IInv => PublishedInOrder BY DEF IInv
<1> QED BY <1>1, Invariance, PTL

(* A handled frame is on the bus up to its first row that cannot be         *)
(* converted, a dropped one not at all.                                    *)
THEOREM HandledFramesArePublished == Spec => []HandledIsPublished
<1>1. IInv => HandledIsPublished BY DEF IInv
<1> QED BY <1>1, Invariance, PTL
=============================================================================
