------------------------ MODULE StreamRunnerProofs ------------------------
(***************************************************************************)
(* Proofs about StreamRunner, for every set of clients, symbols and        *)
(* payloads and every size of replace_queue.                               *)
(***************************************************************************)
EXTENDS StreamRunner, TLAPS, SequenceTheorems

(* What put leaves in a queue q: p at its end and one element more.        *)
LEMMA PutFacts ==
    ASSUME NEW S, NEW q \in Seq(S), NEW p \in S
    PROVE  /\ Append(q, p) \in Seq(S)
           /\ Append(q, p) # <<>>
           /\ Len(Append(q, p)) = Len(q) + 1
           /\ Append(q, p)[Len(Append(q, p))] = p
<1>1. /\ Append(q, p) \in Seq(S)
      /\ Len(Append(q, p)) = Len(q) + 1
      /\ Append(q, p)[Len(q) + 1] = p
  BY AppendProperties
<1>2. Append(q, p) # <<>>
  BY <1>1, AppendProperties
<1>3. QED
  BY <1>1, <1>2

(* What get takes from a queue q and leaves there: its last element stays  *)
(* the last, or is the one taken.                                          *)
LEMMA GetFacts ==
    ASSUME NEW S, NEW q \in Seq(S), q # <<>>
    PROVE  /\ Head(q) \in S
           /\ Tail(q) \in Seq(S)
           /\ Len(Tail(q)) = Len(q) - 1
           /\ Tail(q) # <<>> => Tail(q)[Len(Tail(q))] = q[Len(q)]
           /\ Tail(q) = <<>> => Head(q) = q[Len(q)]
<1>1. /\ Head(q) \in S
      /\ Tail(q) \in Seq(S)
      /\ Len(Tail(q)) = Len(q) - 1
      /\ \A i \in 1..Len(Tail(q)) : Tail(q)[i] = q[i + 1]
  BY HeadTailProperties
<1>2. Len(q) \in Nat /\ Len(Tail(q)) \in Nat /\ Head(q) = q[1]
  BY <1>1, LenProperties
<1>3. ASSUME Tail(q) # <<>> PROVE Tail(q)[Len(Tail(q))] = q[Len(q)]
  <2>1. Len(Tail(q)) # 0
    BY <1>1, <1>3, EmptySeq
  <2>2. Len(Tail(q)) \in 1..Len(Tail(q)) /\ Len(Tail(q)) + 1 = Len(q)
    BY <2>1, <1>1, <1>2
  <2>3. QED
    BY <2>2, <1>1
<1>4. ASSUME Tail(q) = <<>> PROVE Head(q) = q[Len(q)]
  <2>0. Len(Tail(q)) = 0
    BY <1>1, <1>4, EmptySeq
  <2>1. Len(q) = 1
    BY <2>0, <1>1, <1>2
  <2>2. QED
    BY <2>1, <1>2
<1>5. QED
  BY <1>1, <1>3, <1>4

(* The startup state satisfies the invariant.                              *)
LEMMA InitInv == Init => IInv
<1> SUFFICES ASSUME Init PROVE IInv
  OBVIOUS
<1>1. Nothing \in Lists
  BY DEF Nothing, Lists
<1>2. queue \in Seq(Payload) /\ Len(queue) <= QMax
  BY BoundAssumption DEF Init
<1>3. cpc \in [Client -> {"idle", "blocked"}] /\ cbody \in [Client -> Lists]
  BY <1>1 DEF Init
<1>4. puts \in 0..MaxPuts /\ faults \in 0..MaxFaults
  BY BoundAssumption DEF Init
<1>5. TypeOK
  BY <1>1, <1>2, <1>3, <1>4, PayloadAssumption DEF Init, TypeOK, Labels
<1>6. QED
  BY <1>5 DEF Init, IInv, TasksInLoop, PartlySubscribed, SessionMatchesIntent,
              NewestIsNotOvertaken

(* Every step keeps every variable in its type, the queue within QMax.     *)
LEMMA TypeStep == IInv /\ [Next]_vars => TypeOK'
<1> SUFFICES ASSUME IInv, [Next]_vars PROVE TypeOK'
  OBVIOUS
<1>0. Nothing \in Lists /\ Payload \subseteq Lists \ {Nothing}
  BY PayloadAssumption DEF Nothing, Lists
<1>f. Fault => faults' \in 0..MaxFaults
  BY BoundAssumption DEF IInv, TypeOK, Fault
<1>s. ASSUME NEW s \in Service, NEW v \in SUBSET Key
      PROVE [subs EXCEPT ![s] = v] \in Lists
  BY DEF IInv, TypeOK, Lists
<1>l. current \in Lists /\ old \in Lists /\ subs \in Lists
  BY DEF IInv, TypeOK
<1>v. ASSUME NEW s \in Service
      PROVE current[s] \in SUBSET Key /\ Apply(s) \in SUBSET Key
  BY <1>l DEF Lists, Apply
<1>p. ASSUME NEW p \in Payload, Enqueue(p)
      PROVE /\ queue' \in Seq(Payload) /\ Len(queue') <= QMax
            /\ latest' \in Lists /\ lost' \in BOOLEAN
  <2>1. queue \in Seq(Payload) /\ Len(queue) \in Nat /\ Len(queue) < QMax
    BY <1>p, LenProperties DEF IInv, TypeOK, Enqueue, Room
  <2>2. queue' \in Seq(Payload) /\ Len(queue') = Len(queue) + 1
    BY <2>1, <1>p, PutFacts DEF Enqueue
  <2>3. Len(queue') <= QMax
    BY <2>1, <2>2, BoundAssumption
  <2>4. QED
    BY <2>2, <2>3, <1>p, <1>0 DEF Enqueue
<1> USE <1>0 DEF IInv, TypeOK, Labels, session, tasks, clients
<1>1. CASE Login
  <2>1. Wanted(current) \subseteq Service
    BY DEF Wanted
  <2>2. QED
    BY <1>1, <1>f, <2>1 DEF Login, Raise, NoTasks
<1>2. CASE Subscribe
  <2>1. CASE UNCHANGED <<subs, todo>>
    BY <1>2, <1>f, <2>1 DEF Subscribe, Raise, NoTasks
  <2>2. ASSUME NEW s \in todo,
               subs' = [subs EXCEPT ![s] = current[s]],
               todo' = todo \ {s},
               UNCHANGED <<pc, read, ctrl, got, failed, faults>>
        PROVE  TypeOK'
    <3>1. subs' \in Lists
      BY <2>2, <1>s, <1>v
    <3>2. QED
      BY <1>2, <2>2, <3>1 DEF Subscribe
  <2>3. QED
    BY <1>2, <2>1, <2>2 DEF Subscribe
<1>3. CASE Subscribed
  BY <1>3 DEF Subscribed, Loop
<1>4. CASE TakePayload
  <2>1. CASE queue # <<>> /\ ctrl' = "done" /\ got' = Oldest /\ queue' = Tail(queue)
    <3>1. /\ Head(queue) \in Payload
          /\ queue' \in Seq(Payload)
          /\ Len(queue') = Len(queue) - 1
      BY <2>1, GetFacts
    <3>2. Len(queue') <= QMax
      BY <3>1, BoundAssumption, LenProperties
    <3>3. QED
      BY <1>4, <2>1, <3>1, <3>2 DEF TakePayload, Oldest
  <2>2. CASE ctrl' = "waiting" /\ UNCHANGED <<got, queue>>
    BY <1>4, <2>2 DEF TakePayload
  <2>3. QED
    BY <1>4, <2>1, <2>2 DEF TakePayload
<1>5. CASE WakeAndRaise
  BY <1>5 DEF WakeAndRaise, Raise, NoTasks
<1>6. CASE WakeNoChange
  BY <1>6 DEF WakeNoChange, Loop
<1>7. CASE WakeAndChange
  <2>1. Changed(current, got) \subseteq Service
    BY DEF Changed
  <2>2. QED
    BY <1>7, <2>1 DEF WakeAndChange, NoTasks
<1>8. CASE WakeAfterRead
  BY <1>8 DEF WakeAfterRead, Raise, Loop, NoTasks
<1>9. CASE ApplyChange
  <2>1. CASE UNCHANGED <<subs, todo>>
    BY <1>9, <1>f, <2>1 DEF ApplyChange, Raise, NoTasks
  <2>2. ASSUME NEW s \in todo,
               subs' = [subs EXCEPT ![s] = Apply(s)],
               todo' = todo \ {s},
               UNCHANGED <<pc, read, ctrl, got, failed, faults>>
        PROVE  TypeOK'
    <3>1. subs' \in Lists
      BY <2>2, <1>s, <1>v
    <3>2. QED
      BY <1>9, <2>2, <3>1 DEF ApplyChange
  <2>3. QED
    BY <1>9, <2>1, <2>2 DEF ApplyChange
<1>10. CASE JoinWorker \/ Logout \/ Reconnect
  BY <1>10 DEF JoinWorker, Logout, AfterLogout, Reconnect
<1>11. CASE ReadFrame
  BY <1>11, <1>f DEF ReadFrame
<1>12. CASE Shutdown
  BY <1>12 DEF Shutdown, CancelSession, CancelWhileJoining, CancelCleanup, NoTasks
<1>13. ASSUME NEW c \in Client, Put(c) PROVE TypeOK'
  <2>1. puts' \in 0..MaxPuts
    BY <1>13, BoundAssumption DEF Put
  <2>2. PICK p \in Payload :
           \/ Enqueue(p) /\ UNCHANGED clients
           \/ /\ cpc' = [cpc EXCEPT ![c] = "blocked"]
              /\ cbody' = [cbody EXCEPT ![c] = p]
              /\ UNCHANGED <<queue, latest, lost>>
    BY <1>13 DEF Put
  <2>3. CASE Enqueue(p) /\ UNCHANGED clients
    BY <1>13, <1>p, <2>1, <2>3 DEF Put
  <2>4. CASE /\ cpc' = [cpc EXCEPT ![c] = "blocked"]
             /\ cbody' = [cbody EXCEPT ![c] = p]
             /\ UNCHANGED <<queue, latest, lost>>
    BY <1>13, <2>1, <2>4 DEF Put
  <2>5. QED
    BY <2>2, <2>3, <2>4
<1>14. ASSUME NEW c \in Client, PutResumes(c) PROVE TypeOK'
  <2>1. cbody[c] \in Payload /\ Enqueue(cbody[c])
    BY <1>14 DEF PutResumes
  <2>2. QED
    BY <1>14, <2>1, <1>p DEF PutResumes
<1>15. CASE UNCHANGED vars
  BY <1>15 DEF vars
<1>16. QED
  BY <1>1, <1>2, <1>3, <1>4, <1>5, <1>6, <1>7, <1>8, <1>9, <1>10, <1>11, <1>12,
     <1>13, <1>14, <1>15 DEF Next, Runner, Wake

(* read_task and ctrl_task are finished or cancelled whenever the runner   *)
(* leaves the multiplex loop.                                              *)
LEMMA TasksStep == IInv /\ [Next]_vars => TasksInLoop'
<1> SUFFICES ASSUME IInv, [Next]_vars PROVE TasksInLoop'
  OBVIOUS
<1> USE DEF IInv, TasksInLoop, session, tasks, clients
<1>1. CASE Login \/ Subscribe \/ Subscribed \/ ApplyChange
  BY <1>1 DEF Login, Subscribe, Subscribed, ApplyChange, Raise, Loop, NoTasks
<1>2. CASE TakePayload \/ ReadFrame
  BY <1>2 DEF TakePayload, ReadFrame
<1>3. CASE Wake
  BY <1>3 DEF Wake, WakeAndRaise, WakeNoChange, WakeAndChange, WakeAfterRead, Woken,
              Raise, Loop, NoTasks
<1>4. CASE JoinWorker \/ Logout \/ Reconnect
  BY <1>4 DEF JoinWorker, Logout, Reconnect
<1>5. CASE Shutdown
  BY <1>5 DEF Shutdown, CancelSession, CancelWhileJoining, CancelCleanup, NoTasks
<1>6. ASSUME NEW c \in Client, Put(c) \/ PutResumes(c) PROVE TasksInLoop'
  BY <1>6 DEF Put, PutResumes
<1>7. CASE UNCHANGED vars
  BY <1>7 DEF vars
<1>8. QED
  BY <1>1, <1>2, <1>3, <1>4, <1>5, <1>6, <1>7 DEF Next, Runner

(* Going through the services one at a time, those done match the intent.  *)
LEMMA PartlyStep == IInv /\ [Next]_vars => PartlySubscribed'
<1> SUFFICES ASSUME IInv, [Next]_vars PROVE PartlySubscribed'
  OBVIOUS
<1> USE DEF IInv, TypeOK, Lists, PartlySubscribed, session, tasks, clients
<1>1. CASE Login
  BY <1>1 DEF Login, Wanted, Raise, Nothing
<1>2. CASE Subscribe
  BY <1>2 DEF Subscribe, Raise
<1>3. CASE Subscribed
  BY <1>3 DEF Subscribed, Loop
<1>4. CASE TakePayload \/ ReadFrame
  BY <1>4 DEF TakePayload, ReadFrame
<1>5. CASE WakeAndChange
  BY <1>5 DEF WakeAndChange, Woken, Changed, SessionMatchesIntent
<1>6. CASE WakeAndRaise \/ WakeNoChange \/ WakeAfterRead
  BY <1>6 DEF WakeAndRaise, WakeNoChange, WakeAfterRead, Raise, Loop
<1>7. CASE ApplyChange
  BY <1>7 DEF ApplyChange, Apply, Raise
<1>8. CASE JoinWorker \/ Logout \/ Reconnect
  BY <1>8 DEF JoinWorker, Logout, AfterLogout, Reconnect
<1>9. CASE Shutdown
  BY <1>9 DEF Shutdown, CancelSession, CancelWhileJoining, CancelCleanup
<1>10. ASSUME NEW c \in Client, Put(c) \/ PutResumes(c) PROVE PartlySubscribed'
  BY <1>10 DEF Put, PutResumes
<1>11. CASE UNCHANGED vars
  BY <1>11 DEF vars
<1>12. QED
  BY <1>1, <1>2, <1>3, <1>4, <1>5, <1>6, <1>7, <1>8, <1>9, <1>10, <1>11
  DEF Next, Runner, Wake

(* The loop is entered with every service done and left to change them.    *)
LEMMA MatchStep == IInv /\ [Next]_vars => SessionMatchesIntent'
<1> SUFFICES ASSUME IInv, [Next]_vars PROVE SessionMatchesIntent'
  OBVIOUS
<1> USE DEF IInv, SessionMatchesIntent, session, tasks, clients
<1>1. CASE Subscribed
  <2>1. \A s \in Service : subs[s] = current[s]
    BY <1>1 DEF Subscribed, PartlySubscribed
  <2>2. subs = current
    BY <2>1 DEF TypeOK, Lists
  <2>3. QED
    BY <1>1, <2>2 DEF Subscribed, Loop
<1>2. CASE Login \/ Subscribe \/ ApplyChange
  BY <1>2 DEF Login, Subscribe, ApplyChange, Raise
<1>3. CASE TakePayload \/ ReadFrame
  BY <1>3 DEF TakePayload, ReadFrame
<1>4. CASE Wake
  BY <1>4 DEF Wake, WakeAndRaise, WakeNoChange, WakeAndChange, WakeAfterRead, Woken,
              Raise, Loop
<1>5. CASE JoinWorker \/ Logout \/ Reconnect
  BY <1>5 DEF JoinWorker, Logout, AfterLogout, Reconnect
<1>6. CASE Shutdown
  BY <1>6 DEF Shutdown, CancelSession, CancelWhileJoining, CancelCleanup
<1>7. ASSUME NEW c \in Client, Put(c) \/ PutResumes(c) PROVE SessionMatchesIntent'
  BY <1>7 DEF Put, PutResumes
<1>8. CASE UNCHANGED vars
  BY <1>8 DEF vars
<1>9. QED
  BY <1>1, <1>2, <1>3, <1>4, <1>5, <1>6, <1>7, <1>8 DEF Next, Runner

(* The newest accepted lists move from the queue to ctrl_task and from it  *)
(* to the intent, and nothing older passes them.                           *)
LEMMA NewestStep == IInv /\ [Next]_vars => NewestIsNotOvertaken'
<1> SUFFICES ASSUME IInv, [Next]_vars PROVE NewestIsNotOvertaken'
  OBVIOUS
<1> USE DEF IInv, NewestIsNotOvertaken, session, tasks, clients
<1>1. CASE Login \/ Subscribe \/ Subscribed \/ ApplyChange
  BY <1>1 DEF Login, Subscribe, Subscribed, ApplyChange, Raise, Loop, NoTasks,
              TasksInLoop
<1>2. CASE TakePayload
  <2>1. CASE queue # <<>> /\ got' = Oldest /\ queue' = Tail(queue) /\ ctrl' = "done"
    BY <1>2, <2>1, GetFacts DEF TakePayload, Oldest, TypeOK
  <2>2. CASE queue = <<>> /\ ctrl = "new" /\ ctrl' = "waiting" /\ UNCHANGED <<got, queue>>
    BY <1>2, <2>2 DEF TakePayload
  <2>3. QED
    BY <1>2, <2>1, <2>2 DEF TakePayload
<1>3. CASE ReadFrame
  BY <1>3 DEF ReadFrame
<1>4. CASE WakeAndRaise
  BY <1>4 DEF WakeAndRaise, Woken, Raise, NoTasks, TypeOK
<1>5. CASE WakeNoChange
  BY <1>5 DEF WakeNoChange, Loop
<1>6. CASE WakeAndChange
  BY <1>6 DEF WakeAndChange, NoTasks
<1>7. CASE WakeAfterRead
  BY <1>7 DEF WakeAfterRead, Raise, Loop, NoTasks
<1>8. CASE JoinWorker \/ Logout \/ Reconnect
  BY <1>8 DEF JoinWorker, Logout, Reconnect
<1>9. CASE Shutdown
  BY <1>9 DEF Shutdown
<1>10. ASSUME NEW c \in Client, Put(c) PROVE NewestIsNotOvertaken'
  BY <1>10, PutFacts DEF Put, Enqueue, TypeOK
<1>11. ASSUME NEW c \in Client, PutResumes(c) PROVE NewestIsNotOvertaken'
  BY <1>11, PutFacts DEF PutResumes, Enqueue, TypeOK
<1>12. CASE UNCHANGED vars
  BY <1>12 DEF vars
<1>13. QED
  BY <1>1, <1>2, <1>3, <1>4, <1>5, <1>6, <1>7, <1>8, <1>9, <1>10, <1>11, <1>12
  DEF Next, Runner, Wake

-----------------------------------------------------------------------------
(* The inductive invariant holds of every behaviour.                       *)
THEOREM Invariance == Spec => []IInv
<1>1. IInv /\ [Next]_vars => IInv'
  BY TypeStep, TasksStep, PartlyStep, MatchStep, NewestStep DEF IInv
<1>2. QED
  BY InitInv, <1>1, PTL DEF Spec

(* Type correctness: replace_queue never holds more than QMax payloads.    *)
THEOREM TypeCorrect == Spec => []TypeOK
BY Invariance, PTL DEF IInv

(* While frames are read, the session is subscribed to exactly the intent. *)
THEOREM SessionMatches == Spec => []SessionMatchesIntent
BY Invariance, PTL DEF IInv

(* handle_message never shares the WebSocket with SUBS or UNSUBS.          *)
THEOREM OneReader == Spec => []NoReadDuringSubscribe
<1>1. IInv => NoReadDuringSubscribe
  BY DEF IInv, TasksInLoop, NoReadDuringSubscribe
<1>2. QED
  BY Invariance, <1>1, PTL

(* The newest accepted symbol lists are never overtaken by older ones.     *)
THEOREM NewestWins == Spec => []NewestIsNotOvertaken
BY Invariance, PTL DEF IInv
=============================================================================
