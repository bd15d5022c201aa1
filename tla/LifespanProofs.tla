--------------------------- MODULE LifespanProofs ---------------------------
(***************************************************************************)
(* Proofs about Lifespan, for any number of symbols and ticks of the stub: *)
(* connections are closed under no running task, and an orderly end leaves *)
(* none open.                                                              *)
(***************************************************************************)
EXTENDS Lifespan, TLAPS

USE LifespanAssumption DEF LifespanAssumption

Starting == {"redis", "history", "ensure", "tasks"}
Closing  == {"close_schwab", "close_redis", "close_history"}

\* Tasks run from the end of the startup until they have been awaited.
TasksInTheirTime ==
    /\ stage \in Starting => stub = "none" /\ stream = "none"
    /\ stage \in {"await_stub"} \cup Closing => ~StreamAlive
    /\ stage = "await_stub" => stub \notin {"sleep", "publish"}
    /\ stage \in Closing => stub \in {"none", "cancelled"}

\* What is still open at each statement of the shutdown.
ClosedInOrder ==
    /\ stage = "redis" => opened = {}
    /\ stage = "close_redis" => opened \subseteq {"redis", "history"}
    /\ stage = "close_history" => opened \subseteq {"history"}
    /\ stage # "down" => cause = "none"

TickUnderWay == stub = "publish" => tick < MaxTicks

IInv == TypeOK /\ TasksInTheirTime /\ ClosedInOrder /\ TickUnderWay /\ NothingLeftOpen

USE DEF Starting, Closing, StubAlive, StreamAlive

LEMMA InitIInv == Init => IInv
<1> SUFFICES ASSUME Init PROVE IInv OBVIOUS
<1>1. 0 \in 0..(StubSymbols - 1) /\ 0 \in 0..MaxTicks OBVIOUS
<1>2. TypeOK BY <1>1 DEF Init, TypeOK
<1>3. TasksInTheirTime /\ ClosedInOrder /\ TickUnderWay /\ NothingLeftOpen
  BY DEF Init, TasksInTheirTime, ClosedInOrder, TickUnderWay, NothingLeftOpen
<1> QED BY <1>2, <1>3 DEF IInv

\* An exception leaves the lifespan with its cause.
LEMMA LeaveStep ==
    ASSUME IInv, NEW why \in {"startup", "stub", "closer"}, Leave(why)
    PROVE  IInv'
    BY DEF IInv, TypeOK, TasksInTheirTime, ClosedInOrder, TickUnderWay, NothingLeftOpen, Leave

LEMMA StartupStep ==
    ASSUME IInv, OpenRedis \/ OpenHistory \/ NoHistory \/ EnsureStream \/ NoStream \/ StartTasks
    PROVE  IInv'
<1> USE DEF IInv, TypeOK, TasksInTheirTime, ClosedInOrder, TickUnderWay, NothingLeftOpen
<1>1. CASE OpenRedis BY <1>1 DEF OpenRedis
<1>2. CASE OpenHistory BY <1>2 DEF OpenHistory
<1>3. CASE NoHistory \/ NoStream BY <1>3, LeaveStep DEF NoHistory, NoStream
<1>4. CASE EnsureStream BY <1>4 DEF EnsureStream
<1>5. CASE StartTasks BY <1>5 DEF StartTasks
<1> QED BY <1>1, <1>2, <1>3, <1>4, <1>5

LEMMA StubStep ==
    ASSUME IInv, Stub, stage # "down"
    PROVE  IInv'
<1> USE DEF IInv, TypeOK, TasksInTheirTime, ClosedInOrder, TickUnderWay, NothingLeftOpen
<1>1. CASE StubWakes BY <1>1 DEF StubWakes
<1>2. CASE StubPublishes
  <2>1. /\ sent \in 0..(StubSymbols - 1) /\ tick \in 0..MaxTicks
        /\ stub = "publish" /\ tick < MaxTicks
    BY <1>2 DEF StubPublishes, TickUnderWay
  <2>2. sent' \in 0..(StubSymbols - 1) /\ tick' \in 0..MaxTicks
    BY <1>2, <2>1 DEF StubPublishes, LastOfTick
  <2> QED BY <1>2, <2>2 DEF StubPublishes, LastOfTick
<1>3. CASE StubFails BY <1>3 DEF StubFails
<1>4. CASE StubEnds BY <1>4 DEF StubEnds
<1> QED BY <1>1, <1>2, <1>3, <1>4 DEF Stub

LEMMA StreamStep ==
    ASSUME IInv, Stream \/ SessionFails \/ Stop, stage # "down"
    PROVE  IInv'
<1> USE DEF IInv, TypeOK, TasksInTheirTime, ClosedInOrder, TickUnderWay, NothingLeftOpen
<1>1. CASE SessionFails BY <1>1 DEF SessionFails
<1>2. CASE SessionComesBack BY <1>2 DEF SessionComesBack
<1>3. CASE StreamEnds BY <1>3 DEF StreamEnds
<1>4. CASE Stop BY <1>4 DEF Stop, Cancelled
<1> QED BY <1>1, <1>2, <1>3, <1>4 DEF Stream

LEMMA ShutdownStep ==
    ASSUME IInv, StreamGone \/ StubGone \/ StubRaises \/ CloseSchwab \/ CloseRedis
                 \/ CloseHistory \/ CloserRaises
    PROVE  IInv'
<1> USE DEF IInv, TypeOK, TasksInTheirTime, ClosedInOrder, TickUnderWay, NothingLeftOpen
<1>1. CASE StreamGone BY <1>1 DEF StreamGone, StreamAwaited
<1>2. CASE StubGone BY <1>2 DEF StubGone, StubAwaited
<1>3. CASE StubRaises \/ CloserRaises BY <1>3, LeaveStep DEF StubRaises, CloserRaises
<1>4. CASE CloseSchwab BY <1>4 DEF CloseSchwab, ClosedSchwab
<1>5. CASE CloseRedis BY <1>5 DEF CloseRedis
<1>6. CASE CloseHistory BY <1>6 DEF CloseHistory
<1> QED BY <1>1, <1>2, <1>3, <1>4, <1>5, <1>6

LEMMA NextIInv == IInv /\ [Next]_vars => IInv'
<1> SUFFICES ASSUME IInv, [Next]_vars PROVE IInv' OBVIOUS
<1>1. CASE Next BY <1>1, StartupStep, StubStep, StreamStep, ShutdownStep DEF Next, Main
<1>2. CASE UNCHANGED vars
  BY <1>2 DEF vars, IInv, TypeOK, TasksInTheirTime, ClosedInOrder, TickUnderWay, NothingLeftOpen
<1> QED BY <1>1, <1>2

LEMMA Invariance == Spec => []IInv
    BY InitIInv, NextIInv, PTL DEF Spec

(* The settings, the stage of the lifespan, its connections and its tasks   *)
(* keep their types; the stub never publishes more than a tick's symbols.   *)
THEOREM TypeCorrect == Spec => []TypeOK
<1>1. IInv => TypeOK BY DEF IInv
<1> QED BY <1>1, Invariance, PTL

(* A lifespan that ends without an exception has closed everything and      *)
(* left no task running (the shutdown code of main.py).                     *)
THEOREM OrderlyEndIsClean == Spec => []NothingLeftOpen
<1>1. IInv => NothingLeftOpen BY DEF IInv
<1> QED BY <1>1, Invariance, PTL

\* Only the shutdown closes something, after the tasks.
LEMMA CloseStep ==
    ASSUME IInv, [Next]_vars, opened' \subseteq opened, opened' # opened
    PROVE  ~StubAlive /\ ~StreamAlive
<1>1. stage \in Closing
  BY DEF IInv, ClosedInOrder, vars, Next, Main, Stop, Stub, Stream, OpenRedis, OpenHistory, NoHistory,
         EnsureStream, NoStream, StartTasks, StubWakes, StubPublishes, StubFails, StubEnds, SessionFails,
         SessionComesBack, StreamEnds, StreamGone, StubGone, StubRaises, CloseSchwab, CloseRedis,
         CloseHistory, CloserRaises, Leave
<1> QED BY <1>1 DEF IInv, TasksInTheirTime

(* No connection is closed under a task that uses it, whatever failed       *)
(* before and however the tasks end.                                        *)
THEOREM TasksEndFirst == Spec => NoTaskOutlivesConnections
<1>1. IInv /\ [Next]_vars =>
        [opened' \subseteq opened /\ opened' # opened => ~StubAlive /\ ~StreamAlive]_vars
  BY CloseStep
<1> QED BY <1>1, Invariance, PTL DEF Spec, NoTaskOutlivesConnections
=============================================================================
