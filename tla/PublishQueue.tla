---------------------------- MODULE PublishQueue ----------------------------
(***************************************************************************)
(* From a frame of the Schwab WebSocket to events of the bus.              *)
(*                                                                         *)
(*   _quote_handler, _publish_worker   schwab/stream_equity_runner.py      *)
(*   row conversion                    schwab/stream_equity_normalize.py   *)
(*   publish_equity_quote, ...         app/services/quote_stream_publisher *)
(*                                                                         *)
(* handle_message calls the handler, which puts the frame on a bounded     *)
(* queue and throws the oldest one away when it is full.  One worker per   *)
(* session takes frames and publishes their rows with XADD.  Frames are    *)
(* numbered in the order they arrive, over all sessions; an entry of the   *)
(* stream is [n |-> frame, r |-> row].                                      *)
(***************************************************************************)
EXTENDS EventStream

CONSTANTS
    Frame,      \* the frames that come, as sequences of rows
    QueueMax,   \* _SCHWAB_STREAM_PUBLISH_QUEUE_MAX
    MaxFrames,  \* bound: frames in one behaviour
    MaxFaults   \* bound: sessions that end, XADDs that raise or are repeated

\* What a row turns out to be: an event, a row without a symbol, or one that
\* raises while it is converted (an impossible date, an infinite size).
RowKind == {"quote", "blank", "bad"}

ASSUME QueueAssumption == /\ Frame \subseteq Seq(RowKind)
                          /\ QueueMax \in Nat \ {0}
                          /\ MaxFrames \in Nat /\ MaxFaults \in Nat

VARIABLES
    pc,         \* the runner: "up" (reads frames), "leaving" (cleanup), "down"
    queue,      \* publish_queue: numbers of frames
    unfinished, \* its counter of unfinished tasks
    held,       \* the frame the worker has in hand, or 0
    row,        \* the row of it the worker looks at
    sent,       \* the worker awaits the XADD of that row
    applied,    \* how often Redis has carried that XADD out
    faults,     \* what MaxFaults counts
    frames,     \* history: the frames that came
    fate        \* history: what became of each

session == <<pc, queue, unfinished>>
worker  == <<held, row, sent, applied>>
history == <<frames, fate>>
vars    == <<session, worker, log, faults, history>>

Fates == {"queued", "taken", "handled", "failed", "dropped", "abandoned"}

\* Plausible slips, for mutation runs.
NewestOut(q) == IF Len(q) = QueueMax THEN SubSeq(q, 1, Len(q) - 1) ELSE q
ReleasedByWorkerOnly(n) == 0
BadPassed == {"blank", "bad"}

\* The queue once there is room: the oldest frame goes when it is full.
MakeRoom(q) == IF Len(q) = QueueMax THEN Tail(q) ELSE q

\* put_nowait of frame n, for which there is room then.
Entered(n) == Append(MakeRoom(queue), n)

\* task_done for the n frames that were thrown away.
TasksDropped(n) == n

\* Rows that are passed over; a bad one ends its frame.
Passed == {"blank"}

\* task_done: frame n is out of the worker's hand.
Finish(n, end) ==
    /\ unfinished' = unfinished - 1
    /\ fate' = [fate EXCEPT ![n] = end]
    /\ row' = 0 /\ sent' = FALSE /\ applied' = 0

RetryFrame(n) == /\ held' = n /\ row' = 1 /\ sent' = FALSE /\ applied' = 0
                 /\ UNCHANGED <<unfinished, fate>>

\* An XADD of frame n raised: the rest of the frame is given up, and the
\* worker is free for the next one.
GiveUp(n) == Finish(n, "failed") /\ held' = 0

-----------------------------------------------------------------------------
Init ==
    /\ pc = "up" /\ queue = <<>> /\ unfinished = 0
    /\ held = 0 /\ row = 0 /\ sent = FALSE /\ applied = 0
    /\ log = <<>> /\ faults = 0
    /\ frames = <<>> /\ fate = [n \in 1..Len(frames) |-> "queued"]

\* handle_message hands a frame to _quote_handler, which does not await.
Handle ==
    LET new     == Len(frames) + 1
        kept    == MakeRoom(queue)
        dropped == {queue[i] : i \in 1..Len(queue)} \ {kept[i] : i \in 1..Len(kept)}
    IN
    /\ pc = "up"
    /\ Len(frames) < MaxFrames
    /\ \E f \in Frame : frames' = Append(frames, f)
    /\ queue' = Entered(new)
    /\ unfinished' = unfinished - TasksDropped(Len(queue) - Len(kept)) + 1
    /\ fate' = [n \in 1..new |-> IF n = new THEN "queued"
                                 ELSE IF n \in dropped THEN "dropped" ELSE fate[n]]
    /\ UNCHANGED <<pc, worker, log, faults>>

\* publish_queue.get() returns.
Take ==
    /\ pc = "up" /\ held = 0
    /\ queue # <<>>
    /\ held' = Head(queue) /\ row' = 1
    /\ queue' = Tail(queue)
    /\ fate' = [fate EXCEPT ![Head(queue)] = "taken"]
    /\ UNCHANGED <<pc, unfinished, sent, applied, log, faults, frames>>

\* The worker at a row: a row without a symbol is passed over ...
PassRow ==
    /\ pc = "up" /\ held > 0 /\ ~sent
    /\ row <= Len(frames[held]) /\ frames[held][row] \in Passed
    /\ row' = row + 1
    /\ UNCHANGED <<session, held, sent, applied, log, faults, history>>

\* ... a quote is published ...
SendRow ==
    /\ pc = "up" /\ held > 0 /\ ~sent
    /\ row <= Len(frames[held]) /\ frames[held][row] = "quote"
    /\ sent' = TRUE
    /\ UNCHANGED <<session, held, row, applied, log, faults, history>>

\* ... and the frame ends after its last row, or at one that raises.
EndFrame ==
    /\ pc = "up" /\ held > 0 /\ ~sent
    /\ row <= Len(frames[held]) => frames[held][row] \notin Passed \cup {"quote"}
    /\ Finish(held, "handled")
    /\ held' = 0
    /\ UNCHANGED <<pc, queue, log, faults, frames>>

\* Redis carries out the XADD; redis-py repeats a call whose connection
\* broke, also one that was carried out.
Apply ==
    /\ sent
    /\ \/ applied = 0 /\ faults' = faults
       \/ applied > 0 /\ faults < MaxFaults /\ faults' = faults + 1
    /\ log' = Append(log, [n |-> held, r |-> row])
    /\ applied' = applied + 1
    /\ UNCHANGED <<session, held, row, sent, history>>

\* XADD returns to the worker.
Published ==
    /\ pc = "up" /\ sent
    /\ applied > 0
    /\ row' = row + 1 /\ sent' = FALSE /\ applied' = 0
    /\ UNCHANGED <<session, held, log, faults, history>>

\* XADD raises, carried out or not.
PublishFails ==
    /\ pc = "up" /\ sent
    /\ faults < MaxFaults
    /\ faults' = faults + 1
    /\ GiveUp(held)
    /\ UNCHANGED <<pc, queue, log, frames>>

\* An error or a cancel ends the session: worker_task.cancel().
EndSession ==
    /\ pc = "up"
    /\ faults < MaxFaults
    /\ faults' = faults + 1
    /\ pc' = "leaving"
    /\ UNCHANGED <<queue, unfinished, worker, log, history>>

\* await worker_task: the cancel reaches it in get() or in XADD.
JoinWorker ==
    /\ pc = "leaving"
    /\ pc' = "down"
    /\ held' = 0 /\ row' = 0 /\ sent' = FALSE /\ applied' = 0
    /\ unfinished' = IF held = 0 THEN unfinished ELSE unfinished - 1
    /\ fate' = [n \in DOMAIN fate |->
                   IF fate[n] \in {"queued", "taken"} THEN "abandoned" ELSE fate[n]]
    /\ UNCHANGED <<queue, log, faults, frames>>

\* Backoff, logout and login: a new queue and a new worker.
NewSession ==
    /\ pc = "down"
    /\ pc' = "up"
    /\ queue' = <<>> /\ unfinished' = 0
    /\ UNCHANGED <<worker, log, faults, history>>

\* What happens by itself: asyncio runs the worker, Redis carries commands out.
Worker == Take \/ PassRow \/ SendRow \/ EndFrame \/ Apply \/ Published \/ JoinWorker

Next == Handle \/ Worker \/ PublishFails \/ EndSession \/ NewSession

Spec == Init /\ [][Next]_vars

-----------------------------------------------------------------------------
Entry == [n : Nat \ {0}, r : Nat \ {0}]

TypeOK ==
    /\ pc \in {"up", "leaving", "down"}
    /\ frames \in Seq(Frame) /\ Len(frames) <= MaxFrames
    /\ fate \in [1..Len(frames) -> Fates]
    /\ queue \in Seq(Nat \ {0}) /\ Len(queue) <= QueueMax
    /\ unfinished \in Nat
    /\ held \in 0..Len(frames)
    /\ row \in Nat
    /\ sent \in BOOLEAN
    /\ applied \in Nat
    /\ log \in Seq(Entry)
    /\ faults \in 0..MaxFaults

(* The counter of unfinished tasks is the number of frames queued or in    *)
(* the worker's hand, whichever way frames leave: published, failed, thrown *)
(* away by the handler, or abandoned by a cancel (task_done in the handler  *)
(* and in the worker's finally).                                           *)
TasksBalanced ==
    unfinished = Len(queue) + (IF held = 0 THEN 0 ELSE 1)

(* A full queue loses its oldest frame: what waits are the newest frames,  *)
(* in order and without a gap (_quote_handler).                            *)
QueueIsNewest ==
    \A i \in 1..Len(queue) : queue[i] = Len(frames) - Len(queue) + i

(* Events go to the bus in the order of the frames and, in a frame, of its  *)
(* rows, through drops, failures, repeated XADDs and reconnects; only a    *)
(* repeated XADD puts a row there twice.                                   *)
PublishedInOrder ==
    \A i, j \in 1..Len(log) : i < j =>
        \/ log[i].n < log[j].n
        \/ log[i].n = log[j].n /\ log[i].r <= log[j].r

Events(n) == {log[i].r : i \in {k \in 1..Len(log) : log[k].n = n}}

(* A frame that was handled without a failure is on the bus as far as its  *)
(* first row that cannot be converted, and no further; a frame that was     *)
(* thrown away has left nothing there.                                     *)
HandledIsPublished ==
    \A n \in 1..Len(frames) :
        /\ fate[n] = "handled" =>
              Events(n) = {r \in 1..Len(frames[n]) :
                              /\ frames[n][r] = "quote"
                              /\ \A s \in 1..r : frames[n][s] # "bad"}
        /\ fate[n] \in {"queued", "dropped"} => Events(n) = {}

-----------------------------------------------------------------------------
\* What makes the safety properties inductive: where the worker is, ...
WorkerInPlace ==
    /\ held = 0 => ~sent
    /\ pc = "down" => held = 0
    /\ ~sent => applied = 0
    /\ held > 0 => /\ held <= Len(frames) - Len(queue)
                   /\ fate[held] = "taken"
                   /\ row \in 1..Len(frames[held]) + 1
    /\ sent => row <= Len(frames[held]) /\ frames[held][row] = "quote"

\* ... that nothing that waits has been published, ...
LogIsBehind ==
    /\ \A i \in 1..Len(log) :
          /\ log[i].n <= Len(frames) - Len(queue)
          /\ held > 0 => log[i].n <= held
          /\ (held > 0 /\ log[i].n = held) => log[i].r <= row
    /\ pc = "up" => \A i \in 1..Len(queue) : fate[queue[i]] = "queued"

\* ... and that the rows the worker has passed are dealt with.
RowsPassed ==
    held > 0 =>
        /\ \A r \in 1..Len(frames[held]) : r < row =>
              /\ frames[held][r] # "bad"
              /\ r \in Events(held) <=> frames[held][r] = "quote"
        /\ row \in Events(held) <=> applied > 0

IInv == TypeOK /\ TasksBalanced /\ QueueIsNewest /\ PublishedInOrder /\ HandledIsPublished
        /\ WorkerInPlace /\ LogIsBehind /\ RowsPassed
=============================================================================
