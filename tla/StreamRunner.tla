---------------------------- MODULE StreamRunner ----------------------------
(***************************************************************************)
(* The Schwab quote stream task and the requests that redirect it.         *)
(*                                                                         *)
(*   run_schwab_equity_stream   schwab/stream_equity_runner.py             *)
(*   put_stream_symbols         app/api/events.py                          *)
(*   lifespan (cancel)          app/main.py                                *)
(*                                                                         *)
(* One WebSocket session at a time: log in, subscribe the three LEVELONE   *)
(* services, then read frames and take symbol lists from replace_queue     *)
(* until something raises; then clean up, wait and connect again.  Tasks   *)
(* are asyncio coroutines: a step is what runs between two awaits.         *)
(***************************************************************************)
EXTENDS Integers, Sequences

CONSTANTS
    Client,     \* PUT /events/stream/symbols requests
    Key,        \* symbols
    Payload,    \* the symbol lists clients ask for, one set per service
    Initial,    \* the lists configured at startup
    QMax,       \* maxsize of replace_queue (8 in main.py)
    MaxPuts,    \* bound: PUT requests accepted in one behaviour
    MaxFaults   \* bound: failures of the connection in one behaviour

Service == {"equities", "futures", "options"}
Lists   == [Service -> SUBSET Key]
Nothing == [s \in Service |-> {}]

\* put_stream_symbols rejects three empty lists, and so does the runner.
ASSUME PayloadAssumption ==
    /\ Payload \subseteq Lists \ {Nothing}
    /\ Initial \in Lists \ {Nothing}

ASSUME BoundAssumption ==
    /\ QMax \in Nat \ {0}
    /\ MaxPuts \in Nat
    /\ MaxFaults \in Nat

VARIABLES
    pc,        \* where the runner is
    current,   \* its local intent
    old,       \* the intent the session was subscribed to before a change
    todo,      \* services not handled yet by the (re)subscription under way
    subs,      \* what the server sends on this session
    read,      \* read_task: running, or how it ended
    ctrl,      \* ctrl_task: about to start, waiting, or holding a payload
    got,       \* the payload ctrl_task holds
    failed,    \* the exception that ended the session was not a cancel
    queue,     \* replace_queue
    cpc, cbody,  \* PUT requests: step and body
    puts, faults,  \* what the bounds count
    shutdown,  \* "no", then "asked": lifespan has called stream_task.cancel()
    latest, lost  \* history: the newest accepted lists; they were thrown away

session == <<current, old, todo, subs>>
tasks   == <<read, ctrl, got>>
clients == <<cpc, cbody>>
vars    == <<pc, session, tasks, failed, queue, clients, puts, faults,
             shutdown, latest, lost>>

-----------------------------------------------------------------------------
\* The services a new session subscribes: `if current.equities: ...`.
Wanted(lists) == {s \in Service : lists[s] # {}}

\* The services a change of lists touches: `if new.equities != old.equities`.
ChangedOnlyIfWanted(a, b) == {s \in Service : a[s] # b[s] /\ b[s] # {}}
Changed(a, b) == {s \in Service : a[s] # b[s]}

\* SUBS replaces the keys of a service; UNSUBS takes the old ones away.
Apply(s) == IF current[s] = {} THEN subs[s] \ old[s] ELSE current[s]

\* They go out in this order.
Order == <<"equities", "futures", "options">>
Before(s, t) == \E i, j \in 1..3 : i < j /\ Order[i] = s /\ Order[j] = t
IsNext(s) == \A t \in todo : t = s \/ Before(s, t)

\* replace_queue is a FIFO queue of at most QMax payloads.
Oldest == Head(queue)
RoomForOneMore == Len(queue) <= QMax
Room == Len(queue) < QMax

\* After logout: sleep and reconnect, or let CancelledError end the task.
AfterLogoutGivesUp == "ended"
AfterLogoutGoesOn == "backoff"
AfterLogout == IF failed THEN "backoff" ELSE "ended"

\* A fault: a call on the WebSocket raises.
Fault == faults < MaxFaults /\ faults' = faults + 1

NoTasksButRead == ctrl' = "none" /\ got' = Nothing /\ UNCHANGED read
NoTasks == read' = "none" /\ ctrl' = "none" /\ got' = Nothing

\* Top of _multiplex_loop: create read_task and ctrl_task.
Loop == /\ pc' = "wait"
        /\ read' = "running" /\ ctrl' = "new" /\ got' = Nothing

\* An exception other than a cancel leaves the try block of the session.
Raise == /\ pc' = "stop"
         /\ failed' = TRUE
         /\ NoTasks

-----------------------------------------------------------------------------
Init ==
    /\ pc = "login"
    /\ current = Initial /\ old = Nothing
    /\ todo = {} /\ subs = Nothing
    /\ read = "none" /\ ctrl = "none" /\ got = Nothing
    /\ failed = FALSE
    /\ queue = <<>>
    /\ cpc = [c \in Client |-> "idle"]
    /\ cbody = [c \in Client |-> Nothing]
    /\ puts = 0 /\ faults = 0
    /\ shutdown = "no"
    /\ latest = Initial /\ lost = FALSE

(* A session: login, then SUBS of every non-empty service.                 *)
Login ==
    /\ pc = "login"
    /\ \/ /\ pc' = "subscribe"
          /\ todo' = Wanted(current)
          /\ UNCHANGED <<read, ctrl, got, failed, faults>>
       \/ Fault /\ Raise /\ UNCHANGED todo
    /\ UNCHANGED <<current, old, subs, queue, clients, puts, shutdown, latest, lost>>

Subscribe ==
    /\ pc = "subscribe"
    /\ todo # {}
    /\ \/ /\ \E s \in todo : /\ IsNext(s)
                            /\ subs' = [subs EXCEPT ![s] = current[s]]
                            /\ todo' = todo \ {s}
          /\ UNCHANGED <<pc, read, ctrl, got, failed, faults>>
       \/ Fault /\ Raise /\ UNCHANGED <<subs, todo>>
    /\ UNCHANGED <<current, old, queue, clients, puts, shutdown, latest, lost>>

Subscribed ==
    /\ pc \in {"subscribe", "apply"}
    /\ todo = {}
    /\ Loop
    /\ UNCHANGED <<session, failed, queue, clients, puts, faults, shutdown, latest, lost>>

\* read_task ends: a frame for the quote handler, a RESPONSE frame
\* (UnexpectedResponse), or the connection failed.
ReadFrame ==
    /\ pc = "wait" /\ read = "running"
    /\ \/ read' = "frame" /\ UNCHANGED faults
       \/ read' = "response" /\ UNCHANGED faults
       \/ read' = "error" /\ Fault
    /\ UNCHANGED <<pc, session, ctrl, got, failed, queue, clients, puts, shutdown,
                   latest, lost>>

\* ctrl_task runs replace_queue.get(): it takes what is there or waits.
TakePayload ==
    /\ pc = "wait" /\ ctrl \in {"new", "waiting"}
    /\ \/ /\ queue # <<>>
          /\ ctrl' = "done" /\ got' = Oldest
          /\ queue' = Tail(queue)
       \/ /\ queue = <<>> /\ ctrl = "new"
          /\ ctrl' = "waiting"
          /\ UNCHANGED <<got, queue>>
    /\ UNCHANGED <<pc, session, read, failed, clients, puts, faults, shutdown,
                   latest, lost>>

(* asyncio.wait returns.  ctrl_task was created before the wait, so it has *)
(* run at least once.                                                      *)
Woken == pc = "wait" /\ ctrl # "new" /\ (read # "running" \/ ctrl = "done")

\* Both done and read_task failed: read_task.result() raises before the
\* payload has become the intent.
WakeAndRaise ==
    /\ Woken /\ ctrl = "done" /\ read = "error"
    /\ Raise
    /\ lost' = (lost \/ (queue = <<>> /\ got # current))
    /\ UNCHANGED <<session, queue, clients, puts, faults, shutdown, latest>>

\* The payload says what is subscribed already.
WakeNoChange ==
    /\ Woken /\ ctrl = "done" /\ read # "error"
    /\ got = current
    /\ Loop
    /\ UNCHANGED <<session, failed, queue, clients, puts, faults, shutdown, latest, lost>>

\* A new intent: read_task is cancelled if need be, then SUBS and UNSUBS go
\* out one service after the other.
WakeAndChange ==
    /\ Woken /\ ctrl = "done" /\ read # "error"
    /\ got # current
    /\ pc' = "apply"
    /\ old' = current
    /\ current' = got
    /\ todo' = Changed(current, got)
    /\ NoTasks
    /\ UNCHANGED <<subs, failed, queue, clients, puts, faults, shutdown, latest, lost>>

\* Only read_task is done: ctrl_task is cancelled, which loses nothing.
WakeAfterRead ==
    /\ Woken /\ ctrl = "waiting"
    /\ \/ read = "error" /\ Raise
       \/ read # "error" /\ Loop /\ UNCHANGED failed
    /\ UNCHANGED <<session, queue, clients, puts, faults, shutdown, latest, lost>>

\* _apply_subscription_change: one service.
ApplyChange ==
    /\ pc = "apply"
    /\ todo # {}
    /\ \/ /\ \E s \in todo : /\ IsNext(s)
                            /\ subs' = [subs EXCEPT ![s] = Apply(s)]
                            /\ todo' = todo \ {s}
          /\ UNCHANGED <<pc, read, ctrl, got, failed, faults>>
       \/ Fault /\ Raise /\ UNCHANGED <<subs, todo>>
    /\ UNCHANGED <<current, old, queue, clients, puts, shutdown, latest, lost>>

(* finally: join the worker, log out; then sleep, or end if cancelled.     *)
JoinWorker ==
    /\ pc = "stop"
    /\ pc' = "logout"
    /\ UNCHANGED <<session, tasks, failed, queue, clients, puts, faults, shutdown,
                   latest, lost>>

Logout ==
    /\ pc = "logout"
    /\ pc' = AfterLogout
    /\ subs' = Nothing
    /\ todo' = {}
    /\ old' = Nothing
    /\ UNCHANGED <<current, tasks, failed, queue, clients, puts, faults, shutdown,
                   latest, lost>>

Reconnect ==
    /\ pc = "backoff"
    /\ pc' = "login"
    /\ failed' = FALSE
    /\ UNCHANGED <<session, tasks, queue, clients, puts, faults, shutdown, latest, lost>>

(* Shutdown: lifespan cancels the task at whatever it awaits.              *)
\* Inside the try block: CancelledError goes through finally and ends it.
CancelSession ==
    /\ pc \in {"login", "subscribe", "wait", "apply"}
    /\ pc' = "stop"
    /\ failed' = FALSE
    /\ NoTasks

\* `await worker_task` catches CancelledError: this cancel is forgotten.
CancelWhileJoining ==
    /\ pc = "stop"
    /\ pc' = "logout"
    /\ UNCHANGED <<tasks, failed>>

\* logout and sleep do not.
CancelCleanup ==
    /\ pc \in {"logout", "backoff"}
    /\ pc' = "ended"
    /\ UNCHANGED <<tasks, failed>>

Shutdown ==
    /\ shutdown = "no"
    /\ shutdown' = "asked"
    /\ CancelSession \/ CancelWhileJoining \/ CancelCleanup
    /\ UNCHANGED <<session, queue, clients, puts, faults, latest, lost>>

-----------------------------------------------------------------------------
(* put_stream_symbols                                                      *)

\* As with a LifoQueue, for a mutation run.
EnqueueFirst(p) ==
    /\ Room
    /\ queue' = <<p>> \o queue
    /\ latest' = p
    /\ lost' = FALSE

\* queue.put has room: the response is sent in the same step.
Enqueue(p) ==
    /\ Room
    /\ queue' = Append(queue, p)
    /\ latest' = p
    /\ lost' = FALSE

Put(c) ==
    /\ cpc[c] = "idle" /\ puts < MaxPuts
    /\ puts' = puts + 1
    /\ \E p \in Payload :
          \/ Enqueue(p) /\ UNCHANGED clients
          \/ /\ ~Room
             /\ cpc' = [cpc EXCEPT ![c] = "blocked"]
             /\ cbody' = [cbody EXCEPT ![c] = p]
             /\ UNCHANGED <<queue, latest, lost>>
    /\ UNCHANGED <<pc, session, tasks, failed, faults, shutdown>>

\* A blocked put is woken; whichever request runs first gets the room.
PutResumes(c) ==
    /\ cpc[c] = "blocked"
    /\ Enqueue(cbody[c])
    /\ cpc' = [cpc EXCEPT ![c] = "idle"]
    /\ cbody' = [cbody EXCEPT ![c] = Nothing]
    /\ UNCHANGED <<pc, session, tasks, failed, puts, faults, shutdown>>

-----------------------------------------------------------------------------
Wake == WakeAndRaise \/ WakeNoChange \/ WakeAndChange \/ WakeAfterRead

\* What the event loop runs by itself; ReadFrame waits for the server.
Runner == \/ Login \/ Subscribe \/ Subscribed \/ TakePayload \/ Wake
          \/ ApplyChange \/ JoinWorker \/ Logout \/ Reconnect

Next == \/ Runner \/ ReadFrame \/ Shutdown
        \/ \E c \in Client : Put(c) \/ PutResumes(c)

Spec == Init /\ [][Next]_vars

\* The event loop schedules the runner, its two tasks and woken requests
\* fairly; frames, faults, PUTs and the shutdown come when they like.
FairSpec == /\ Spec
            /\ WF_vars(Runner) /\ WF_vars(TakePayload)
            /\ \A c \in Client : WF_vars(PutResumes(c))

-----------------------------------------------------------------------------
Labels == {"login", "subscribe", "wait", "apply", "stop", "logout", "backoff", "ended"}

TypeOK ==
    /\ pc \in Labels
    /\ current \in Lists \ {Nothing} /\ old \in Lists
    /\ todo \subseteq Service
    /\ subs \in Lists
    /\ read \in {"none", "running", "frame", "response", "error"}
    /\ ctrl \in {"none", "new", "waiting", "done"}
    /\ got \in Lists
    /\ ctrl = "done" => got \in Payload
    /\ failed \in BOOLEAN
    /\ queue \in Seq(Payload) /\ Len(queue) <= QMax
    /\ cpc \in [Client -> {"idle", "blocked"}]
    /\ cbody \in [Client -> Lists]
    /\ \A c \in Client : cpc[c] = "blocked" => cbody[c] \in Payload
    /\ puts \in 0..MaxPuts /\ faults \in 0..MaxFaults
    /\ shutdown \in {"no", "asked"}
    /\ latest \in Lists
    /\ lost \in BOOLEAN

(* Whenever the runner reads frames, the session is subscribed to exactly  *)
(* the intent, service by service, after any history of replacements,      *)
(* clearings and reconnects (_apply_subscription_change sends differences).*)
SessionMatchesIntent == pc = "wait" => subs = current

(* handle_message never runs while SUBS or UNSUBS are sent: both read the  *)
(* same WebSocket (docstring of _multiplex_loop).                          *)
NoReadDuringSubscribe == pc \in {"login", "subscribe", "apply"} => read = "none"

(* The newest accepted symbol lists are on their way or are the intent,    *)
(* unless the runner has thrown them away: they are the last in the queue, *)
(* or in ctrl_task's hands, or current (stream_equity_runner 214-249).     *)
NewestIsNotOvertaken ==
    (~lost /\ shutdown = "no") =>
        /\ queue # <<>> => latest = queue[Len(queue)]
        /\ (queue = <<>> /\ ctrl = "done") => latest = got
        /\ (queue = <<>> /\ ctrl # "done") => latest = current

(* A payload taken from the queue becomes the intent ("Always consume the  *)
(* queue payload first so a failing handle_message cannot drop it.").  It  *)
(* does not when both tasks are done and handle_message has failed.        *)
PayloadNeverDropped ==
    [][(ctrl = "done" /\ ctrl' # "done" /\ shutdown' = "no") => current' = got]_vars

(* Once connections stop failing, PUTs stop coming and nobody shuts down,  *)
(* the queue empties, every PUT is answered and the session ends up        *)
(* subscribed to the intent.                                               *)
Settled == /\ pc = "wait" /\ queue = <<>> /\ ctrl # "done" /\ subs = current
           /\ \A c \in Client : cpc[c] = "idle"

EventuallySettled == <>[](shutdown = "no") => []<>Settled

(* A shutdown that reaches the session itself ends the task, whatever the  *)
(* session was doing (`await stream_task` in lifespan returns).  One that  *)
(* arrives while a failed session joins its publish worker is forgotten.   *)
CancelEnds ==
    [](shutdown = "asked" /\ pc = "stop" /\ ~failed => <>(pc = "ended"))

-----------------------------------------------------------------------------
(* What makes the safety properties inductive                              *)

\* The two tasks of the multiplex loop only exist inside it.
TasksInLoop == pc # "wait" => read = "none" /\ ctrl = "none"

\* What a session is subscribed to while the services are gone through.
PartlySubscribed ==
    /\ pc \in {"backoff", "login"} => subs = Nothing
    /\ pc = "subscribe" => \A s \in Service : s \notin todo => subs[s] = current[s]
    /\ pc = "apply" => \A s \in Service :
                          subs[s] = IF s \in todo THEN old[s] ELSE current[s]

IInv == /\ TypeOK
        /\ TasksInLoop
        /\ PartlySubscribed
        /\ SessionMatchesIntent
        /\ NewestIsNotOvertaken

=============================================================================
