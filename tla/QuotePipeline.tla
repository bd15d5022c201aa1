--------------------------- MODULE QuotePipeline ---------------------------
(***************************************************************************)
(* From Schwab to the SSE clients: the publish queue of the stream runner  *)
(* (PublishQueue) writes the Redis stream that the connections of the      *)
(* event bus (EventBus) read.  They share nothing but the stream.          *)
(***************************************************************************)
EXTENDS PublishQueue, EventBus

\* The entries the queue writes: events, which all parse.
QuoteEvent == [n : 1..MaxFrames, r : UNION {DOMAIN f : f \in Frame}]

ASSUME PipelineAssumption == QuoteEvent \subseteq Event /\ QuoteEvent \subseteq Readable

queueVars    == <<session, worker, faults, history>>
pipelineVars == <<log, queueVars, conns>>

PipelineInit == Init /\ BusInit

QueueStep   == Next /\ UNCHANGED conns
ClientStep  == \E c \in Client : Stream(c) /\ UNCHANGED queueVars

PipelineNext == QueueStep \/ ClientStep

PipelineSpec == PipelineInit /\ [][PipelineNext]_pipelineVars

\* asyncio runs the worker and every ready connection, and Redis carries out
\* and answers what it is sent; frames, clients, failures, idle time-outs and
\* reconnects come when they like.
PipelineFairSpec ==
    /\ PipelineSpec
    /\ WF_pipelineVars(Worker /\ UNCHANGED conns)
    /\ \A c \in Client : WF_pipelineVars(Proceed(c) /\ UNCHANGED queueVars)

-----------------------------------------------------------------------------
\* The rows of frame n that become quotes, and those client c was sent.
Quotes(n) == {r \in 1..Len(frames[n]) :
                 /\ frames[n][r] = "quote"
                 /\ \A s \in 1..r : frames[n][s] # "bad"}
Received(c, n) == {log[i].r : i \in {j \in got[c] : log[j].n = n}}

(* Between two quotes that reach a client nothing is missing but frames the *)
(* full queue threw away, whose publication failed, or that a reconnect     *)
(* gave up (drop-oldest queue, one worker, cursor of stream_from).          *)
OnlyLostFramesMissing ==
    \A c \in Client : \A i, k \in got[c] : \A n \in log[i].n + 1 .. log[k].n - 1 :
        /\ fate[n] \in {"handled", "failed", "dropped", "abandoned"}
        /\ fate[n] = "handled" => Received(c, n) = Quotes(n)

Lost(n)       == fate[n] \in {"failed", "dropped", "abandoned"}
Arrived(c, n) == Quotes(n) \subseteq Received(c, n)

(* A frame that waits while a client has a cursor reaches it with all its   *)
(* quotes, unless it is thrown away or fails, or the client leaves.         *)
QuotesArrive ==
    \A c \in Client : \A n \in 1..MaxFrames :
        (n <= Len(frames) /\ fate[n] = "queued" /\ ~fresh[c])
            ~> (conn[c] = "closed" \/ (n <= Len(frames) /\ (Lost(n) \/ Arrived(c, n))))
=============================================================================
