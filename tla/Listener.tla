-------------------------------- MODULE Listener --------------------------------
(* The standalone listener: Handle::shutdown against the wait of the drain       *)
(* future, readiness and the drain window against a load balancer, and the       *)
(* requests that are in flight meanwhile.  Every request reads rows; a "stream"  *)
(* one frames them as NDJSON lines while they come, a "call" answers them at     *)
(* once at the end.  The rows come from a SQLite worker thread over a bounded    *)
(* channel; a request that goes away leaves its job behind on the worker.        *)
(* tokio's Notify, axum's graceful shutdown, the client and the load balancer    *)
(* are modelled as the code relies on them.                                      *)
EXTENDS Naturals, Sequences, Functions

CONSTANTS
    Callers,     \* threads that call Handle::shutdown
    Streams,     \* requests for a `-> stream` query
    Calls,       \* requests answered with one JSON body
    Conns,       \* the pool's connections, a worker thread each
    NoConn,
    Rows,        \* the rows a query has
    Buffer,      \* ROW_BUFFER
    MaxPanics    \* bound: worker threads that die of a panicking job

Requests == Streams \cup Calls

ASSUME ListenerAssumption ==
    /\ Streams \cap Calls = {}
    /\ NoConn \notin Conns
    /\ Rows \in Nat /\ Buffer \in Nat \ {0} /\ MaxPanics \in Nat

VARIABLES
    draining,    \* the shutdown flag
    permit,      \* Notify's stored permit
    caller,      \* thread -> where it is in Handle::shutdown
    drain,       \* the drain future: load, await, waiting, window, over
    serve,       \* serving, closed (no longer accepting), returned
    probe,       \* the load balancer's probe: idle, ping (the flag was read, the backend is asked)
    rotation,    \* whether the load balancer sends requests here
    seen,        \* a probe asked while draining has been answered
    req,         \* request -> its handler and what its client has received
    chan,        \* request -> the channel of its query
    jobs,        \* connection -> the requests whose queries wait or run on its worker
    next,        \* connection -> the row its running query comes to
    panics, dead \* the threads that died, and those a connection still names

shutdownVars == <<draining, permit, caller, drain>>
probeVars == <<probe, rotation, seen>>
rowVars == <<chan, jobs, next, panics, dead>>
vars == <<shutdownVars, serve, probeVars, req, rowVars>>

Fail == 0    \* the error item of a channel; rows are 1..Rows
InFlight == {"checkout", "submit", "reading", "ending"}
Held == {req[r].conn : r \in Requests} \ {NoConn}

Init ==
    /\ draining = FALSE /\ permit = FALSE
    /\ caller = [s \in Callers |-> "idle"]
    /\ drain = "load" /\ serve = "serving"
    /\ probe = "idle" /\ rotation = TRUE /\ seen = FALSE
    /\ req = [r \in Requests |-> [pc |-> "none", conn |-> NoConn, lines |-> <<>>, end |-> <<>>]]
    /\ chan = [r \in Requests |-> <<>>]
    /\ jobs = [c \in Conns |-> <<>>]
    /\ next = [c \in Conns |-> 1]
    /\ panics = 0 /\ dead = {}

\* -------------------------------------------------------------- Handle::shutdown
\* (mutant) the wakeups go out before the flag is set
MutNotifyFirst(s) ==
    /\ \/ /\ caller[s] = "idle" /\ caller' = [caller EXCEPT ![s] = "stored"]
          /\ drain' = IF drain = "waiting" THEN "load" ELSE drain
          /\ UNCHANGED <<draining, permit>>
       \/ /\ caller[s] = "stored" /\ caller' = [caller EXCEPT ![s] = "notified"]
          /\ IF drain = "waiting" THEN drain' = "load" /\ UNCHANGED permit
                                  ELSE permit' = TRUE /\ UNCHANGED drain
          /\ UNCHANGED draining
       \/ /\ caller[s] = "notified" /\ caller' = [caller EXCEPT ![s] = "done"]
          /\ draining' = TRUE /\ UNCHANGED <<permit, drain>>
    /\ UNCHANGED <<serve, probeVars, req, rowVars>>

\* Store the flag, wake whoever waits, leave a permit for who does not yet.
Shutdown(s) ==
    /\ \/ /\ caller[s] = "idle" /\ caller' = [caller EXCEPT ![s] = "stored"]
          /\ draining' = TRUE /\ UNCHANGED <<permit, drain>>
       \/ /\ caller[s] = "stored" /\ caller' = [caller EXCEPT ![s] = "notified"]
          /\ drain' = IF drain = "waiting" THEN "load" ELSE drain
          /\ UNCHANGED <<draining, permit>>
       \/ /\ caller[s] = "notified" /\ caller' = [caller EXCEPT ![s] = "done"]
          /\ IF drain = "waiting" THEN drain' = "load" /\ UNCHANGED permit
                                  ELSE permit' = TRUE /\ UNCHANGED drain
          /\ UNCHANGED draining
    /\ UNCHANGED <<serve, probeVars, req, rowVars>>

\* The drain future: load the flag, and wait on notified() while it is not set.
AwaitShutdown ==
    /\ \/ drain = "load" /\ drain' = (IF draining THEN "window" ELSE "await") /\ UNCHANGED permit
       \/ drain = "await" /\ permit /\ drain' = "load" /\ permit' = FALSE
       \/ drain = "await" /\ ~permit /\ drain' = "waiting" /\ UNCHANGED permit
    /\ UNCHANGED <<draining, caller, serve, probeVars, req, rowVars>>

\* DRAIN_WINDOW is meant to outlast the load balancer's probing: it ends when a probe
\* asked while draining has been answered.
WindowEnds ==
    /\ drain = "window" /\ seen
    /\ drain' = "over"
    /\ UNCHANGED <<draining, permit, caller, serve, probeVars, req, rowVars>>

StopAccepting ==
    /\ drain = "over" /\ serve = "serving"
    /\ serve' = "closed"
    /\ UNCHANGED <<shutdownVars, probeVars, req, rowVars>>

\* axum's graceful shutdown waits for the requests in flight.
ServeReturns ==
    /\ serve = "closed"
    /\ \A r \in Requests : req[r].pc \notin InFlight
    /\ serve' = "returned"
    /\ UNCHANGED <<shutdownVars, probeVars, req, rowVars>>

\* ---------------------------------------------------------- /readyz and the balancer
\* (mutant) readiness asks the backend only
MutReadyIgnoresDrain ==
    /\ \/ /\ probe = "idle" /\ serve = "serving"
          /\ probe' = (IF draining THEN "late" ELSE "ping") /\ UNCHANGED <<rotation, seen>>
       \/ probe # "idle" /\ probe' = "idle" /\ rotation' \in BOOLEAN /\ seen' = (seen \/ probe = "late")
    /\ UNCHANGED <<shutdownVars, serve, req, rowVars>>

\* ready_response reads the flag, then pings the backend, which may be down for a while;
\* the balancer takes the instance out on a 503 and puts it back on a 200.
Readiness ==
    /\ \/ /\ probe = "idle" /\ serve = "serving"
          /\ IF draining THEN rotation' = FALSE /\ seen' = TRUE /\ UNCHANGED probe
                         ELSE probe' = "ping" /\ UNCHANGED <<rotation, seen>>
       \/ probe = "ping" /\ probe' = "idle" /\ rotation' \in BOOLEAN /\ UNCHANGED seen
    /\ UNCHANGED <<shutdownVars, serve, req, rowVars>>

\* ------------------------------------------------------------------ one request
ReqStep(r, fields) == req' = [req EXCEPT ![r] = [f \in DOMAIN req[r] |->
                                 IF f \in DOMAIN fields THEN fields[f] ELSE req[r][f]]]

\* The connection goes back to the pool, which keeps it unless its thread has stopped.
Leaves(r, pc, lines, end) ==
    /\ req' = [req EXCEPT ![r] = [pc |-> pc, conn |-> NoConn, lines |-> lines, end |-> end]]
    /\ dead' = dead \ {req[r].conn}

Arrives(r) ==
    /\ req[r].pc = "none" /\ rotation
    /\ ReqStep(r, [pc |-> IF serve = "serving" THEN "checkout" ELSE "refused"])
    /\ UNCHANGED <<shutdownVars, serve, probeVars, rowVars>>

\* decode_request: a bad route, context or body is answered before a connection is asked for.
Rejects(r) ==
    /\ req[r].pc = "none" /\ rotation /\ serve = "serving"
    /\ ReqStep(r, [pc |-> "answered", end |-> <<"error">>])
    /\ UNCHANGED <<shutdownVars, serve, probeVars, rowVars>>

\* dispatch_stream and dispatch: a checkout that fails is answered before any body.
Checkout(r) ==
    /\ req[r].pc = "checkout"
    /\ \/ \E c \in Conns \ Held : ReqStep(r, [pc |-> "submit", conn |-> c])
       \/ Conns \subseteq Held /\ ReqStep(r, [pc |-> "answered", end |-> <<"error">>])
    /\ UNCHANGED <<shutdownVars, serve, probeVars, rowVars>>

\* The failure ends a call at once; a stream's error line is written first and its
\* connection goes back when the body ends.
Fails(r) ==
    IF r \in Streams
    THEN ReqStep(r, [pc |-> "ending", end |-> Append(req[r].end, "error")]) /\ UNCHANGED dead
    ELSE Leaves(r, "answered", req[r].lines, <<"error">>)

\* fetch: the first poll queues the query on the connection's worker.
Submit(r) ==
    LET c == req[r].conn IN
    /\ req[r].pc = "submit"
    /\ IF c \in dead
       THEN Fails(r) /\ UNCHANGED jobs
       ELSE /\ ReqStep(r, [pc |-> "reading"]) /\ UNCHANGED dead
            /\ jobs' = [jobs EXCEPT ![c] = Append(@, r)]
    /\ UNCHANGED <<shutdownVars, serve, probeVars, chan, next, panics>>

\* ndjson_lines and fetch_all take the next item; a client that does not read lets the
\* stream wait.
TakesItem(r) ==
    /\ req[r].pc = "reading" /\ chan[r] # <<>>
    /\ chan' = [chan EXCEPT ![r] = Tail(@)]
    /\ IF Head(chan[r]) = Fail
       THEN Fails(r)
       ELSE ReqStep(r, [lines |-> Append(req[r].lines, Head(chan[r]))]) /\ UNCHANGED dead
    /\ UNCHANGED <<shutdownVars, serve, probeVars, jobs, next, panics>>

\* The channel is empty and its sender is gone with the job: the rows have ended.
RowsEnd(r) ==
    /\ req[r].pc = "reading" /\ chan[r] = <<>>
    /\ \A c \in Conns : r \notin Range(jobs[c])
    /\ Leaves(r, "answered", req[r].lines, Append(req[r].end, "done"))
    /\ UNCHANGED <<shutdownVars, serve, probeVars, chan, jobs, next, panics>>

BodyEnds(r) ==
    /\ req[r].pc = "ending"
    /\ Leaves(r, "answered", req[r].lines, req[r].end)
    /\ UNCHANGED <<shutdownVars, serve, probeVars, chan, jobs, next, panics>>

\* The client disconnects: the handler or the body is dropped, and with it the stream,
\* its end of the channel and the connection.
Disconnects(r) ==
    /\ req[r].pc \in InFlight
    /\ Leaves(r, "gone", <<>>, <<>>)
    /\ chan' = [chan EXCEPT ![r] = <<>>]
    /\ UNCHANGED <<shutdownVars, serve, probeVars, jobs, next, panics>>

\* ---------------------------------------------------------------- the worker thread
JobEnds(c) == jobs' = [jobs EXCEPT ![c] = Tail(@)] /\ next' = [next EXCEPT ![c] = 1]
Listens(r) == req[r].pc = "reading"
Room(r) == Len(chan[r]) < Buffer

\* (mutant) the worker does not notice that nobody reads any more
MutSendsBlind(c) ==
    LET r == Head(jobs[c]) IN
    /\ jobs[c] # <<>> /\ next[c] <= Rows /\ Room(r)
    /\ chan' = [chan EXCEPT ![r] = Append(@, next[c])]
    /\ next' = [next EXCEPT ![c] = @ + 1] /\ UNCHANGED jobs
    /\ UNCHANGED <<shutdownVars, serve, probeVars, req, panics, dead>>

\* blocking_send: waits for room, and fails once the stream has been dropped, which ends
\* the query.
SendsRow(c) ==
    LET r == Head(jobs[c]) IN
    /\ jobs[c] # <<>> /\ next[c] <= Rows
    /\ \/ /\ Listens(r) /\ Room(r)
          /\ chan' = [chan EXCEPT ![r] = Append(@, next[c])]
          /\ next' = [next EXCEPT ![c] = @ + 1] /\ UNCHANGED jobs
       \/ ~Listens(r) /\ JobEnds(c) /\ UNCHANGED chan
    /\ UNCHANGED <<shutdownVars, serve, probeVars, req, panics, dead>>

\* (mutant) the job drops the query's error
MutErrorDropped(c) ==
    /\ jobs[c] # <<>> /\ JobEnds(c)
    /\ UNCHANGED <<shutdownVars, serve, probeVars, req, chan, panics, dead>>

\* The query fails at some row: the error is the channel's last item.
QueryFails(c) ==
    LET r == Head(jobs[c]) IN
    /\ jobs[c] # <<>> /\ JobEnds(c)
    /\ \/ Listens(r) /\ Room(r) /\ chan' = [chan EXCEPT ![r] = Append(@, Fail)]
       \/ ~Listens(r) /\ UNCHANGED chan
    /\ UNCHANGED <<shutdownVars, serve, probeVars, req, panics, dead>>

QueryEnds(c) ==
    /\ jobs[c] # <<>> /\ next[c] = Rows + 1
    /\ JobEnds(c)
    /\ UNCHANGED <<shutdownVars, serve, probeVars, req, chan, panics, dead>>

\* A job panics: the thread ends and the jobs in its inbox are dropped with their senders.
WorkerPanics(c) ==
    /\ jobs[c] # <<>> /\ panics < MaxPanics
    /\ panics' = panics + 1
    /\ dead' = dead \cup {c}
    /\ jobs' = [jobs EXCEPT ![c] = <<>>] /\ next' = [next EXCEPT ![c] = 1]
    /\ UNCHANGED <<shutdownVars, serve, probeVars, req, chan>>

Handler(r) == Checkout(r) \/ Submit(r) \/ TakesItem(r) \/ RowsEnd(r) \/ BodyEnds(r)
WorkerStep(c) == SendsRow(c) \/ QueryFails(c) \/ QueryEnds(c)
Drains == AwaitShutdown \/ WindowEnds \/ StopAccepting \/ ServeReturns

Stays == serve = "returned" /\ UNCHANGED vars

Next ==
    \/ \E s \in Callers : Shutdown(s)
    \/ Drains \/ Readiness
    \/ \E r \in Requests : Arrives(r) \/ Rejects(r) \/ Handler(r) \/ Disconnects(r)
    \/ \E c \in Conns : WorkerStep(c) \/ WorkerPanics(c)
    \/ Stays

Spec == Init /\ [][Next]_vars

\* The runtime polls what can go on, a worker runs its jobs, the balancer keeps probing,
\* and a client reads or goes away: the listener has no drain deadline of its own.
FairSpec ==
    /\ Spec
    /\ WF_vars(Drains) /\ WF_vars(Readiness)
    /\ \A s \in Callers : WF_vars(caller[s] # "idle" /\ Shutdown(s))
    /\ \A r \in Requests : WF_vars(Handler(r) \/ Disconnects(r))
    /\ \A c \in Conns : WF_vars(SendsRow(c) \/ QueryEnds(c))

\* ---------------------------------------------------------------------- properties
TypeOK ==
    /\ draining \in BOOLEAN /\ permit \in BOOLEAN /\ rotation \in BOOLEAN /\ seen \in BOOLEAN
    /\ caller \in [Callers -> {"idle", "stored", "notified", "done"}]
    /\ drain \in {"load", "await", "waiting", "window", "over"}
    /\ serve \in {"serving", "closed", "returned"} /\ probe \in {"idle", "ping"}
    /\ \A r \in Requests :
         /\ req[r].pc \in InFlight \cup {"none", "refused", "answered", "gone"}
         /\ req[r].conn \in Conns \cup {NoConn}
         /\ (req[r].conn # NoConn) <=> (req[r].pc \in InFlight \ {"checkout"})
         /\ Len(chan[r]) <= Buffer
    /\ \A c \in Conns : next[c] \in 1..(Rows + 1) /\ Range(jobs[c]) \subseteq Requests
    /\ dead \subseteq Conns /\ panics \in 0..MaxPanics

\* ndjson_lines, fetch: a client that was answered has the query's first rows, in their
\* order, and one terminal line, whatever the worker, the shutdown and the other requests
\* did; as long as no worker thread dies, a done line (or a call's 200) comes with every
\* row of the query.
AnswerIsFramed ==
    \A r \in Requests :
        /\ req[r].lines = [n \in 1..Len(req[r].lines) |-> n]
        /\ Len(req[r].end) <= 1
        /\ req[r].pc = "answered" => Len(req[r].end) = 1
        /\ req[r].end = <<"done">> /\ panics = 0 => Len(req[r].lines) = Rows

\* ndjson_lines: done is the verdict on the whole result.
DoneIsAlwaysWhole == \A r \in Requests : req[r].end = <<"done">> => Len(req[r].lines) = Rows

\* DRAIN_WINDOW, ready_response: a rollout refuses nobody; the listener is open for every
\* request a balancer that heeds its last probe sends.
NothingRefused == \A r \in Requests : req[r].pc # "refused"

\* Handle::shutdown: whichever thread calls it, at whatever point of the drain future,
\* the serve call returns.
ShutdownReturns == draining ~> (serve = "returned")

\* fetch: a worker is always freed, a query whose reader has gone away and whose channel
\* is full included.
WorkerIsFreed == \A c \in Conns : (jobs[c] # <<>>) ~> (jobs[c] = <<>>)
================================================================================
