----------------------------- MODULE Listener_proofs -----------------------------
(* What holds of Listener for every number of callers, requests, connections,    *)
(* rows and buffers, and however often worker threads die.                       *)
EXTENDS Listener, SequenceTheorems, TLAPS

USE ListenerAssumption

\* ------------------------------------------------------------ the inductive invariant
(* The rollout: the drain future gets past its window only once a probe was      *)
(* answered while draining, and then no request comes any more.                  *)
Rollout ==
    /\ drain \in {"window", "over"} => draining
    /\ seen => draining /\ ~rotation /\ probe = "idle"
    /\ drain = "over" => seen
    /\ serve # "serving" => drain = "over"
    /\ \A r \in Requests : req[r].pc # "refused"

(* The life of a request's handler, and what its client has received.            *)
Request ==
    [pc : InFlight \cup {"none", "refused", "answered", "gone"}, conn : Conns \cup {NoConn},
     lines : Seq(Nat), end : Seq({"error", "done"})]

Types ==
    /\ req \in [Requests -> Request]
    /\ chan \in [Requests -> Seq(Nat)]
    /\ jobs \in [Conns -> Seq(Requests)]
    /\ next \in [Conns -> 1..(Rows + 1)]
    /\ panics \in Nat

(* What the client has, by where its request is.                                 *)
Client(r) ==
    /\ req[r].pc \in {"submit", "reading"} => req[r].conn \in Conns
    /\ req[r].pc \in {"none", "checkout", "submit", "gone"} => req[r].lines = <<>> /\ chan[r] = <<>>
    /\ req[r].pc \in {"none", "checkout", "submit", "reading", "gone", "refused"} => req[r].end = <<>>
    /\ req[r].pc = "ending" => req[r].end = <<"error">>
    /\ req[r].pc = "answered" => req[r].end \in {<<"error">>, <<"done">>}
    /\ \A n \in 1..Len(req[r].lines) : req[r].lines[n] = n
    /\ req[r].end = <<"done">> /\ panics = 0 => Len(req[r].lines) = Rows

(* A request queues one job in its life, and has not queued it before it asks.   *)
Early == {"none", "checkout", "submit"}

OneJob ==
    /\ \A c \in Conns : \A i \in 1..Len(jobs[c]) : req[jobs[c][i]].pc \notin Early
    /\ \A c, d \in Conns : \A i \in 1..Len(jobs[c]) : \A k \in 1..Len(jobs[d]) :
          jobs[c][i] = jobs[d][k] => c = d /\ i = k
    /\ \A c \in Conns : jobs[c] = <<>> => next[c] = 1

Queued(r) == \E c \in Conns : \E i \in 1..Len(jobs[c]) : jobs[c][i] = r

Failed(r) == chan[r] # <<>> /\ chan[r][Len(chan[r])] = Fail

(* What lies in the channel of a request that reads: the rows after those it     *)
(* has, then perhaps the error; and how far the worker is with its query.        *)
Items(r) ==
    \A i \in 1..Len(chan[r]) :
        chan[r][i] = Len(req[r].lines) + i \/ (i = Len(chan[r]) /\ chan[r][i] = Fail)

Progress(r) ==
    \A c \in Conns : \A i \in 1..Len(jobs[c]) : jobs[c][i] = r =>
        IF i = 1 THEN Len(req[r].lines) + Len(chan[r]) = next[c] - 1
                 ELSE req[r].lines = <<>> /\ chan[r] = <<>>

Rest(r) ==
    req[r].pc = "reading" =>
        /\ Items(r)
        /\ Failed(r) => ~Queued(r)
        /\ ~Queued(r) /\ ~Failed(r) /\ panics = 0 => Len(req[r].lines) + Len(chan[r]) = Rows
        /\ Progress(r)

Bodies == \A r \in Requests : Client(r) /\ Rest(r)

BodyInv == Types /\ OneJob /\ Bodies

\* ------------------------------------------------------------------ steps of a request
(* The step of one request: where it is now, and that the others stay.           *)
Turns(r, p, c, l, e) ==
    /\ req' \in [Requests -> Request]
    /\ \A q \in Requests \ {r} : req'[q] = req[q]
    /\ req'[r].pc = p /\ req'[r].conn = c /\ req'[r].lines = l /\ req'[r].end = e

(* What ReqStep does to the fields it names, in the forms the handlers use it.   *)
LEMMA StepTurns ==
    ASSUME Types, NEW r \in Requests
    PROVE  /\ \A p \in InFlight \cup {"none", "refused", "answered", "gone"} :
                ReqStep(r, [pc |-> p]) => Turns(r, p, req[r].conn, req[r].lines, req[r].end)
           /\ \A p \in InFlight \cup {"none", "refused", "answered", "gone"}, c \in Conns :
                ReqStep(r, [pc |-> p, conn |-> c]) => Turns(r, p, c, req[r].lines, req[r].end)
           /\ \A p \in InFlight \cup {"none", "refused", "answered", "gone"}, e \in Seq({"error", "done"}) :
                ReqStep(r, [pc |-> p, end |-> e]) => Turns(r, p, req[r].conn, req[r].lines, e)
           /\ \A l \in Seq(Nat) :
                ReqStep(r, [lines |-> l]) => Turns(r, req[r].pc, req[r].conn, l, req[r].end)
<1> USE DEF Types, Request
<1>1. ASSUME NEW p \in InFlight \cup {"none", "refused", "answered", "gone"}, ReqStep(r, [pc |-> p])
      PROVE  Turns(r, p, req[r].conn, req[r].lines, req[r].end)
  <2>1. \A q \in Requests \ {r} : req'[q] = req[q] BY <1>1 DEF ReqStep
  <2>2. req'[r].pc = p /\ req'[r].conn = req[r].conn /\ req'[r].lines = req[r].lines /\ req'[r].end = req[r].end
    BY <1>1 DEF ReqStep
  <2>3. req' \in [Requests -> Request]
    <3>1. req'[r] \in Request BY <1>1 DEF ReqStep
    <3>2. QED BY <1>1, <2>1, <3>1 DEF ReqStep
  <2>4. QED BY <2>1, <2>2, <2>3 DEF Turns
<1>2. ASSUME NEW p \in InFlight \cup {"none", "refused", "answered", "gone"}, NEW c \in Conns,
             ReqStep(r, [pc |-> p, conn |-> c])
      PROVE  Turns(r, p, c, req[r].lines, req[r].end)
  <2>1. \A q \in Requests \ {r} : req'[q] = req[q] BY <1>2 DEF ReqStep
  <2>2. req'[r].pc = p /\ req'[r].conn = c /\ req'[r].lines = req[r].lines /\ req'[r].end = req[r].end
    BY <1>2 DEF ReqStep
  <2>3. req' \in [Requests -> Request]
    <3>1. req'[r] \in Request BY <1>2 DEF ReqStep
    <3>2. QED BY <1>2, <2>1, <3>1 DEF ReqStep
  <2>4. QED BY <2>1, <2>2, <2>3 DEF Turns
<1>3. ASSUME NEW p \in InFlight \cup {"none", "refused", "answered", "gone"}, NEW e \in Seq({"error", "done"}),
             ReqStep(r, [pc |-> p, end |-> e])
      PROVE  Turns(r, p, req[r].conn, req[r].lines, e)
  BY <1>3 DEF ReqStep, Turns
<1>4. ASSUME NEW l \in Seq(Nat), ReqStep(r, [lines |-> l])
      PROVE  Turns(r, req[r].pc, req[r].conn, l, req[r].end)
  BY <1>4 DEF ReqStep, Turns
<1>5. QED BY <1>1, <1>2, <1>3, <1>4

(* What giving the connection back does to the request.                          *)
LEMMA LeavesTurns ==
    ASSUME Types, NEW r \in Requests, NEW p \in {"answered", "gone"},
           NEW l \in Seq(Nat), NEW e \in Seq({"error", "done"}), Leaves(r, p, l, e)
    PROVE  Turns(r, p, NoConn, l, e)
BY DEF Types, Request, Leaves, Turns

(* A step of one request that leaves the workers alone keeps the invariant when  *)
(* it keeps that request's part of it.                                           *)
LEMMA Handled ==
    ASSUME BodyInv, NEW r \in Requests, NEW p, NEW c, NEW l, NEW e, Turns(r, p, c, l, e),
           chan' \in [Requests -> Seq(Nat)], \A q \in Requests \ {r} : chan'[q] = chan[q],
           jobs' = jobs, next' = next, panics' = panics,
           p \in Early => req[r].pc \in Early,
           Client(r)', Rest(r)'
    PROVE  BodyInv'
<1>1. Types' BY DEF BodyInv, Types, Turns
<1>2. OneJob'
  <2>1. ASSUME NEW d \in Conns, NEW i \in 1..Len(jobs[d]) PROVE req'[jobs[d][i]].pc \notin Early
    <3>1. jobs[d][i] \in Requests /\ req[jobs[d][i]].pc \notin Early BY DEF BodyInv, Types, OneJob
    <3>2. QED BY <3>1 DEF Turns
  <2>2. QED BY <2>1 DEF BodyInv, OneJob
<1>3. ASSUME NEW q \in Requests PROVE Client(q)' /\ Rest(q)'
  <2>1. CASE q = r BY <2>1
  <2>2. CASE q # r
    <3>1. req'[q] = req[q] /\ chan'[q] = chan[q] BY <2>2 DEF Turns
    <3>2. Client(q) /\ Rest(q) BY DEF BodyInv, Bodies
    <3>3. Client(q)' BY <3>1, <3>2 DEF Client
    <3>4. (Queued(q)' <=> Queued(q)) /\ (Failed(q)' <=> Failed(q)) BY <3>1 DEF Queued, Failed
    <3>5. (Items(q) => Items(q)') /\ (Progress(q) => Progress(q)') BY <3>1 DEF Items, Progress
    <3>6. Rest(q)' BY <3>1, <3>2, <3>4, <3>5 DEF Rest
    <3>7. QED BY <3>3, <3>6
  <2>3. QED BY <2>1, <2>2
<1>4. QED BY <1>1, <1>2, <1>3 DEF BodyInv, Bodies

\* What the other parts of the state do in a step of a request.
Quiet == chan' = chan /\ jobs' = jobs /\ next' = next /\ panics' = panics

(* A step that ends the request, or moves it before its query, with the lines    *)
(* it has.                                                                       *)
LEMMA EndsQuietly ==
    ASSUME BodyInv, NEW r \in Requests, NEW p \in {"checkout", "refused", "submit", "answered", "ending"},
           NEW c, NEW e \in Seq({"error", "done"}), Turns(r, p, c, req[r].lines, e),
           p \in {"checkout", "submit"} => req[r].pc \in {"none", "checkout"} /\ e = <<>>,
           p = "submit" => c \in Conns,
           p = "refused" => e = <<>>,
           p = "ending" => e = <<"error">>,
           p = "answered" => e \in {<<"error">>, <<"done">>},
           e = <<"done">> /\ panics = 0 => Len(req[r].lines) = Rows,
           chan' \in [Requests -> Seq(Nat)], \A q \in Requests \ {r} : chan'[q] = chan[q],
           p \in {"checkout", "submit"} => chan' = chan,
           jobs' = jobs, next' = next, panics' = panics
    PROVE  BodyInv'
<1>1. Client(r) BY DEF BodyInv, Bodies
<1>2. Client(r)'
  <2>1. req'[r].pc = p /\ req'[r].conn = c /\ req'[r].lines = req[r].lines /\ req'[r].end = e
    BY DEF Turns
  <2>2. p \in {"checkout", "submit"} => req[r].lines = <<>> /\ chan'[r] = <<>> BY <1>1 DEF Client
  <2>3. \A n \in 1..Len(req[r].lines) : req[r].lines[n] = n BY <1>1 DEF Client
  <2>4. QED BY <2>1, <2>2, <2>3 DEF Client
<1>3. Rest(r)' BY DEF Rest, Turns
<1>4. p \in Early => req[r].pc \in Early BY DEF Early
<1>5. QED BY <1>2, <1>3, <1>4, Handled

(* A request comes to an open or to a closed listener.                           *)
LEMMA ArrivesKeeps ==
    ASSUME BodyInv, NEW r \in Requests, Arrives(r)
    PROVE  BodyInv'
<1>1. Types BY DEF BodyInv
<1>2. PICK p \in {"checkout", "refused"} : ReqStep(r, [pc |-> p]) BY DEF Arrives
<1>3. Turns(r, p, req[r].conn, req[r].lines, req[r].end) BY <1>1, <1>2, StepTurns DEF InFlight
<1>4. req[r].pc = "none" /\ req[r].end = <<>> BY DEF Arrives, BodyInv, Bodies, Client
<1>5. chan' = chan /\ jobs' = jobs /\ next' = next /\ panics' = panics BY DEF Arrives, rowVars
<1>6. chan' \in [Requests -> Seq(Nat)] /\ req[r].end \in Seq({"error", "done"})
  BY <1>1, <1>5 DEF Types, Request
<1>7. QED BY <1>3, <1>4, <1>5, <1>6, EndsQuietly

(* A request that cannot be decoded is answered at once.                         *)
LEMMA RejectsKeeps ==
    ASSUME BodyInv, NEW r \in Requests, Rejects(r)
    PROVE  BodyInv'
<1>1. Types BY DEF BodyInv
<1>2. <<"error">> \in Seq({"error", "done"}) OBVIOUS
<1>3. Turns(r, "answered", req[r].conn, req[r].lines, <<"error">>)
  BY <1>1, <1>2, StepTurns DEF Rejects
<1>4. chan' = chan /\ jobs' = jobs /\ next' = next /\ panics' = panics BY DEF Rejects, rowVars
<1>5. chan' \in [Requests -> Seq(Nat)] BY <1>1, <1>4 DEF Types
<1>6. <<"error">> # <<"done">> OBVIOUS
<1>7. QED BY <1>2, <1>3, <1>4, <1>5, <1>6, EndsQuietly

(* The request takes a connection, or is answered that none is left.             *)
LEMMA CheckoutKeeps ==
    ASSUME BodyInv, NEW r \in Requests, Checkout(r)
    PROVE  BodyInv'
<1>1. Types BY DEF BodyInv
<1>2. <<"error">> \in Seq({"error", "done"}) OBVIOUS
<1>3. chan' = chan /\ jobs' = jobs /\ next' = next /\ panics' = panics BY DEF Checkout, rowVars
<1>4. chan' \in [Requests -> Seq(Nat)] BY <1>1, <1>3 DEF Types
<1>5. <<"error">> # <<"done">> OBVIOUS
<1>6. req[r].pc = "checkout" /\ req[r].end = <<>> BY DEF Checkout, BodyInv, Bodies, Client
<1>7. CASE \E c \in Conns \ Held : ReqStep(r, [pc |-> "submit", conn |-> c])
  <2>1. PICK c \in Conns : ReqStep(r, [pc |-> "submit", conn |-> c]) BY <1>7
  <2>2. Turns(r, "submit", c, req[r].lines, req[r].end) BY <1>1, <2>1, StepTurns DEF InFlight
  <2>3. req[r].end \in Seq({"error", "done"}) BY <1>6
  <2>4. QED BY <1>3, <1>4, <1>6, <2>2, <2>3, EndsQuietly
<1>8. CASE ReqStep(r, [pc |-> "answered", end |-> <<"error">>])
  <2>1. Turns(r, "answered", req[r].conn, req[r].lines, <<"error">>) BY <1>1, <1>2, <1>8, StepTurns
  <2>2. QED BY <1>2, <1>3, <1>4, <1>5, <2>1, EndsQuietly
<1>9. QED BY <1>7, <1>8 DEF Checkout

(* A failure leaves a stream with its error line, a call with its error.         *)
LEMMA FailsTurns ==
    ASSUME Types, NEW r \in Requests, req[r].end = <<>>, Fails(r)
    PROVE  \/ \E c : Turns(r, "ending", c, req[r].lines, <<"error">>)
           \/ \E c : Turns(r, "answered", c, req[r].lines, <<"error">>)
<1>1. <<"error">> \in Seq({"error", "done"}) /\ req[r].lines \in Seq(Nat) BY DEF Types, Request
<1>2. Append(req[r].end, "error") = <<"error">> OBVIOUS
<1>3. CASE r \in Streams
  <2>1. ReqStep(r, [pc |-> "ending", end |-> <<"error">>]) BY <1>2, <1>3 DEF Fails
  <2>2. Turns(r, "ending", req[r].conn, req[r].lines, <<"error">>) BY <1>1, <2>1, StepTurns DEF InFlight
  <2>3. QED BY <2>2
<1>4. CASE r \notin Streams
  <2>1. Turns(r, "answered", NoConn, req[r].lines, <<"error">>) BY <1>1, <1>4, LeavesTurns DEF Fails
  <2>2. QED BY <2>1
<1>5. QED BY <1>3, <1>4

(* The handler meets an error, on its worker or in its channel.                  *)
LEMMA FailsKeeps ==
    ASSUME BodyInv, NEW r \in Requests, Fails(r), req[r].pc \in {"submit", "reading"},
           chan' \in [Requests -> Seq(Nat)], \A q \in Requests \ {r} : chan'[q] = chan[q],
           jobs' = jobs, next' = next, panics' = panics
    PROVE  BodyInv'
<1>1. Types BY DEF BodyInv
<1>2. req[r].end = <<>> BY DEF BodyInv, Bodies, Client
<1>3. <<"error">> \in Seq({"error", "done"}) /\ <<"error">> # <<"done">> OBVIOUS
<1>4. CASE \E c : Turns(r, "ending", c, req[r].lines, <<"error">>)
  <2>1. PICK c : Turns(r, "ending", c, req[r].lines, <<"error">>) BY <1>4
  <2>2. QED BY <1>3, <2>1, EndsQuietly
<1>5. CASE \E c : Turns(r, "answered", c, req[r].lines, <<"error">>)
  <2>1. PICK c : Turns(r, "answered", c, req[r].lines, <<"error">>) BY <1>5
  <2>2. QED BY <1>3, <2>1, EndsQuietly
<1>6. QED BY <1>1, <1>2, <1>4, <1>5, FailsTurns

(* The reader sees its channel closed: every row was sent unless a thread died.  *)
LEMMA RowsEndKeeps ==
    ASSUME BodyInv, NEW r \in Requests, RowsEnd(r)
    PROVE  BodyInv'
<1>1. Types BY DEF BodyInv
<1>2. req[r].pc = "reading" /\ chan[r] = <<>> /\ req[r].end = <<>>
  BY DEF RowsEnd, BodyInv, Bodies, Client
<1>3. ~Queued(r) /\ ~Failed(r) BY <1>1, <1>2 DEF RowsEnd, Queued, Failed, Range, Types
<1>4. panics = 0 => Len(req[r].lines) = Rows
  <2>1. Rest(r) BY DEF BodyInv, Bodies
  <2>2. Len(req[r].lines) \in Nat BY <1>1 DEF Types, Request
  <2>3. QED BY <1>2, <1>3, <2>1, <2>2 DEF Rest
<1>5. <<"done">> \in Seq({"error", "done"}) /\ Append(req[r].end, "done") = <<"done">> BY <1>2
<1>6. req[r].lines \in Seq(Nat) BY <1>1 DEF Types, Request
<1>7. Turns(r, "answered", NoConn, req[r].lines, <<"done">>)
  BY <1>1, <1>5, <1>6, LeavesTurns DEF RowsEnd
<1>8. chan' = chan /\ jobs' = jobs /\ next' = next /\ panics' = panics BY DEF RowsEnd
<1>9. chan' \in [Requests -> Seq(Nat)] BY <1>1, <1>8 DEF Types
<1>10. QED BY <1>4, <1>5, <1>7, <1>8, <1>9, EndsQuietly

(* The body of a failed stream ends and gives its connection back.               *)
LEMMA BodyEndsKeeps ==
    ASSUME BodyInv, NEW r \in Requests, BodyEnds(r)
    PROVE  BodyInv'
<1>1. Types BY DEF BodyInv
<1>2. req[r].end = <<"error">> BY DEF BodyEnds, BodyInv, Bodies, Client
<1>3. <<"error">> \in Seq({"error", "done"}) /\ <<"error">> # <<"done">> OBVIOUS
<1>4. req[r].lines \in Seq(Nat) BY <1>1 DEF Types, Request
<1>5. Turns(r, "answered", NoConn, req[r].lines, <<"error">>)
  BY <1>1, <1>2, <1>3, <1>4, LeavesTurns DEF BodyEnds
<1>6. chan' = chan /\ jobs' = jobs /\ next' = next /\ panics' = panics BY DEF BodyEnds
<1>7. chan' \in [Requests -> Seq(Nat)] BY <1>1, <1>6 DEF Types
<1>8. QED BY <1>3, <1>5, <1>6, <1>7, EndsQuietly

(* The client goes away, and everything of its request is dropped.               *)
LEMMA DisconnectsKeeps ==
    ASSUME BodyInv, NEW r \in Requests, Disconnects(r)
    PROVE  BodyInv'
<1>1. Types BY DEF BodyInv
<1>2. Turns(r, "gone", NoConn, <<>>, <<>>)
  <2>1. <<>> \in Seq(Nat) /\ <<>> \in Seq({"error", "done"}) OBVIOUS
  <2>2. Leaves(r, "gone", <<>>, <<>>) BY DEF Disconnects
  <2>3. QED BY <1>1, <2>1, <2>2, LeavesTurns
<1>3. chan' = [chan EXCEPT ![r] = <<>>] BY DEF Disconnects
<1>4. chan' \in [Requests -> Seq(Nat)] /\ chan'[r] = <<>> /\ \A q \in Requests \ {r} : chan'[q] = chan[q]
  BY <1>1, <1>3 DEF Types
<1>5. jobs' = jobs /\ next' = next /\ panics' = panics BY DEF Disconnects
<1>6. Client(r)'
  <2>1. req'[r].pc = "gone" /\ req'[r].lines = <<>> /\ req'[r].end = <<>> BY <1>2 DEF Turns
  <2>2. <<>> # <<"done">> OBVIOUS
  <2>3. QED BY <1>4, <2>1, <2>2 DEF Client
<1>7. Rest(r)' BY <1>2 DEF Turns, Rest
<1>8. "gone" \in Early => req[r].pc \in Early BY DEF Early
<1>9. QED BY <1>2, <1>4, <1>5, <1>6, <1>7, <1>8, Handled

(* The query joins the inbox of its connection's worker, behind the others.      *)
LEMMA SubmitKeeps ==
    ASSUME BodyInv, NEW r \in Requests, Submit(r)
    PROVE  BodyInv'
<1>1. PICK c : c = req[r].conn OBVIOUS
<1>2. Types /\ OneJob BY DEF BodyInv
<1>3. req[r].pc = "submit" /\ c \in Conns /\ req[r].lines = <<>> /\ chan[r] = <<>> /\ req[r].end = <<>>
  BY <1>1 DEF Submit, BodyInv, Bodies, Client
<1>4. chan' = chan /\ next' = next /\ panics' = panics BY DEF Submit
<1>5. chan' \in [Requests -> Seq(Nat)] BY <1>2, <1>4 DEF Types
<1>6. CASE c \in dead
  <2>1. Fails(r) /\ jobs' = jobs BY <1>1, <1>6 DEF Submit
  <2>2. QED BY <1>3, <1>4, <1>5, <2>1, FailsKeeps
<1>7. CASE c \notin dead
  <2>1. ReqStep(r, [pc |-> "reading"]) /\ jobs' = [jobs EXCEPT ![c] = Append(@, r)]
    BY <1>1, <1>7 DEF Submit
  <2>2. Turns(r, "reading", c, <<>>, <<>>)
    <3>1. "reading" \in InFlight BY DEF InFlight
    <3>2. QED BY <1>1, <1>2, <1>3, <2>1, <3>1, StepTurns
  <2>3. jobs[c] \in Seq(Requests) /\ jobs \in [Conns -> Seq(Requests)] BY <1>2, <1>3 DEF Types
  <2>4. /\ jobs' \in [Conns -> Seq(Requests)]
        /\ \A d \in Conns \ {c} : jobs'[d] = jobs[d]
        /\ jobs'[c] = Append(jobs[c], r)
    BY <1>3, <2>1, <2>3
  <2>5. /\ Len(jobs'[c]) = Len(jobs[c]) + 1 /\ Len(jobs[c]) \in Nat
        /\ jobs'[c][Len(jobs[c]) + 1] = r
        /\ \A i \in 1..Len(jobs[c]) : jobs'[c][i] = jobs[c][i]
    BY <2>3, <2>4
  <2>6. \A d \in Conns : \A i \in 1..Len(jobs'[d]) :
           \/ i \in 1..Len(jobs[d]) /\ jobs'[d][i] = jobs[d][i]
           \/ d = c /\ i = Len(jobs[c]) + 1 /\ jobs'[d][i] = r
    BY <2>4, <2>5
  <2>7. \A d \in Conns : \A i \in 1..Len(jobs[d]) : i \in 1..Len(jobs'[d]) /\ jobs'[d][i] = jobs[d][i]
    BY <2>4, <2>5
  <2>8. \A d \in Conns : \A i \in 1..Len(jobs[d]) : jobs[d][i] # r
    BY <1>2, <1>3 DEF OneJob, Early
  <2>9. Types' BY <1>2, <1>4, <1>5, <2>2, <2>4 DEF Types, Turns
  <2>10. OneJob'
    <3>1. ASSUME NEW d \in Conns, NEW i \in 1..Len(jobs'[d]) PROVE req'[jobs'[d][i]].pc \notin Early
      <4>1. CASE i \in 1..Len(jobs[d]) /\ jobs'[d][i] = jobs[d][i]
        <5>1. jobs[d][i] \in Requests \ {r} /\ req[jobs[d][i]].pc \notin Early
          BY <1>2, <2>8, <4>1 DEF Types, OneJob
        <5>2. QED BY <2>2, <4>1, <5>1 DEF Turns
      <4>2. CASE jobs'[d][i] = r BY <2>2, <4>2 DEF Turns, Early
      <4>3. QED BY <2>6, <4>1, <4>2
    <3>2. ASSUME NEW d \in Conns, NEW f \in Conns, NEW i \in 1..Len(jobs'[d]), NEW k \in 1..Len(jobs'[f]),
                 jobs'[d][i] = jobs'[f][k]
          PROVE  d = f /\ i = k
      <4>1. CASE i \in 1..Len(jobs[d]) /\ jobs'[d][i] = jobs[d][i]
        <5>1. k \in 1..Len(jobs[f]) /\ jobs'[f][k] = jobs[f][k] BY <2>6, <2>8, <3>2, <4>1
        <5>2. jobs[d][i] = jobs[f][k] BY <3>2, <4>1, <5>1
        <5>3. i \in 1..Len(jobs[d]) /\ k \in 1..Len(jobs[f]) BY <4>1, <5>1
        <5>4. QED BY <1>2, <5>2, <5>3 DEF OneJob
      <4>2. CASE d = c /\ i = Len(jobs[c]) + 1 /\ jobs'[d][i] = r
        <5>1. f = c /\ k = Len(jobs[c]) + 1 BY <2>6, <2>8, <3>2, <4>2
        <5>2. QED BY <4>2, <5>1
      <4>3. QED BY <2>6, <4>1, <4>2
    <3>3. ASSUME NEW d \in Conns, jobs'[d] = <<>> PROVE next'[d] = 1
      <4>1. d # c BY <2>5, <3>3
      <4>2. QED BY <1>2, <1>4, <2>4, <3>3, <4>1 DEF OneJob
    <3>4. QED BY <3>1, <3>2, <3>3 DEF OneJob
  <2>11. ASSUME NEW q \in Requests, q # r PROVE Client(q)' /\ Rest(q)'
    <3>1. req'[q] = req[q] /\ chan'[q] = chan[q] BY <1>4, <2>2, <2>11 DEF Turns
    <3>2. Client(q) /\ Rest(q) BY DEF BodyInv, Bodies
    <3>3. Client(q)' BY <1>4, <3>1, <3>2 DEF Client
    <3>4. Queued(q)' <=> Queued(q)
      <4>1. Queued(q)' => Queued(q) BY <2>6, <2>11 DEF Queued
      <4>2. Queued(q) => Queued(q)' BY <2>7 DEF Queued
      <4>3. QED BY <4>1, <4>2
    <3>5. (Failed(q)' <=> Failed(q)) /\ (Items(q) => Items(q)') BY <3>1 DEF Failed, Items
    <3>6. Progress(q) => Progress(q)' BY <1>4, <2>6, <2>11, <3>1 DEF Progress
    <3>7. Rest(q)' BY <1>4, <3>1, <3>2, <3>4, <3>5, <3>6 DEF Rest
    <3>8. QED BY <3>3, <3>7
  <2>12. req'[r].pc = "reading" /\ req'[r].conn = c /\ req'[r].lines = <<>> /\ req'[r].end = <<>>
    BY <2>2 DEF Turns
  <2>13. Client(r)'
    <3>1. <<>> # <<"done">> /\ \A n \in 1..Len(<<>>) : FALSE OBVIOUS
    <3>2. QED BY <1>3, <2>12, <3>1 DEF Client
  <2>14. Rest(r)'
    <3>1. chan'[r] = <<>> /\ Len(<<>>) = 0 BY <1>3, <1>4
    <3>2. Items(r)' BY <3>1 DEF Items
    <3>3. ~Failed(r)' BY <3>1 DEF Failed
    <3>4. Queued(r)'
      <4>1. Len(jobs[c]) + 1 \in 1..Len(jobs'[c]) BY <2>5
      <4>2. QED BY <1>3, <2>5, <4>1 DEF Queued
    <3>5. Progress(r)'
      <4> SUFFICES ASSUME NEW d \in Conns, NEW i \in 1..Len(jobs'[d]), jobs'[d][i] = r, i = 1
                   PROVE  0 = next'[d] - 1
        BY <2>12, <3>1 DEF Progress
      <4>1. d = c /\ Len(jobs[c]) = 0 BY <2>5, <2>6, <2>8
      <4>2. jobs[c] = <<>> BY <2>3, <4>1
      <4>3. next[c] = 1 BY <1>2, <1>3, <4>2 DEF OneJob
      <4>4. QED BY <1>4, <4>1, <4>3
    <3>6. QED BY <3>2, <3>3, <3>4, <3>5 DEF Rest
  <2>15. Bodies' BY <2>11, <2>13, <2>14 DEF Bodies
  <2>16. QED BY <2>9, <2>10, <2>15 DEF BodyInv
<1>8. QED BY <1>6, <1>7

(* The client takes the channel's first item.                                    *)
LEMMA TakesItemKeeps ==
    ASSUME BodyInv, NEW r \in Requests, TakesItem(r)
    PROVE  BodyInv'
<1>1. Types BY DEF BodyInv
<1>2. req[r].pc = "reading" /\ chan[r] # <<>> /\ chan[r] \in Seq(Nat) /\ req[r].lines \in Seq(Nat)
  BY <1>1 DEF TakesItem, Types, Request
<1>3. chan' = [chan EXCEPT ![r] = Tail(@)] BY DEF TakesItem
<1>4. chan' \in [Requests -> Seq(Nat)] /\ chan'[r] = Tail(chan[r]) /\ \A q \in Requests \ {r} : chan'[q] = chan[q]
  BY <1>1, <1>2, <1>3 DEF Types
<1>5. jobs' = jobs /\ next' = next /\ panics' = panics BY DEF TakesItem
<1>6. CASE Head(chan[r]) = Fail
  <2>1. Fails(r) BY <1>6 DEF TakesItem
  <2>2. QED BY <1>2, <1>4, <1>5, <2>1, FailsKeeps
<1>7. CASE Head(chan[r]) # Fail
  <2>1. PICK h : h = Head(chan[r]) OBVIOUS
  <2>2. h \in Nat /\ h = chan[r][1] /\ Len(chan[r]) \in Nat \ {0} /\ Len(req[r].lines) \in Nat
    BY <1>2, <2>1
  <2>3. Append(req[r].lines, h) \in Seq(Nat) BY <1>2, <2>2
  <2>4. ReqStep(r, [lines |-> Append(req[r].lines, h)]) BY <1>7, <2>1 DEF TakesItem
  <2>5. Turns(r, "reading", req[r].conn, Append(req[r].lines, h), req[r].end)
    BY <1>1, <1>2, <2>3, <2>4, StepTurns
  <2>6. Client(r) /\ Items(r) /\ Progress(r) /\ (Failed(r) => ~Queued(r))
        /\ (~Queued(r) /\ ~Failed(r) /\ panics = 0 => Len(req[r].lines) + Len(chan[r]) = Rows)
    BY <1>2 DEF BodyInv, Bodies, Rest
  <2>7. h = Len(req[r].lines) + 1
    <3>1. 1 \in 1..Len(chan[r]) BY <2>2
    <3>2. h # Fail BY <1>7, <2>1
    <3>3. QED BY <2>2, <2>6, <3>1, <3>2 DEF Items
  <2>8. /\ Len(req'[r].lines) = Len(req[r].lines) + 1
        /\ \A n \in 1..Len(req[r].lines) : req'[r].lines[n] = req[r].lines[n]
        /\ req'[r].lines[Len(req[r].lines) + 1] = Len(req[r].lines) + 1
    BY <1>2, <2>2, <2>5, <2>7 DEF Turns
  <2>9. /\ Len(chan'[r]) = Len(chan[r]) - 1
        /\ \A i \in 1..(Len(chan[r]) - 1) : chan'[r][i] = chan[r][i + 1]
    BY <1>2, <1>4
  <2>10. PICK a \in Nat, m \in Nat \ {0} :
            /\ Len(req[r].lines) = a /\ Len(chan[r]) = m
            /\ Len(req'[r].lines) = a + 1 /\ Len(chan'[r]) = m - 1
    <3>1. Len(req[r].lines) \in Nat /\ Len(chan[r]) \in Nat \ {0} BY <2>2
    <3>2. Len(req'[r].lines) = Len(req[r].lines) + 1 BY <2>8
    <3>3. Len(chan'[r]) = Len(chan[r]) - 1 BY <2>9
    <3>4. QED BY <3>1, <3>2, <3>3, Zenon
  <2>11. Client(r)'
    <3>1. req'[r].pc = "reading" /\ req'[r].conn = req[r].conn /\ req'[r].end = <<>>
      BY <1>2, <2>5, <2>6 DEF Turns, Client
    <3>2. \A n \in 1..Len(req[r].lines) : req[r].lines[n] = n BY <2>6 DEF Client
    <3>3. ASSUME NEW n \in 1..Len(req'[r].lines) PROVE req'[r].lines[n] = n
      <4>1. n \in 1..a \/ n = a + 1 BY <2>10
      <4>2. CASE n \in 1..a BY <2>8, <2>10, <3>2, <4>2
      <4>3. CASE n = a + 1 BY <2>8, <2>10, <4>3
      <4>4. QED BY <4>1, <4>2, <4>3
    <3>4. req[r].conn \in Conns BY <1>2, <2>6 DEF Client
    <3>5. <<>> # <<"done">> OBVIOUS
    <3>6. QED BY <3>1, <3>3, <3>4, <3>5 DEF Client
  <2>12. Items(r)'
    <3> SUFFICES ASSUME NEW i \in 1..Len(chan'[r])
                 PROVE  chan'[r][i] = Len(req'[r].lines) + i \/ (i = Len(chan'[r]) /\ chan'[r][i] = Fail)
      BY DEF Items
    <3>1. i + 1 \in 1..Len(chan[r]) /\ chan'[r][i] = chan[r][i + 1] BY <2>9, <2>10
    <3>2. chan[r][i + 1] = Len(req[r].lines) + (i + 1) \/ (i + 1 = Len(chan[r]) /\ chan[r][i + 1] = Fail)
      BY <2>6, <3>1 DEF Items
    <3>3. chan[r][i + 1] = a + (i + 1) \/ (i + 1 = m /\ chan[r][i + 1] = Fail) BY <2>10, <3>2
    <3>4. i \in Nat BY <2>10
    <3>5. a + (i + 1) = (a + 1) + i /\ (i + 1 = m => i = m - 1) BY <3>4
    <3>6. QED BY <2>10, <3>1, <3>3, <3>5
  <2>13. Failed(r)' <=> Failed(r)
    <3>1. CASE Len(chan[r]) = 1
      <4>1. ~Failed(r) BY <1>7, <2>1, <2>2, <3>1 DEF Failed
      <4>2. Len(chan'[r]) = 0 BY <2>9, <3>1
      <4>3. chan'[r] \in Seq(Nat) BY <1>4
      <4>4. chan'[r] = <<>> BY <4>2, <4>3
      <4>5. QED BY <4>1, <4>4 DEF Failed
    <3>2. CASE Len(chan[r]) # 1
      <4>1. Len(chan'[r]) \in 1..(Len(chan[r]) - 1) BY <2>10, <3>2
      <4>2. chan'[r][Len(chan'[r])] = chan[r][Len(chan[r])] BY <2>2, <2>9, <4>1
      <4>3. chan'[r] # <<>> BY <4>1
      <4>4. QED BY <1>2, <4>2, <4>3 DEF Failed
    <3>3. QED BY <3>1, <3>2
  <2>14. Queued(r)' <=> Queued(r) BY <1>5 DEF Queued
  <2>15. Progress(r)'
    <3> SUFFICES ASSUME NEW d \in Conns, NEW i \in 1..Len(jobs[d]), jobs[d][i] = r
                 PROVE  i = 1 /\ Len(req'[r].lines) + Len(chan'[r]) = next[d] - 1
      BY <1>5 DEF Progress
    <3>1. i = 1 /\ Len(req[r].lines) + Len(chan[r]) = next[d] - 1 BY <1>2, <2>6 DEF Progress
    <3>2. (a + 1) + (m - 1) = a + m OBVIOUS
    <3>3. QED BY <2>10, <3>1, <3>2
  <2>16. Rest(r)'
    <3>1. (a + 1) + (m - 1) = a + m OBVIOUS
    <3>2. Len(req'[r].lines) + Len(chan'[r]) = Len(req[r].lines) + Len(chan[r]) BY <2>10, <3>1
    <3>3. QED BY <1>5, <2>6, <2>12, <2>13, <2>14, <2>15, <3>2 DEF Rest
  <2>17. "reading" \notin Early BY DEF Early
  <2>18. "reading" \in Early => req[r].pc \in Early BY <2>17
  <2>19. QED BY <1>4, <1>5, <2>5, <2>11, <2>16, <2>18, Handled
<1>8. QED BY <1>6, <1>7

\* ------------------------------------------------------------------ steps of a worker
(* A job in the inbox: whose it is, and how far it has come.                     *)
LEMMA Waiting ==
    ASSUME BodyInv, NEW c \in Conns, jobs[c] # <<>>
    PROVE  /\ jobs[c] \in Seq(Requests) /\ Len(jobs[c]) \in Nat \ {0} /\ 1 \in 1..Len(jobs[c])
           /\ Head(jobs[c]) = jobs[c][1] /\ Head(jobs[c]) \in Requests
           /\ req[Head(jobs[c])].pc \notin Early
           /\ Queued(Head(jobs[c]))
           /\ \A d \in Conns : \A i \in 1..Len(jobs[d]) : jobs[d][i] = Head(jobs[c]) => d = c /\ i = 1
<1>1. jobs[c] \in Seq(Requests) /\ OneJob BY DEF BodyInv, Types
<1>2. Len(jobs[c]) \in Nat \ {0} /\ Head(jobs[c]) = jobs[c][1] /\ Head(jobs[c]) \in Requests BY <1>1
<1>3. 1 \in 1..Len(jobs[c]) BY <1>2
<1>4. \A d \in Conns : \A i \in 1..Len(jobs[d]) : jobs[d][i] = jobs[c][1] => d = c /\ i = 1
  BY <1>1, <1>3 DEF OneJob
<1>5. req[jobs[c][1]].pc \notin Early BY <1>1, <1>3 DEF OneJob
<1>6. QED BY <1>1, <1>2, <1>3, <1>4, <1>5 DEF Queued

(* Fewer jobs: what remains is where it was, or one place further ahead.         *)
Fewer(d, i) ==
    \/ i \in 1..Len(jobs[d]) /\ jobs'[d][i] = jobs[d][i] /\ next'[d] = next[d]
    \/ i + 1 \in 1..Len(jobs[d]) /\ jobs'[d][i] = jobs[d][i + 1] /\ next'[d] = 1

(* Inboxes that lose jobs at their head, or all of them, hold no job twice.      *)
LEMMA FewerOneJob ==
    ASSUME BodyInv, req' = req, jobs' \in [Conns -> Seq(Requests)],
           \A d \in Conns : \A i \in 1..Len(jobs'[d]) : Fewer(d, i),
           \A d \in Conns : \A i, k \in 1..Len(jobs'[d]) :
               (i \in 1..Len(jobs[d]) /\ jobs'[d][i] = jobs[d][i]
                  /\ k \in 1..Len(jobs[d]) /\ jobs'[d][k] = jobs[d][k])
               \/ (i + 1 \in 1..Len(jobs[d]) /\ jobs'[d][i] = jobs[d][i + 1]
                  /\ k + 1 \in 1..Len(jobs[d]) /\ jobs'[d][k] = jobs[d][k + 1]),
           \A d \in Conns : next'[d] = 1 \/ (jobs'[d] = jobs[d] /\ next'[d] = next[d])
    PROVE  OneJob'
<1>1. OneJob BY DEF BodyInv
<1>2. ASSUME NEW d \in Conns, NEW i \in 1..Len(jobs'[d])
      PROVE  \E j \in 1..Len(jobs[d]) : jobs'[d][i] = jobs[d][j]
  BY DEF Fewer
<1>3. ASSUME NEW d \in Conns, NEW i \in 1..Len(jobs'[d]) PROVE req'[jobs'[d][i]].pc \notin Early
  <2>1. PICK j \in 1..Len(jobs[d]) : jobs'[d][i] = jobs[d][j] BY <1>2
  <2>2. QED BY <1>1, <2>1 DEF OneJob
<1>4. ASSUME NEW d \in Conns, NEW f \in Conns, NEW i \in 1..Len(jobs'[d]), NEW k \in 1..Len(jobs'[f]),
             jobs'[d][i] = jobs'[f][k]
      PROVE  d = f /\ i = k
  <2>1. PICK j \in 1..Len(jobs[d]) : jobs'[d][i] = jobs[d][j] BY <1>2
  <2>2. PICK m \in 1..Len(jobs[f]) : jobs'[f][k] = jobs[f][m] BY <1>2
  <2>3. jobs[d][j] = jobs[f][m] BY <1>4, <2>1, <2>2
  <2>4. d = f BY <1>1, <2>3 DEF OneJob
  <2>5. i = k
    <3>1. k \in 1..Len(jobs'[d]) /\ jobs'[d][i] = jobs'[d][k] BY <1>4, <2>4
    <3>2. CASE i \in 1..Len(jobs[d]) /\ jobs'[d][i] = jobs[d][i]
               /\ k \in 1..Len(jobs[d]) /\ jobs'[d][k] = jobs[d][k]
      <4>1. jobs[d][i] = jobs[d][k] BY <3>1, <3>2
      <4>2. QED BY <1>1, <3>2, <4>1 DEF OneJob
    <3>3. CASE i + 1 \in 1..Len(jobs[d]) /\ jobs'[d][i] = jobs[d][i + 1]
               /\ k + 1 \in 1..Len(jobs[d]) /\ jobs'[d][k] = jobs[d][k + 1]
      <4>1. jobs[d][i + 1] = jobs[d][k + 1] BY <3>1, <3>3
      <4>2. i + 1 = k + 1 BY <1>1, <3>3, <4>1 DEF OneJob
      <4>3. jobs'[d] \in Seq(Requests) OBVIOUS
      <4>4. i \in Nat /\ k \in Nat BY <3>1, <4>3
      <4>5. QED BY <4>2, <4>4
    <3>4. QED BY <3>1, <3>2, <3>3
  <2>6. QED BY <2>4, <2>5
<1>5. ASSUME NEW d \in Conns, jobs'[d] = <<>> PROVE next'[d] = 1
  BY <1>1, <1>5 DEF OneJob
<1>6. QED BY <1>3, <1>4, <1>5 DEF OneJob

(* A request whose channel stays and whose job, if it still waits, moves ahead.  *)
LEMMA FewerElsewhere ==
    ASSUME BodyInv, NEW q \in Requests, req' = req, chan'[q] = chan[q],
           \A d \in Conns : \A i \in 1..Len(jobs'[d]) : Fewer(d, i),
           jobs' \in [Conns -> Seq(Requests)],
           \/ panics' = panics /\ (Queued(q) => Queued(q)')
           \/ panics' \in Nat \ {0}
    PROVE  Client(q)' /\ Rest(q)'
<1>1. Client(q) /\ Rest(q) BY DEF BodyInv, Bodies
<1>2. panics' = 0 => panics = 0 OBVIOUS
<1>3. Client(q)' BY <1>1, <1>2 DEF Client
<1>4. Queued(q)' => Queued(q)
  <2>1. ASSUME NEW d \in Conns, NEW i \in 1..Len(jobs'[d]), jobs'[d][i] = q PROVE Queued(q)
    <3>1. Fewer(d, i) OBVIOUS
    <3>2. QED BY <2>1, <3>1 DEF Fewer, Queued
  <2>2. QED BY <2>1 DEF Queued
<1>5. (Failed(q)' <=> Failed(q)) /\ (Items(q) => Items(q)') BY DEF Failed, Items
<1>6. ASSUME Progress(q) PROVE Progress(q)'
  <2> SUFFICES ASSUME NEW d \in Conns, NEW i \in 1..Len(jobs'[d]), jobs'[d][i] = q
               PROVE  IF i = 1 THEN Len(req[q].lines) + Len(chan[q]) = next'[d] - 1
                               ELSE req[q].lines = <<>> /\ chan[q] = <<>>
    BY DEF Progress
  <2>1. CASE i \in 1..Len(jobs[d]) /\ jobs'[d][i] = jobs[d][i] /\ next'[d] = next[d]
    BY <1>6, <2>1 DEF Progress
  <2>2. CASE i + 1 \in 1..Len(jobs[d]) /\ jobs'[d][i] = jobs[d][i + 1] /\ next'[d] = 1
    <3>1. jobs'[d] \in Seq(Requests) OBVIOUS
    <3>2. i \in Nat \ {0} BY <3>1
    <3>3. i + 1 # 1 BY <3>2
    <3>4. req[q].lines = <<>> /\ chan[q] = <<>> BY <1>6, <2>2, <3>3 DEF Progress
    <3>5. Len(req[q].lines) = 0 /\ Len(chan[q]) = 0 BY <3>4
    <3>6. 0 + 0 = 1 - 1 OBVIOUS
    <3>7. Len(req[q].lines) + Len(chan[q]) = next'[d] - 1 BY <2>2, <3>5, <3>6
    <3>8. QED BY <3>4, <3>7
  <2>3. Fewer(d, i) OBVIOUS
  <2>4. QED BY <2>1, <2>2, <2>3 DEF Fewer
<1>7. QED BY <1>1, <1>2, <1>3, <1>4, <1>5, <1>6 DEF Rest

(* The running query's job ends, and its channel is what its reader is owed.     *)
LEMMA JobEndsKeeps ==
    ASSUME BodyInv, NEW c \in Conns, jobs[c] # <<>>, JobEnds(c), req' = req, panics' = panics,
           NEW r, r = Head(jobs[c]),
           chan' \in [Requests -> Seq(Nat)], \A q \in Requests \ {r} : chan'[q] = chan[q],
           req[r].pc = "reading" =>
               Items(r)' /\ (~Failed(r)' /\ panics = 0 => Len(req[r].lines) + Len(chan'[r]) = Rows),
           req[r].pc # "reading" => chan'[r] = chan[r]
    PROVE  BodyInv'
<1>1. Types BY DEF BodyInv
<1>2. jobs \in [Conns -> Seq(Requests)] /\ next \in [Conns -> 1..(Rows + 1)] BY <1>1 DEF Types
<1>3. /\ jobs[c] \in Seq(Requests) /\ Len(jobs[c]) \in Nat \ {0} /\ r = jobs[c][1] /\ r \in Requests
      /\ \A d \in Conns : \A i \in 1..Len(jobs[d]) : jobs[d][i] = r => d = c /\ i = 1
      /\ req[r].pc \notin Early
  BY Waiting
<1>4. /\ jobs' = [jobs EXCEPT ![c] = Tail(@)] /\ next' = [next EXCEPT ![c] = 1] BY DEF JobEnds
<1>5. /\ \A d \in Conns \ {c} : jobs'[d] = jobs[d] /\ next'[d] = next[d]
      /\ jobs'[c] = Tail(jobs[c]) /\ next'[c] = 1
  BY <1>2, <1>4
<1>6. 1 \in 1..(Rows + 1) OBVIOUS
<1>7. jobs' \in [Conns -> Seq(Requests)] /\ next' \in [Conns -> 1..(Rows + 1)]
  BY <1>2, <1>3, <1>4, <1>6
<1>8. \A i \in 1..Len(jobs'[c]) : i + 1 \in 1..Len(jobs[c]) /\ jobs'[c][i] = jobs[c][i + 1] /\ i \in Nat \ {0}
  BY <1>3, <1>5
<1>9. \A i \in 2..Len(jobs[c]) : i - 1 \in 1..Len(jobs'[c]) /\ jobs'[c][i - 1] = jobs[c][i]
  BY <1>3, <1>5
<1>10. \A d \in Conns : \A i \in 1..Len(jobs'[d]) : Fewer(d, i) BY <1>5, <1>8 DEF Fewer
<1>11. Types' BY <1>1, <1>7 DEF Types
<1>12. OneJob'
  <2>1. \A d \in Conns : \A i, k \in 1..Len(jobs'[d]) :
               (i \in 1..Len(jobs[d]) /\ jobs'[d][i] = jobs[d][i]
                  /\ k \in 1..Len(jobs[d]) /\ jobs'[d][k] = jobs[d][k])
               \/ (i + 1 \in 1..Len(jobs[d]) /\ jobs'[d][i] = jobs[d][i + 1]
                  /\ k + 1 \in 1..Len(jobs[d]) /\ jobs'[d][k] = jobs[d][k + 1])
    BY <1>5, <1>8
  <2>2. \A d \in Conns : next'[d] = 1 \/ (jobs'[d] = jobs[d] /\ next'[d] = next[d]) BY <1>5
  <2>3. QED BY <1>7, <1>10, <2>1, <2>2, FewerOneJob
<1>13. ASSUME NEW q \in Requests, q # r PROVE Client(q)' /\ Rest(q)'
  <2>1. Queued(q) => Queued(q)'
    <3> SUFFICES ASSUME NEW d \in Conns, NEW i \in 1..Len(jobs[d]), jobs[d][i] = q PROVE Queued(q)'
      BY DEF Queued
    <3>1. CASE d # c BY <1>5, <3>1 DEF Queued
    <3>2. CASE d = c
      <4>1. i # 1 BY <1>3, <1>13, <3>2
      <4>2. i \in 2..Len(jobs[c]) BY <1>3, <3>2, <4>1
      <4>3. jobs'[c][i - 1] = q /\ i - 1 \in 1..Len(jobs'[c]) BY <1>9, <3>2, <4>2
      <4>4. QED BY <4>3 DEF Queued
    <3>3. QED BY <3>1, <3>2
  <2>2. chan'[q] = chan[q] BY <1>13
  <2>3. QED BY <1>7, <1>10, <2>1, <2>2, FewerElsewhere
<1>14. Client(r)' /\ Rest(r)'
  <2>1. Client(r) BY <1>3 DEF BodyInv, Bodies
  <2>2. Client(r)' BY <1>3, <2>1 DEF Client, Early
  <2>3. ~Queued(r)'
    <3> SUFFICES ASSUME NEW d \in Conns, NEW i \in 1..Len(jobs'[d]), jobs'[d][i] = r PROVE FALSE
      BY DEF Queued
    <3>1. CASE d # c BY <1>3, <1>5, <3>1, SMTT(30)
    <3>2. CASE d = c
      <4>1. i + 1 \in 1..Len(jobs[c]) /\ jobs[c][i + 1] = r /\ i \in Nat \ {0} BY <1>8, <3>2
      <4>2. i + 1 = 1 BY <1>3, <4>1
      <4>3. QED BY <4>1, <4>2
    <3>3. QED BY <3>1, <3>2
  <2>4. Progress(r)' BY <2>3 DEF Queued, Progress
  <2>5. QED BY <2>2, <2>3, <2>4 DEF Rest
<1>15. Bodies' BY <1>13, <1>14 DEF Bodies
<1>16. QED BY <1>11, <1>12, <1>15 DEF BodyInv

(* The worker sends a row to a reader that has room, or finds it gone.           *)
LEMMA SendsRowKeeps ==
    ASSUME BodyInv, NEW c \in Conns, SendsRow(c)
    PROVE  BodyInv'
<1>1. PICK r : r = Head(jobs[c]) OBVIOUS
<1>2. Types BY DEF BodyInv
<1>3. jobs[c] # <<>> /\ next[c] <= Rows BY DEF SendsRow
<1>4. /\ r = jobs[c][1] /\ 1 \in 1..Len(jobs[c]) /\ r \in Requests /\ req[r].pc \notin Early /\ Queued(r)
      /\ \A d \in Conns : \A i \in 1..Len(jobs[d]) : jobs[d][i] = r => d = c /\ i = 1
  BY <1>1, <1>3, Waiting
<1>5. req' = req /\ panics' = panics BY DEF SendsRow
<1>6. CASE ~Listens(r) /\ JobEnds(c) /\ UNCHANGED chan
  <2>1. chan' \in [Requests -> Seq(Nat)] /\ chan' = chan BY <1>2, <1>6 DEF Types
  <2>2. req[r].pc # "reading" BY <1>6 DEF Listens
  <2>3. QED BY <1>1, <1>3, <1>5, <1>6, <2>1, <2>2, JobEndsKeeps
<1>7. CASE /\ Listens(r) /\ Room(r)
           /\ chan' = [chan EXCEPT ![r] = Append(@, next[c])]
           /\ next' = [next EXCEPT ![c] = @ + 1] /\ UNCHANGED jobs
  <2>1. req[r].pc = "reading" /\ jobs' = jobs BY <1>7 DEF Listens
  <2>2. next[c] \in 1..(Rows + 1) /\ chan[r] \in Seq(Nat) /\ req[r].lines \in Seq(Nat)
    BY <1>2, <1>4 DEF Types, Request
  <2>3. next[c] \in Nat \ {0} /\ next[c] + 1 \in 1..(Rows + 1) BY <1>3, <2>2
  <2>4. chan' \in [Requests -> Seq(Nat)] /\ chan'[r] = Append(chan[r], next[c])
        /\ \A q \in Requests \ {r} : chan'[q] = chan[q]
    BY <1>2, <1>4, <1>7, <2>2, <2>3 DEF Types
  <2>5. next' \in [Conns -> 1..(Rows + 1)] /\ next'[c] = next[c] + 1 /\ \A d \in Conns \ {c} : next'[d] = next[d]
    BY <1>2, <1>7, <2>3 DEF Types
  <2>6. Types' BY <1>2, <1>5, <2>1, <2>4, <2>5 DEF Types
  <2>7. OneJob'
    <3>1. OneJob BY DEF BodyInv
    <3>2. ASSUME NEW d \in Conns, jobs[d] = <<>> PROVE next'[d] = 1
      <4>1. d # c BY <1>3, <3>2
      <4>2. QED BY <2>5, <3>1, <3>2, <4>1 DEF OneJob
    <3>3. QED BY <1>5, <2>1, <3>1, <3>2 DEF OneJob
  <2>8. ASSUME NEW q \in Requests, q # r PROVE Client(q)' /\ Rest(q)'
    <3>1. chan'[q] = chan[q] /\ req'[q] = req[q] BY <1>5, <2>4, <2>8
    <3>2. Client(q) /\ Rest(q) BY DEF BodyInv, Bodies
    <3>3. Client(q)' BY <1>5, <3>1, <3>2 DEF Client
    <3>4. (Queued(q)' <=> Queued(q)) /\ (Failed(q)' <=> Failed(q)) BY <2>1, <3>1 DEF Queued, Failed
    <3>5. Items(q) => Items(q)' BY <3>1 DEF Items
    <3>6. ASSUME Progress(q) PROVE Progress(q)'
      <4> SUFFICES ASSUME NEW d \in Conns, NEW i \in 1..Len(jobs[d]), jobs[d][i] = q
                   PROVE  IF i = 1 THEN Len(req[q].lines) + Len(chan[q]) = next'[d] - 1
                                   ELSE req[q].lines = <<>> /\ chan[q] = <<>>
        BY <2>1, <3>1 DEF Progress
      <4>1. CASE d = c
        <5>1. i # 1 BY <1>4, <2>8, <4>1
        <5>2. QED BY <3>6, <5>1 DEF Progress
      <4>2. CASE d # c BY <2>5, <3>6, <4>2 DEF Progress
      <4>3. QED BY <4>1, <4>2
    <3>7. Rest(q)' BY <1>5, <3>1, <3>2, <3>4, <3>5, <3>6 DEF Rest
    <3>8. QED BY <3>3, <3>7
  <2>9. Client(r) /\ Rest(r) BY <1>4 DEF BodyInv, Bodies
  <2>10. Client(r)' BY <1>5, <2>1, <2>9 DEF Client
  <2>11. Items(r) /\ ~Failed(r) /\ Len(req[r].lines) + Len(chan[r]) = next[c] - 1
    BY <1>4, <2>1, <2>9 DEF Rest, Progress
  <2>12. PICK a \in Nat, m \in Nat :
            /\ Len(req[r].lines) = a /\ Len(chan[r]) = m
    BY <2>2
  <2>13. /\ Len(chan'[r]) = m + 1 /\ chan'[r][m + 1] = next[c]
         /\ \A i \in 1..m : chan'[r][i] = chan[r][i]
    BY <2>2, <2>3, <2>4, <2>12
  <2>14. next[c] = a + (m + 1)
    <3>1. a + m = next[c] - 1 BY <2>11, <2>12
    <3>2. QED BY <2>3, <3>1
  <2>15. Items(r)'
    <3> SUFFICES ASSUME NEW i \in 1..(m + 1) PROVE chan'[r][i] = a + i
      BY <1>5, <2>12, <2>13 DEF Items
    <3>1. CASE i = m + 1 BY <2>13, <2>14, <3>1
    <3>2. CASE i \in 1..m
      <4>1. chan[r][i] = a + i \/ (i = m /\ chan[r][i] = Fail) BY <2>11, <2>12, <3>2 DEF Items
      <4>2. ~(i = m /\ chan[r][i] = Fail) BY <2>2, <2>11, <2>12, <3>2 DEF Failed
      <4>3. QED BY <2>13, <3>2, <4>1, <4>2
    <3>3. QED BY <3>1, <3>2
  <2>16. ~Failed(r)' BY <2>3, <2>13 DEF Failed, Fail
  <2>17. Queued(r)' BY <1>4, <2>1 DEF Queued
  <2>18. Progress(r)'
    <3>1. a + (m + 1) = (next[c] + 1) - 1 BY <2>3, <2>14
    <3>2. \A d \in Conns : \A i \in 1..Len(jobs[d]) : jobs[d][i] = r =>
             i = 1 /\ Len(req'[r].lines) + Len(chan'[r]) = next'[d] - 1
      BY <1>4, <1>5, <2>5, <2>12, <2>13, <3>1
    <3>3. QED BY <2>1, <3>2 DEF Progress
  <2>19. Rest(r)' BY <2>15, <2>16, <2>17, <2>18 DEF Rest
  <2>20. Bodies' BY <2>8, <2>10, <2>19 DEF Bodies
  <2>21. QED BY <2>6, <2>7, <2>20 DEF BodyInv
<1>8. QED BY <1>1, <1>6, <1>7 DEF SendsRow

(* The query fails: its error comes after the rows it has sent.                  *)
LEMMA QueryFailsKeeps ==
    ASSUME BodyInv, NEW c \in Conns, QueryFails(c)
    PROVE  BodyInv'
<1>1. PICK r : r = Head(jobs[c]) OBVIOUS
<1>2. Types BY DEF BodyInv
<1>3. jobs[c] # <<>> /\ JobEnds(c) BY DEF QueryFails
<1>4. r \in Requests /\ req[r].pc \notin Early /\ Queued(r) BY <1>1, <1>3, Waiting
<1>5. req' = req /\ panics' = panics BY DEF QueryFails
<1>6. CASE ~Listens(r) /\ UNCHANGED chan
  <2>1. chan' \in [Requests -> Seq(Nat)] /\ chan' = chan BY <1>2, <1>6 DEF Types
  <2>2. req[r].pc # "reading" BY <1>6 DEF Listens
  <2>3. QED BY <1>1, <1>3, <1>5, <2>1, <2>2, JobEndsKeeps
<1>7. CASE Listens(r) /\ Room(r) /\ chan' = [chan EXCEPT ![r] = Append(@, Fail)]
  <2>1. req[r].pc = "reading" BY <1>7 DEF Listens
  <2>2. chan[r] \in Seq(Nat) /\ Fail \in Nat BY <1>2, <1>4 DEF Types, Fail
  <2>3. chan' \in [Requests -> Seq(Nat)] /\ chan'[r] = Append(chan[r], Fail)
        /\ \A q \in Requests \ {r} : chan'[q] = chan[q]
    BY <1>2, <1>4, <1>7, <2>2 DEF Types
  <2>4. PICK m \in Nat : Len(chan[r]) = m BY <2>2
  <2>5. /\ Len(chan'[r]) = m + 1 /\ chan'[r][m + 1] = Fail
        /\ \A i \in 1..m : chan'[r][i] = chan[r][i]
    BY <2>2, <2>3, <2>4
  <2>6. Items(r) /\ ~Failed(r) BY <1>4, <2>1 DEF BodyInv, Bodies, Rest
  <2>7. Items(r)'
    <3> SUFFICES ASSUME NEW i \in 1..(m + 1)
                 PROVE  chan'[r][i] = Len(req[r].lines) + i \/ (i = m + 1 /\ chan'[r][i] = Fail)
      BY <1>5, <2>5 DEF Items
    <3>1. CASE i = m + 1 BY <2>5, <3>1
    <3>2. CASE i \in 1..m
      <4>1. chan[r][i] = Len(req[r].lines) + i \/ (i = m /\ chan[r][i] = Fail)
        BY <2>4, <2>6, <3>2 DEF Items
      <4>2. ~(i = m /\ chan[r][i] = Fail) BY <2>2, <2>4, <2>6, <3>2 DEF Failed
      <4>3. QED BY <2>5, <3>2, <4>1, <4>2
    <3>3. QED BY <3>1, <3>2
  <2>8. Failed(r)'
    <3>1. chan'[r] # <<>> BY <2>2, <2>3
    <3>2. QED BY <2>5, <3>1 DEF Failed
  <2>9. QED BY <1>1, <1>3, <1>5, <2>1, <2>3, <2>7, <2>8, JobEndsKeeps
<1>8. QED BY <1>1, <1>6, <1>7 DEF QueryFails

(* The query has come past its last row, and every row is sent.                  *)
LEMMA QueryEndsKeeps ==
    ASSUME BodyInv, NEW c \in Conns, QueryEnds(c)
    PROVE  BodyInv'
<1>1. PICK r : r = Head(jobs[c]) OBVIOUS
<1>2. Types BY DEF BodyInv
<1>3. jobs[c] # <<>> /\ next[c] = Rows + 1 /\ JobEnds(c) BY DEF QueryEnds
<1>4. r = jobs[c][1] /\ 1 \in 1..Len(jobs[c]) /\ r \in Requests BY <1>1, <1>3, Waiting
<1>5. req' = req /\ chan' = chan /\ panics' = panics BY DEF QueryEnds
<1>6. chan' \in [Requests -> Seq(Nat)] BY <1>2, <1>5 DEF Types
<1>7. ASSUME req[r].pc = "reading"
      PROVE  Items(r)' /\ (~Failed(r)' /\ panics = 0 => Len(req[r].lines) + Len(chan'[r]) = Rows)
  <2>1. Items(r) /\ Progress(r) BY <1>4, <1>7 DEF BodyInv, Bodies, Rest
  <2>2. Items(r)' BY <1>5, <2>1 DEF Items
  <2>3. Len(req[r].lines) + Len(chan[r]) = (Rows + 1) - 1 BY <1>3, <1>4, <2>1 DEF Progress
  <2>4. (Rows + 1) - 1 = Rows OBVIOUS
  <2>5. QED BY <1>5, <2>2, <2>3, <2>4
<1>8. QED BY <1>1, <1>3, <1>5, <1>6, <1>7, JobEndsKeeps

(* The thread dies with its inbox; no done is promised from here on.             *)
LEMMA WorkerPanicsKeeps ==
    ASSUME BodyInv, NEW c \in Conns, WorkerPanics(c)
    PROVE  BodyInv'
<1>1. Types BY DEF BodyInv
<1>2. /\ req' = req /\ chan' = chan /\ panics' = panics + 1
      /\ jobs' = [jobs EXCEPT ![c] = <<>>] /\ next' = [next EXCEPT ![c] = 1]
  BY DEF WorkerPanics
<1>3. panics' \in Nat \ {0} BY <1>1, <1>2 DEF Types
<1>4. /\ \A d \in Conns \ {c} : jobs'[d] = jobs[d] /\ next'[d] = next[d]
      /\ jobs'[c] = <<>> /\ next'[c] = 1
      /\ jobs' \in [Conns -> Seq(Requests)]
  BY <1>1, <1>2 DEF Types
<1>5. 1 \in 1..(Rows + 1) OBVIOUS
<1>6. next' \in [Conns -> 1..(Rows + 1)] BY <1>1, <1>2, <1>5 DEF Types
<1>7. Types' BY <1>1, <1>2, <1>3, <1>4, <1>6 DEF Types
<1>8. \A d \in Conns : \A i \in 1..Len(jobs'[d]) :
         i \in 1..Len(jobs[d]) /\ jobs'[d][i] = jobs[d][i] /\ next'[d] = next[d]
  <2>1. \A i \in 1..Len(<<>>) : FALSE OBVIOUS
  <2>2. QED BY <1>4, <2>1
<1>9. \A d \in Conns : \A i \in 1..Len(jobs'[d]) : Fewer(d, i) BY <1>8 DEF Fewer
<1>10. OneJob'
  <2>1. \A d \in Conns : next'[d] = 1 \/ (jobs'[d] = jobs[d] /\ next'[d] = next[d]) BY <1>4
  <2>2. QED BY <1>2, <1>4, <1>8, <1>9, <2>1, FewerOneJob
<1>11. Bodies'
  <2>1. ASSUME NEW q \in Requests PROVE Client(q)' /\ Rest(q)'
    BY <1>2, <1>3, <1>4, <1>9, FewerElsewhere
  <2>2. QED BY <2>1 DEF Bodies
<1>12. QED BY <1>7, <1>10, <1>11 DEF BodyInv

\* ------------------------------------------------------------------ the rollout
(* Only an arrival at a closed listener is refused.                              *)
Elsewhere(r) == \E p, c, l, e : p # "refused" /\ Turns(r, p, c, l, e)

(* No other step refuses a request.                                              *)
LEMMA HandlerRefusesNobody ==
    ASSUME BodyInv, NEW r \in Requests, Rejects(r) \/ Handler(r) \/ Disconnects(r)
    PROVE  Elsewhere(r)
<1>1. Types /\ Client(r) BY DEF BodyInv, Bodies
<1>2. /\ <<"error">> \in Seq({"error", "done"}) /\ <<"done">> \in Seq({"error", "done"})
      /\ <<>> \in Seq({"error", "done"}) /\ <<>> \in Seq(Nat)
  OBVIOUS
<1>3. req[r].lines \in Seq(Nat) /\ req[r].end \in Seq({"error", "done"}) BY <1>1 DEF Types, Request
<1>4. ASSUME req[r].end = <<>>, Fails(r) PROVE Elsewhere(r)
  BY <1>1, <1>4, FailsTurns DEF Elsewhere
<1>5. CASE Rejects(r)
  <2>1. Turns(r, "answered", req[r].conn, req[r].lines, <<"error">>)
    BY <1>1, <1>2, <1>5, StepTurns DEF Rejects
  <2>2. QED BY <2>1 DEF Elsewhere
<1>6. CASE Checkout(r)
  <2>1. CASE \E c \in Conns \ Held : ReqStep(r, [pc |-> "submit", conn |-> c])
    <3>1. PICK c \in Conns : ReqStep(r, [pc |-> "submit", conn |-> c]) BY <2>1
    <3>2. Turns(r, "submit", c, req[r].lines, req[r].end) BY <1>1, <3>1, StepTurns DEF InFlight
    <3>3. QED BY <3>2 DEF Elsewhere
  <2>2. CASE ReqStep(r, [pc |-> "answered", end |-> <<"error">>])
    <3>1. Turns(r, "answered", req[r].conn, req[r].lines, <<"error">>) BY <1>1, <1>2, <2>2, StepTurns
    <3>2. QED BY <3>1 DEF Elsewhere
  <2>3. QED BY <1>6, <2>1, <2>2 DEF Checkout
<1>7. CASE Submit(r)
  <2>1. CASE ReqStep(r, [pc |-> "reading"])
    <3>1. Turns(r, "reading", req[r].conn, req[r].lines, req[r].end) BY <1>1, <2>1, StepTurns DEF InFlight
    <3>2. QED BY <3>1 DEF Elsewhere
  <2>2. CASE Fails(r) BY <1>1, <1>4, <1>7, <2>2 DEF Submit, Client
  <2>3. QED BY <1>7, <2>1, <2>2 DEF Submit
<1>8. CASE TakesItem(r)
  <2>1. CASE Fails(r) BY <1>1, <1>4, <1>8, <2>1 DEF TakesItem, Client
  <2>2. CASE ReqStep(r, [lines |-> Append(req[r].lines, Head(chan[r]))])
    <3>1. chan[r] \in Seq(Nat) /\ chan[r] # <<>> BY <1>1, <1>8 DEF TakesItem, Types
    <3>2. Head(chan[r]) \in Nat BY <3>1
    <3>3. Append(req[r].lines, Head(chan[r])) \in Seq(Nat) BY <1>3, <3>2
    <3>4. Turns(r, req[r].pc, req[r].conn, Append(req[r].lines, Head(chan[r])), req[r].end)
      BY <1>1, <2>2, <3>3, StepTurns
    <3>5. req[r].pc # "refused" BY <1>8 DEF TakesItem
    <3>6. QED BY <3>4, <3>5 DEF Elsewhere
  <2>3. QED BY <1>8, <2>1, <2>2 DEF TakesItem
<1>9. CASE RowsEnd(r)
  <2>1. req[r].end = <<>> BY <1>1, <1>9 DEF RowsEnd, Client
  <2>2. Append(req[r].end, "done") \in Seq({"error", "done"}) BY <1>3
  <2>3. Turns(r, "answered", NoConn, req[r].lines, Append(req[r].end, "done"))
    BY <1>1, <1>3, <1>9, <2>2, LeavesTurns DEF RowsEnd
  <2>4. QED BY <2>3 DEF Elsewhere
<1>10. CASE BodyEnds(r)
  <2>1. Turns(r, "answered", NoConn, req[r].lines, req[r].end)
    BY <1>1, <1>3, <1>10, LeavesTurns DEF BodyEnds
  <2>2. QED BY <2>1 DEF Elsewhere
<1>11. CASE Disconnects(r)
  <2>1. Leaves(r, "gone", <<>>, <<>>) BY <1>11 DEF Disconnects
  <2>2. Turns(r, "gone", NoConn, <<>>, <<>>) BY <1>1, <1>2, <2>1, LeavesTurns
  <2>3. QED BY <2>2 DEF Elsewhere
<1>12. QED BY <1>5, <1>6, <1>7, <1>8, <1>9, <1>10, <1>11 DEF Handler

(* A request arrives only while the balancer sends any, so at an open listener.  *)
LEMMA RequestsKeepRollout ==
    ASSUME BodyInv, Rollout, NEW r \in Requests,
           Arrives(r) \/ Rejects(r) \/ Handler(r) \/ Disconnects(r)
    PROVE  Rollout'
<1>1. UNCHANGED <<shutdownVars, serve, probeVars>>
  BY DEF Arrives, Rejects, Handler, Checkout, Submit, TakesItem, RowsEnd, BodyEnds, Disconnects
<1>2. Elsewhere(r)
  <2>1. CASE Arrives(r)
    <3>1. serve = "serving" BY <2>1 DEF Arrives, Rollout
    <3>2. ReqStep(r, [pc |-> "checkout"]) BY <2>1, <3>1 DEF Arrives
    <3>3. Turns(r, "checkout", req[r].conn, req[r].lines, req[r].end)
      BY <3>2, StepTurns DEF BodyInv, InFlight
    <3>4. QED BY <3>3 DEF Elsewhere
  <2>2. QED BY <2>1, HandlerRefusesNobody
<1>3. \A q \in Requests : req'[q].pc # "refused" BY <1>2 DEF Elsewhere, Turns, Rollout
<1>4. QED BY <1>1, <1>3 DEF Rollout, shutdownVars, probeVars

\* ------------------------------------------------------------------ all steps
ListenerInv == BodyInv /\ Rollout

(* The invariant holds at the start.                                             *)
LEMMA InitInv == Init => ListenerInv
<1> SUFFICES ASSUME Init PROVE ListenerInv OBVIOUS
<1>1. <<>> \in Seq(Nat) /\ <<>> \in Seq({"error", "done"}) /\ <<>> \in Seq(Requests)
      /\ 1 \in 1..(Rows + 1) /\ 0 \in Nat /\ <<>> # <<"done">> /\ Len(<<>>) = 0
  OBVIOUS
<1>2. Types
  <2>1. [pc |-> "none", conn |-> NoConn, lines |-> <<>>, end |-> <<>>] \in Request BY <1>1 DEF Request
  <2>2. QED BY <1>1, <2>1 DEF Init, Types
<1>3. \A c \in Conns : \A i \in 1..Len(jobs[c]) : FALSE BY DEF Init
<1>4. OneJob BY <1>3 DEF OneJob, Init
<1>5. ASSUME NEW r \in Requests PROVE Client(r) /\ Rest(r)
  <2>1. req[r].pc = "none" /\ req[r].lines = <<>> /\ req[r].end = <<>> /\ chan[r] = <<>> BY DEF Init
  <2>2. \A n \in 1..Len(<<>>) : FALSE BY <1>1
  <2>3. QED BY <1>1, <2>1, <2>2 DEF Client, Rest
<1>6. Rollout BY DEF Init, Rollout
<1>7. QED BY <1>2, <1>4, <1>5, <1>6 DEF ListenerInv, BodyInv, Bodies

(* The invariant's body part reads the request and worker variables only.        *)
LEMMA BodyFrame ==
    ASSUME BodyInv, UNCHANGED <<req, rowVars>>
    PROVE  BodyInv'
BY DEF BodyInv, Types, OneJob, Bodies, Client, Rest, Items, Failed, Queued, Progress, rowVars

(* Every step keeps the invariant.                                               *)
LEMMA NextInv == ListenerInv /\ [Next]_vars => ListenerInv'
<1> SUFFICES ASSUME ListenerInv, [Next]_vars PROVE ListenerInv' OBVIOUS
<1>1. BodyInv /\ Rollout BY DEF ListenerInv
<1>2. ASSUME NEW s \in Callers, Shutdown(s) PROVE ListenerInv'
  <2>1. UNCHANGED <<req, rowVars>> BY <1>2 DEF Shutdown
  <2>2. Rollout' BY <1>1, <1>2 DEF Shutdown, Rollout, probeVars
  <2>3. QED BY <1>1, <2>1, <2>2, BodyFrame DEF ListenerInv
<1>3. CASE Drains
  <2>1. UNCHANGED <<req, rowVars>> BY <1>3 DEF Drains, AwaitShutdown, WindowEnds, StopAccepting, ServeReturns
  <2>2. Rollout'
    <3>1. CASE AwaitShutdown BY <1>1, <3>1 DEF AwaitShutdown, Rollout, probeVars
    <3>2. CASE WindowEnds BY <1>1, <3>2 DEF WindowEnds, Rollout, probeVars
    <3>3. CASE StopAccepting BY <1>1, <3>3 DEF StopAccepting, Rollout, shutdownVars, probeVars
    <3>4. CASE ServeReturns BY <1>1, <3>4 DEF ServeReturns, Rollout, shutdownVars, probeVars
    <3>5. QED BY <1>3, <3>1, <3>2, <3>3, <3>4 DEF Drains
  <2>3. QED BY <1>1, <2>1, <2>2, BodyFrame DEF ListenerInv
<1>4. CASE Readiness
  <2>1. UNCHANGED <<req, rowVars>> BY <1>4 DEF Readiness
  <2>2. Rollout' BY <1>1, <1>4 DEF Readiness, Rollout, shutdownVars
  <2>3. QED BY <1>1, <2>1, <2>2, BodyFrame DEF ListenerInv
<1>5. ASSUME NEW r \in Requests, Arrives(r) \/ Rejects(r) \/ Handler(r) \/ Disconnects(r)
      PROVE  ListenerInv'
  <2>1. Rollout' BY <1>1, <1>5, RequestsKeepRollout
  <2>2. BodyInv'
    BY <1>1, <1>5, ArrivesKeeps, RejectsKeeps, CheckoutKeeps, SubmitKeeps, TakesItemKeeps, RowsEndKeeps,
       BodyEndsKeeps, DisconnectsKeeps DEF Handler
  <2>3. QED BY <2>1, <2>2 DEF ListenerInv
<1>6. ASSUME NEW c \in Conns, WorkerStep(c) \/ WorkerPanics(c) PROVE ListenerInv'
  <2>1. UNCHANGED <<shutdownVars, serve, probeVars, req>>
    BY <1>6 DEF WorkerStep, SendsRow, QueryFails, QueryEnds, WorkerPanics
  <2>2. Rollout' BY <1>1, <2>1 DEF Rollout, shutdownVars, probeVars
  <2>3. BodyInv'
    BY <1>1, <1>6, SendsRowKeeps, QueryFailsKeeps, QueryEndsKeeps, WorkerPanicsKeeps DEF WorkerStep
  <2>4. QED BY <2>2, <2>3 DEF ListenerInv
<1>7. CASE UNCHANGED vars
  <2>1. UNCHANGED <<req, rowVars>> /\ UNCHANGED <<shutdownVars, serve, probeVars, req>> BY <1>7 DEF vars
  <2>2. Rollout' BY <1>1, <2>1 DEF Rollout, shutdownVars, probeVars
  <2>3. QED BY <1>1, <2>1, <2>2, BodyFrame DEF ListenerInv
<1>8. QED BY <1>2, <1>3, <1>4, <1>5, <1>6, <1>7 DEF Next, Stays

(* The inductive invariant of the listener holds in every reachable state.        *)
THEOREM Always == Spec => []ListenerInv
BY InitInv, NextInv, PTL DEF Spec

\* ------------------------------------------------------------------ what follows
(* DRAIN_WINDOW, ready_response, serve_with_guards: whichever threads shut the    *)
(* listener down and whenever, no request of a balancer that heeds its last       *)
(* probe meets a closed listener.                                                 *)
THEOREM RolloutRefusesNobody == Spec => []NothingRefused
<1>1. ListenerInv => NothingRefused BY DEF ListenerInv, Rollout, NothingRefused
<1>2. QED BY <1>1, Always, PTL

(* ndjson_lines, fetch, fetch_all: for any rows, any channel size and any number  *)
(* of requests behind each worker, an answered client has the query's first rows  *)
(* in order and one terminal line, and every row with a done unless a thread died. *)
THEOREM BodiesAreFramed == Spec => []AnswerIsFramed
<1>1. ListenerInv => AnswerIsFramed
  <2> SUFFICES ASSUME ListenerInv, NEW r \in Requests
               PROVE  /\ req[r].lines = [n \in 1..Len(req[r].lines) |-> n]
                      /\ Len(req[r].end) <= 1
                      /\ req[r].pc = "answered" => Len(req[r].end) = 1
                      /\ req[r].end = <<"done">> /\ panics = 0 => Len(req[r].lines) = Rows
    BY DEF AnswerIsFramed
  <2>1. Client(r) /\ Types BY DEF ListenerInv, BodyInv, Bodies
  <2>2. req[r].lines \in Seq(Nat) BY <2>1 DEF Types, Request
  <2>3. req[r].lines = [n \in 1..Len(req[r].lines) |-> n] BY <2>1, <2>2 DEF Client
  <2>4. req[r].pc \in InFlight \cup {"none", "refused", "answered", "gone"} BY <2>1 DEF Types, Request
  <2>5. req[r].end \in {<<>>, <<"error">>, <<"done">>} BY <2>1, <2>4 DEF Client, InFlight
  <2>6. Len(req[r].end) <= 1
    <3>1. Len(<<>>) = 0 /\ Len(<<"error">>) = 1 /\ Len(<<"done">>) = 1 /\ 0 <= 1 /\ 1 <= 1 OBVIOUS
    <3>2. QED BY <2>5, <3>1, Zenon
  <2>7. req[r].pc = "answered" => Len(req[r].end) = 1 BY <2>1 DEF Client
  <2>8. QED BY <2>1, <2>3, <2>6, <2>7 DEF Client
<1>2. QED BY <1>1, Always, PTL

\* ------------------------------------------------------------------ no wakeup is lost
(* A thread that has set the flag and has not left its permit yet.               *)
Waking == \E s \in Callers : caller[s] \in {"stored", "notified"}

(* The flag is set by whoever calls first; a drain future that waits beside a    *)
(* flag that is set has a permit to take or a wakeup to come.                    *)
Wakeups ==
    /\ caller \in [Callers -> {"idle", "stored", "notified", "done"}]
    /\ (\E s \in Callers : caller[s] # "idle") => draining
    /\ permit => draining
    /\ draining /\ drain = "await" => permit \/ Waking
    /\ draining /\ drain = "waiting" => Waking

(* Each step of Handle::shutdown and of the drain future keeps it.               *)
LEMMA WakeupsStep == Wakeups /\ [Next]_vars => Wakeups'
<1> SUFFICES ASSUME Wakeups, [Next]_vars PROVE Wakeups' OBVIOUS
<1>1. ASSUME NEW s \in Callers, Shutdown(s) PROVE Wakeups'
  <2>1. CASE caller[s] = "idle" /\ caller' = [caller EXCEPT ![s] = "stored"] /\ draining' = TRUE
             /\ UNCHANGED <<permit, drain>>
    <3>1. caller'[s] = "stored" BY <2>1 DEF Wakeups
    <3>2. Waking' BY <3>1 DEF Waking
    <3>3. QED BY <2>1, <3>2 DEF Wakeups
  <2>2. CASE /\ caller[s] = "stored" /\ caller' = [caller EXCEPT ![s] = "notified"]
             /\ drain' = (IF drain = "waiting" THEN "load" ELSE drain) /\ UNCHANGED <<draining, permit>>
    <3>1. caller'[s] = "notified" /\ draining BY <2>2 DEF Wakeups
    <3>2. Waking' BY <3>1 DEF Waking
    <3>3. QED BY <2>2, <3>1, <3>2 DEF Wakeups
  <2>3. CASE /\ caller[s] = "notified" /\ caller' = [caller EXCEPT ![s] = "done"] /\ UNCHANGED draining
             /\ IF drain = "waiting" THEN drain' = "load" /\ UNCHANGED permit
                                     ELSE permit' = TRUE /\ UNCHANGED drain
    BY <2>3 DEF Wakeups
  <2>4. QED BY <1>1, <2>1, <2>2, <2>3 DEF Shutdown
<1>2. CASE AwaitShutdown
  <2>1. caller' = caller /\ draining' = draining /\ (Waking' <=> Waking) BY <1>2 DEF AwaitShutdown, Waking
  <2>2. CASE drain = "load" /\ drain' = (IF draining THEN "window" ELSE "await") /\ UNCHANGED permit
    BY <2>1, <2>2 DEF Wakeups
  <2>3. CASE drain = "await" /\ permit /\ drain' = "load" /\ permit' = FALSE
    BY <2>1, <2>3 DEF Wakeups
  <2>4. CASE drain = "await" /\ ~permit /\ drain' = "waiting" /\ UNCHANGED permit
    BY <2>1, <2>4 DEF Wakeups
  <2>5. QED BY <1>2, <2>2, <2>3, <2>4 DEF AwaitShutdown
<1>3. CASE WindowEnds BY <1>3 DEF WindowEnds, Wakeups
<1>4. ASSUME UNCHANGED shutdownVars PROVE Wakeups' BY <1>4 DEF shutdownVars, Wakeups, Waking
<1>5. CASE StopAccepting \/ ServeReturns \/ Readiness
  BY <1>4, <1>5 DEF StopAccepting, ServeReturns, Readiness
<1>6. ASSUME NEW r \in Requests, Arrives(r) \/ Rejects(r) \/ Handler(r) \/ Disconnects(r) PROVE Wakeups'
  BY <1>4, <1>6 DEF Arrives, Rejects, Handler, Checkout, Submit, TakesItem, RowsEnd, BodyEnds, Disconnects
<1>7. ASSUME NEW c \in Conns, WorkerStep(c) \/ WorkerPanics(c) PROVE Wakeups'
  BY <1>4, <1>7 DEF WorkerStep, SendsRow, QueryFails, QueryEnds, WorkerPanics
<1>8. CASE UNCHANGED vars BY <1>4, <1>8 DEF vars
<1>9. QED BY <1>1, <1>2, <1>3, <1>5, <1>6, <1>7, <1>8 DEF Next, Drains, Stays

(* Handle::shutdown stores the flag, then notify_waiters, then notify_one; the   *)
(* drain future loads the flag and then awaits notified(): from however many     *)
(* threads and in whatever order their steps fall, it never sleeps on a flag     *)
(* that is set without a wakeup that is stored or on its way.                    *)
THEOREM NoWakeupIsLost ==
    Spec => [](draining /\ drain \in {"await", "waiting"} => (drain = "await" /\ permit) \/ Waking)
<1>1. Init => Wakeups BY DEF Init, Wakeups
<1>2. Wakeups => (draining /\ drain \in {"await", "waiting"} => (drain = "await" /\ permit) \/ Waking)
  BY DEF Wakeups
<1>3. QED BY <1>1, <1>2, WakeupsStep, PTL DEF Spec

\* ------------------------------------------------------------------ the end of serve
(* Once the serve call has returned no request is in flight.                     *)
NoneCutOff == serve = "returned" => \A r \in Requests : req[r].pc \notin InFlight

(* No step brings a request into flight at a listener that has returned: the     *)
(* balancer has been told, and every handler was over when it returned.          *)
LEMMA NoneCutOffStep == ListenerInv /\ NoneCutOff /\ [Next]_vars => NoneCutOff'
<1> SUFFICES ASSUME ListenerInv, NoneCutOff, [Next]_vars PROVE NoneCutOff' OBVIOUS
<1>1. CASE ServeReturns BY <1>1 DEF ServeReturns, NoneCutOff
<1>2. ASSUME UNCHANGED <<serve, req>> PROVE NoneCutOff' BY <1>2 DEF NoneCutOff
<1>3. CASE StopAccepting BY <1>3 DEF StopAccepting, NoneCutOff
<1>4. ASSUME NEW r \in Requests, Arrives(r) \/ Rejects(r) \/ Handler(r) \/ Disconnects(r) PROVE NoneCutOff'
  <2>1. serve' = serve
    BY <1>4 DEF Arrives, Rejects, Handler, Checkout, Submit, TakesItem, RowsEnd, BodyEnds, Disconnects
  <2>2. ASSUME serve = "returned" PROVE FALSE
    <3>1. req[r].pc \notin InFlight /\ ~rotation BY <2>2 DEF NoneCutOff, ListenerInv, Rollout
    <3>2. QED
      BY <1>4, <3>1 DEF Arrives, Rejects, Handler, Checkout, Submit, TakesItem, RowsEnd, BodyEnds, Disconnects, InFlight
  <2>3. QED BY <2>1, <2>2 DEF NoneCutOff
<1>5. CASE (\E s \in Callers : Shutdown(s)) \/ AwaitShutdown \/ WindowEnds \/ Readiness
  BY <1>2, <1>5 DEF Shutdown, AwaitShutdown, WindowEnds, Readiness
<1>6. ASSUME NEW c \in Conns, WorkerStep(c) \/ WorkerPanics(c) PROVE NoneCutOff'
  BY <1>2, <1>6 DEF WorkerStep, SendsRow, QueryFails, QueryEnds, WorkerPanics
<1>7. CASE UNCHANGED vars BY <1>2, <1>7 DEF vars
<1>8. QED BY <1>1, <1>3, <1>4, <1>5, <1>6, <1>7 DEF Next, Drains, Stays

(* serve_with_guards returns only when every request it accepted was answered or *)
(* its client had gone, and accepts none afterwards.                             *)
THEOREM ServeReturnsWhenAllAreOver == Spec => []NoneCutOff
<1>1. Init => NoneCutOff BY DEF Init, NoneCutOff
<1>2. QED BY <1>1, NoneCutOffStep, Always, InitInv, NextInv, PTL DEF Spec
================================================================================
