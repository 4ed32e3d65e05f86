------------------------- MODULE OutOfBandMutation -------------------------
(***************************************************************************)
(* A mutation run with an out-of-band idempotency store: the begin /       *)
(* record bracket of run_mutation with its Claim guard (run/mutation.rs)   *)
(* and MemStore, the in-process store with a TTL (idempotency.rs). A       *)
(* request without a key takes the same path and never touches the store.  *)
(*                                                                         *)
(* The store answers before the transaction starts and is told after it    *)
(* committed, so a commit whose outcome the task never learns is not       *)
(* deduplicated. apply's transaction and deadlock loop are KeyedMutation's *)
(* subject; here a transaction is sent to commit, commits or does not.     *)
(***************************************************************************)
EXTENDS Integers, FiniteSets

CONSTANTS
    Procs,          \* request tasks of one server process
    Keys,           \* (callable, key) pairs
    NoKey,          \* the key of a request that carries none
    Prints,         \* request fingerprints
    Ttl,            \* retention of an entry, claimed or recorded
    OpsWithinTtl,   \* "MemStore TTL must exceed operation duration"
    Suspending,     \* whether store.record yields (MemStore's does not): {FALSE}, {TRUE} or both
    MaxCalls,       \* bound: requests issued and losses of the process together
    MaxTime,        \* bound: the clock
    MaxCrashes      \* bound: losses of the process

ASSUME ConstantsAssumption ==
    /\ NoKey \notin Keys
    /\ Prints \subseteq Nat
    /\ Ttl \in Nat \ {0}
    /\ OpsWithinTtl \in BOOLEAN /\ Suspending \subseteq BOOLEAN
    /\ MaxCalls \in Nat /\ MaxTime \in Nat /\ MaxCrashes \in Nat

VARIABLES
    now,        \* Instant::now()
    pc, call,   \* per task: its step and its request
    entries,    \* the live keys of MemStore's map, each with its entry
    nextSweep,  \* State::next_sweep
    lastBegin,  \* when begin last ran
    limbo,      \* requests dropped while their COMMIT was in flight
    effects,    \* committed requests
    told,       \* successes answered: [call, id, at]; id is the response's
    unknown,    \* ids committed without their task having learnt it
    calls, life, \* requests issued, and process lives so far
    suspends    \* the store's record yields

vars == <<now, pc, call, entries, nextSweep, lastBegin, limbo, effects, told,
          unknown, calls, life, suspends>>

-----------------------------------------------------------------------------
Steps == {"idle", "apply", "committing", "written", "recording"}

(* A response is the id of the request that produced it; 0 is none yet.    *)
Request == [key : Keys \cup {NoKey}, print : Nat, id : Nat, at : Nat, life : Nat]

(* Fingerprint::MAX, which no request of the model has.                    *)
NoPrint == 0

NoRequest == [key |-> NoKey, print |-> NoPrint, id |-> 0, at |-> 0, life |-> 0]

Entry == [print : Prints \cup {NoPrint}, done : BOOLEAN, response : Nat,
          expires : Nat]

TypeOK ==
    /\ now \in 0..MaxTime
    /\ pc \in [Procs -> Steps]
    /\ call \in [Procs -> Request]
    /\ DOMAIN entries \subseteq Keys
    /\ \A k \in DOMAIN entries : entries[k] \in Entry
    /\ nextSweep \in Nat /\ lastBegin \in Nat
    /\ limbo \subseteq Request /\ effects \subseteq Request
    /\ told \subseteq [call : Request, id : Nat, at : Nat]
    /\ unknown \subseteq 1..MaxCalls
    /\ calls \in 0..MaxCalls /\ life \in 0..MaxCrashes
    /\ suspends \in Suspending

Init ==
    /\ now = 0
    /\ pc = [p \in Procs |-> "idle"]
    /\ call = [p \in Procs |-> NoRequest]
    /\ entries = << >>
    /\ nextSweep = Ttl
    /\ lastBegin = 0
    /\ limbo = {} /\ effects = {} /\ told = {} /\ unknown = {}
    /\ calls = 0
    /\ life = 0
    /\ suspends \in Suspending

Put(m, k, e) == [x \in DOMAIN m \cup {k} |-> IF x = k THEN e ELSE m[x]]

Only(m, S) == [x \in S |-> m[x]]

(* The task of p ends.                                                     *)
Leave(p) ==
    /\ pc' = [pc EXCEPT ![p] = "idle"]
    /\ call' = [call EXCEPT ![p] = NoRequest]

Tell(c, id) == told' = told \cup {[call |-> c, id |-> id, at |-> now]}

-----------------------------------------------------------------------------
(* MemStore.                                                               *)

(* Mutant: an expired entry is never reclaimed.                            *)
Swept_Never == entries

(* State::sweep_if_due: the entries begin works on.                        *)
Swept ==
    IF now >= nextSweep
    THEN Only(entries, {k \in DOMAIN entries : entries[k].expires > now})
    ELSE entries

SweepClock ==
    /\ nextSweep' = IF now >= nextSweep THEN now + Ttl ELSE nextSweep
    /\ lastBegin' = now

Live(k) == k \in DOMAIN Swept /\ Swept[k].expires > now

InFlightEntry(f) == [print |-> f, done |-> FALSE, response |-> 0,
                     expires |-> now + Ttl]

(* Mutant: a release takes the key away from nobody.                       *)
Abandoned_Never(p) == entries

(* Claim::drop calls abandon, which removes the key's entry, whosever it   *)
(* is. A request without a key has no claim.                               *)
Abandoned(p) == Only(entries, DOMAIN entries \ {call[p].key})

(* Mutant: the claim is released instead of completed.                     *)
Recorded_Forgets(p) == Abandoned(p)

(* MemStore::record: the response under the fingerprint the entry has now. *)
Recorded(p) ==
    LET k == call[p].key IN
    IF k = NoKey THEN entries
    ELSE Put(entries, k,
             [print |-> IF k \in DOMAIN entries THEN entries[k].print ELSE NoPrint,
              done |-> TRUE, response |-> call[p].id, expires |-> now + Ttl])

-----------------------------------------------------------------------------
(* run_mutation.                                                           *)

New(k, f) == [key |-> k, print |-> f, id |-> calls + 1, at |-> now, life |-> life]

Issue(p) ==
    /\ pc[p] = "idle"
    /\ calls + life < MaxCalls
    /\ calls' = calls + 1

(* The task of p goes on to apply.                                         *)
Enter(p, k, f) ==
    /\ pc' = [pc EXCEPT ![p] = "apply"]
    /\ call' = [call EXCEPT ![p] = New(k, f)]

(* A request without a key: nothing is claimed.                            *)
BeginPlain(p, f) ==
    /\ Issue(p)
    /\ Enter(p, NoKey, f)
    /\ UNCHANGED <<now, entries, nextSweep, lastBegin, limbo, effects, told,
                   unknown, life, suspends>>

(* Mutant: an in-flight key is claimed again.                              *)
BeginFresh_NotExclusive(p, k, f) ==
    /\ Issue(p)
    /\ Live(k) => ~Swept[k].done
    /\ entries' = Put(Swept, k, InFlightEntry(f))
    /\ Enter(p, k, f)
    /\ SweepClock
    /\ UNCHANGED <<now, limbo, effects, told, unknown, life, suspends>>

(* begin on an absent or expired key: Fresh, the Claim guard is armed.     *)
BeginFresh(p, k, f) ==
    /\ Issue(p)
    /\ ~Live(k)
    /\ entries' = Put(Swept, k, InFlightEntry(f))
    /\ Enter(p, k, f)
    /\ SweepClock
    /\ UNCHANGED <<now, limbo, effects, told, unknown, life, suspends>>

(* Mutant: the fingerprint is not compared.                                *)
BeginReplay_AnyPrint(p, k, f) ==
    /\ Issue(p)
    /\ Live(k) /\ Swept[k].done
    /\ Tell(New(k, f), Swept[k].response)
    /\ entries' = Swept
    /\ SweepClock
    /\ UNCHANGED <<now, pc, call, limbo, effects, unknown, life, suspends>>

(* Done: the stored response is replayed, nothing is written.              *)
BeginReplay(p, k, f) ==
    /\ Issue(p)
    /\ Live(k) /\ Swept[k].done /\ Swept[k].print = f
    /\ Tell(New(k, f), Swept[k].response)
    /\ entries' = Swept
    /\ SweepClock
    /\ UNCHANGED <<now, pc, call, limbo, effects, unknown, life, suspends>>

(* InFlight (409) or Mismatch (422): rejected, nothing is written.         *)
BeginReject(p, k, f) ==
    /\ Issue(p)
    /\ Live(k)
    /\ Swept[k].print # f \/ ~Swept[k].done
    /\ entries' = Swept
    /\ SweepClock
    /\ UNCHANGED <<now, pc, call, limbo, effects, told, unknown, life, suspends>>

(* The write body ran; COMMIT is sent.                                     *)
SendCommit(p) ==
    /\ pc[p] = "apply"
    /\ pc' = [pc EXCEPT ![p] = "committing"]
    /\ UNCHANGED <<now, call, entries, nextSweep, lastBegin, limbo, effects, told,
                   unknown, calls, life, suspends>>

(* apply returned an error or NotFound, with nothing committed: the guard  *)
(* is dropped armed.                                                       *)
Fail(p) ==
    /\ pc[p] \in {"apply", "committing"}
    /\ entries' = Abandoned(p)
    /\ Leave(p)
    /\ UNCHANGED <<now, nextSweep, lastBegin, limbo, effects, told, unknown,
                   calls, life, suspends>>

(* The commit took effect but apply returned an error: abandoned as well.  *)
CommitAnswerLost(p) ==
    /\ pc[p] = "written"
    /\ entries' = Abandoned(p)
    /\ unknown' = unknown \cup {call[p].id}
    /\ Leave(p)
    /\ UNCHANGED <<now, nextSweep, lastBegin, limbo, effects, told, calls, life, suspends>>

(* apply succeeded: the guard is disarmed, the response recorded and       *)
(* returned, in one poll of the task when record does not suspend.         *)
Record(p) ==
    /\ pc[p] = "written"
    /\ ~suspends
    /\ entries' = Recorded(p)
    /\ Tell(call[p], call[p].id)
    /\ Leave(p)
    /\ UNCHANGED <<now, nextSweep, lastBegin, limbo, effects, unknown, calls,
                   life, suspends>>

(* The same, with a store whose record awaits I/O.                         *)
StartRecord(p) ==
    /\ pc[p] = "written"
    /\ suspends
    /\ pc' = [pc EXCEPT ![p] = "recording"]
    /\ UNCHANGED <<now, call, entries, nextSweep, lastBegin, limbo, effects, told,
                   unknown, calls, life, suspends>>

EndRecord(p) ==
    /\ pc[p] = "recording"
    /\ entries' = Recorded(p)
    /\ Tell(call[p], call[p].id)
    /\ Leave(p)
    /\ UNCHANGED <<now, nextSweep, lastBegin, limbo, effects, unknown, calls,
                   life, suspends>>

(* The caller drops the future. An armed guard abandons; the transaction   *)
(* is rolled back, unless its COMMIT is already sent.                      *)
Cancel(p) ==
    /\ pc[p] # "idle"
    /\ entries' = IF pc[p] = "recording" THEN entries ELSE Abandoned(p)
    /\ limbo' = IF pc[p] = "committing" THEN limbo \cup {call[p]} ELSE limbo
    /\ unknown' = IF pc[p] \in {"written", "recording"}
                  THEN unknown \cup {call[p].id} ELSE unknown
    /\ Leave(p)
    /\ UNCHANGED <<now, nextSweep, lastBegin, effects, told, calls, life, suspends>>

-----------------------------------------------------------------------------
(* The database, the clock and the process.                                *)

DbCommit(p) ==
    /\ pc[p] = "committing"
    /\ effects' = effects \cup {call[p]}
    /\ pc' = [pc EXCEPT ![p] = "written"]
    /\ UNCHANGED <<now, call, entries, nextSweep, lastBegin, limbo, told, unknown,
                   calls, life, suspends>>

(* An abandoned COMMIT takes effect, or not.                               *)
LimboEnds(c) ==
    /\ c \in limbo
    /\ limbo' = limbo \ {c}
    /\ \/ effects' = effects \cup {c} /\ unknown' = unknown \cup {c.id}
       \/ UNCHANGED <<effects, unknown>>
    /\ UNCHANGED <<now, pc, call, entries, nextSweep, lastBegin, told, calls, life, suspends>>

(* Time passes; under OpsWithinTtl no running request outlives its claim.  *)
Tick ==
    /\ now < MaxTime
    /\ OpsWithinTtl => \A p \in Procs : pc[p] # "idle" => now + 1 < call[p].at + Ttl
    /\ now' = now + 1
    /\ UNCHANGED <<pc, call, entries, nextSweep, lastBegin, limbo, effects, told,
                   unknown, calls, life, suspends>>

(* The process is lost with its map and its tasks; the database stays.     *)
Crash ==
    /\ life < MaxCrashes /\ calls + life < MaxCalls
    /\ life' = life + 1
    /\ pc' = [p \in Procs |-> "idle"]
    /\ call' = [p \in Procs |-> NoRequest]
    /\ entries' = << >>
    /\ nextSweep' = now + Ttl
    /\ limbo' = limbo \cup {call[p] : p \in {q \in Procs : pc[q] = "committing"}}
    /\ unknown' = unknown \cup
                  {call[p].id : p \in {q \in Procs : pc[q] \in {"written", "recording"}}}
    /\ UNCHANGED <<now, lastBegin, effects, told, calls, suspends>>

Next ==
    \/ \E p \in Procs, f \in Prints :
        \/ BeginPlain(p, f)
        \/ \E k \in Keys : BeginFresh(p, k, f) \/ BeginReplay(p, k, f) \/ BeginReject(p, k, f)
    \/ \E p \in Procs :
        \/ SendCommit(p) \/ Fail(p) \/ CommitAnswerLost(p) \/ Record(p)
        \/ StartRecord(p) \/ EndRecord(p) \/ Cancel(p) \/ DbCommit(p)
    \/ \E c \in limbo : LimboEnds(c)
    \/ Tick \/ Crash

Spec == Init /\ [][Next]_vars

-----------------------------------------------------------------------------
(* Properties.                                                             *)

(* begin is claim-or-report: two requests under one key never run their    *)
(* writes at the same time (IdempotencyStore::begin), as long as requests  *)
(* are shorter than the TTL.                                               *)
OneRunPerKey ==
    \A p, q \in Procs :
        (pc[p] # "idle" /\ pc[q] # "idle" /\ call[p].key = call[q].key
            /\ call[p].key # NoKey) => p = q

(* A key reported in flight belongs to a request that is still running:    *)
(* every exit that records nothing releases the claim (the Claim guard),   *)
(* so a retry is never refused with 409 by a request that is gone.         *)
NoStrandedClaim ==
    ~suspends => \A k \in DOMAIN entries : ~entries[k].done =>
        \E p \in Procs : pc[p] # "idle" /\ call[p].key = k

(* A success answered to a request is the response of a committed request  *)
(* with the same key and the same payload; a request without a key is only *)
(* ever answered its own.                                                  *)
AnswersMatchPayload ==
    \A t \in told : \E e \in effects :
        /\ e.id = t.id /\ e.key = t.call.key /\ e.print = t.call.print
        /\ t.call.key = NoKey => e.id = t.call.id

(* Two requests of one process life commit under one key only if the       *)
(* outcome of the first was lost, or its caller was told of its success a  *)
(* whole TTL before the second began.                                      *)
RepeatsAreUnknownCommits ==
    \A e1, e2 \in effects :
        (e1.key # NoKey /\ e1.key = e2.key /\ e1.life = e2.life /\ e1.id < e2.id)
        => \/ e1.id \in unknown
           \/ \E t \in told : t.call = e1 /\ t.id = e1.id /\ e2.at >= t.at + Ttl

(* The map holds no entry that expired a full TTL before begin last ran,   *)
(* so keys that are never revisited do not accumulate.                     *)
SweptInTime == \A k \in DOMAIN entries : entries[k].expires + Ttl > lastBegin
=============================================================================
