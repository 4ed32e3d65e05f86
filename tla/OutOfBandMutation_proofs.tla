---------------------- MODULE OutOfBandMutation_proofs ----------------------
(***************************************************************************)
(* Proofs about OutOfBandMutation, for any number of tasks, keys and       *)
(* payloads, any TTL and both kinds of store.                              *)
(***************************************************************************)
EXTENDS OutOfBandMutation, TLAPS

(* What every part of the argument uses: a running request has a number,   *)
(* the process life it was issued in and a start in the past, and a task   *)
(* past its COMMIT has committed.                                          *)
Numbered ==
    /\ \A p \in Procs : pc[p] # "idle" =>
        call[p].id \in 1..calls /\ call[p].life = life /\ call[p].at <= now
    /\ \A c \in limbo \cup effects : c.id \in 1..calls /\ c.life <= life

Stages ==
    \A p \in Procs :
        /\ pc[p] \in {"written", "recording"} => call[p] \in effects
        /\ pc[p] = "recording" => suspends

Base == TypeOK /\ Numbered /\ Stages

-----------------------------------------------------------------------------
USE ConstantsAssumption DEF NoPrint

LEMMA NoRequestTyped == NoRequest \in Request
BY DEF NoRequest, Request

(* A new entry, and what a recorded one is.                                *)
LEMMA EntriesTyped ==
    ASSUME TypeOK
    PROVE  /\ \A f \in Prints : InFlightEntry(f) \in Entry
           /\ DOMAIN Swept \subseteq Keys
           /\ \A k \in DOMAIN Swept : k \in DOMAIN entries /\ Swept[k] = entries[k]
           /\ \A p \in Procs : /\ DOMAIN Abandoned(p) = DOMAIN entries \ {call[p].key}
                               /\ \A k \in DOMAIN Abandoned(p) : Abandoned(p)[k] = entries[k]
<1>1. \A f \in Prints : InFlightEntry(f) \in Entry
  BY DEF TypeOK, InFlightEntry, Entry
<1>2. /\ DOMAIN Swept \subseteq DOMAIN entries
      /\ \A k \in DOMAIN Swept : Swept[k] = entries[k]
  BY DEF Swept, Only
<1>3. QED
  BY <1>1, <1>2 DEF TypeOK, Abandoned, Only

LEMMA RecordedTyped ==
    ASSUME TypeOK, NEW p \in Procs
    PROVE  /\ DOMAIN Recorded(p) \subseteq Keys
           /\ \A k \in DOMAIN Recorded(p) : Recorded(p)[k] \in Entry
<1>1. call[p] \in Request
  BY DEF TypeOK
<1>2. CASE call[p].key = NoKey
  BY <1>2 DEF Recorded, TypeOK
<1>3. CASE call[p].key # NoKey
  <2> DEFINE k == call[p].key
             e == [print |-> IF k \in DOMAIN entries THEN entries[k].print ELSE NoPrint,
                   done |-> TRUE, response |-> call[p].id, expires |-> now + Ttl]
  <2>1. k \in Keys /\ call[p].id \in Nat
    BY <1>1, <1>3 DEF Request
  <2>2. k \in DOMAIN entries => entries[k].print \in Prints \cup {NoPrint}
    BY DEF TypeOK, Entry
  <2>3. e \in Entry
    BY <2>1, <2>2 DEF Entry, TypeOK
  <2>4. Recorded(p) = Put(entries, k, e)
    BY <1>3 DEF Recorded
  <2> HIDE DEF e
  <2>5. QED
    BY <2>1, <2>3, <2>4 DEF Put, TypeOK
<1>4. QED
  BY <1>2, <1>3

LEMMA BaseInit == Init => Base
BY NoRequestTyped DEF Init, Base, TypeOK, Numbered, Stages, Steps

LEMMA BaseStep == Base /\ [Next]_vars => Base'
<1> SUFFICES ASSUME Base, [Next]_vars PROVE Base'
  OBVIOUS
<1> USE DEF Base
<1>1. ASSUME NEW p \in Procs, NEW f \in Prints, BeginPlain(p, f) PROVE Base'
  <2>1. New(NoKey, f) \in Request
    BY DEF New, Request, TypeOK
  <2>2. QED
    BY <1>1, <2>1 DEF BeginPlain, Issue, Enter, New, TypeOK, Numbered, Stages, Steps
<1>2. ASSUME NEW p \in Procs, NEW f \in Prints, NEW k \in Keys, BeginFresh(p, k, f) PROVE Base'
  <2>1. New(k, f) \in Request
    BY DEF New, Request, TypeOK
  <2>2. /\ DOMAIN entries' \subseteq Keys
        /\ \A x \in DOMAIN entries' : entries'[x] \in Entry
    BY <1>2, EntriesTyped DEF BeginFresh, Put, TypeOK
  <2>3. QED
    BY <1>2, <2>1, <2>2 DEF BeginFresh, SweepClock, Issue, Enter, New, TypeOK, Numbered, Stages, Steps
<1>3. ASSUME NEW p \in Procs, NEW f \in Prints, NEW k \in Keys, BeginReplay(p, k, f) PROVE Base'
  <2>1. New(k, f) \in Request
    BY DEF New, Request, TypeOK
  <2>2. /\ DOMAIN entries' \subseteq Keys
        /\ \A x \in DOMAIN entries' : entries'[x] \in Entry
    BY <1>3, EntriesTyped DEF BeginReplay, TypeOK
  <2>3. Swept[k].response \in Nat
    BY <1>3, EntriesTyped DEF BeginReplay, Live, TypeOK, Entry
  <2>4. told' \subseteq [call : Request, id : Nat, at : Nat]
    BY <1>3, <2>1, <2>3 DEF BeginReplay, Tell, TypeOK
  <2>5. QED
    BY <1>3, <2>2, <2>4 DEF BeginReplay, SweepClock, Issue, TypeOK, Numbered, Stages
<1>4. ASSUME NEW p \in Procs, NEW f \in Prints, NEW k \in Keys, BeginReject(p, k, f) PROVE Base'
  <2>1. /\ DOMAIN entries' \subseteq Keys
        /\ \A x \in DOMAIN entries' : entries'[x] \in Entry
    BY <1>4, EntriesTyped DEF BeginReject, TypeOK
  <2>2. QED
    BY <1>4, <2>1 DEF BeginReject, SweepClock, Issue, TypeOK, Numbered, Stages
<1>5. ASSUME NEW p \in Procs, SendCommit(p) \/ StartRecord(p) PROVE Base'
  <2>1. CASE SendCommit(p)
    <3>1. pc[p] = "apply" /\ pc' = [pc EXCEPT ![p] = "committing"]
          /\ UNCHANGED <<now, call, entries, nextSweep, lastBegin, limbo, effects, told,
                         unknown, calls, life, suspends>>
      BY <2>1 DEF SendCommit
    <3>2. TypeOK'
      BY <3>1 DEF TypeOK, Steps
    <3>3. QED
      BY <3>1, <3>2 DEF TypeOK, Numbered, Stages
  <2>2. CASE StartRecord(p)
    <3>1. pc[p] = "written" /\ suspends /\ pc' = [pc EXCEPT ![p] = "recording"]
          /\ UNCHANGED <<now, call, entries, nextSweep, lastBegin, limbo, effects, told,
                         unknown, calls, life, suspends>>
      BY <2>2 DEF StartRecord
    <3>2. TypeOK'
      BY <3>1 DEF TypeOK, Steps
    <3>3. QED
      BY <3>1, <3>2 DEF TypeOK, Numbered, Stages
  <2>3. QED
    BY <1>5, <2>1, <2>2
<1>6. ASSUME NEW p \in Procs, Fail(p) \/ CommitAnswerLost(p) \/ Cancel(p) PROVE Base'
  <2>1. /\ DOMAIN entries' \subseteq Keys
        /\ \A x \in DOMAIN entries' : entries'[x] \in Entry
    <3>1. entries' = entries \/ entries' = Abandoned(p)
      BY <1>6 DEF Fail, CommitAnswerLost, Cancel
    <3>2. /\ DOMAIN entries' \subseteq DOMAIN entries
          /\ \A x \in DOMAIN entries' : entries'[x] = entries[x]
      BY <3>1, EntriesTyped
    <3>3. QED
      BY <3>2 DEF TypeOK
  <2>2. call[p] \in Request /\ (pc[p] # "idle" => call[p].id \in 1..MaxCalls)
    BY DEF TypeOK, Numbered
  <2>3. Leave(p) /\ UNCHANGED <<now, nextSweep, lastBegin, effects, told, calls, life, suspends>>
    BY <1>6 DEF Fail, CommitAnswerLost, Cancel
  <2>4. /\ limbo' \subseteq limbo \cup {call[p]}
        /\ unknown' \subseteq unknown \cup {call[p].id}
        /\ pc[p] # "idle"
    BY <1>6 DEF Fail, CommitAnswerLost, Cancel
  <2>5. TypeOK'
    BY <2>1, <2>2, <2>3, <2>4, NoRequestTyped DEF Leave, TypeOK, Steps
  <2>6. Numbered' /\ Stages'
    BY <2>2, <2>3, <2>4 DEF Leave, TypeOK, Numbered, Stages
  <2>7. QED
    BY <2>5, <2>6
<1>7. ASSUME NEW p \in Procs, Record(p) \/ EndRecord(p) PROVE Base'
  <2>1. entries' = Recorded(p) /\ Leave(p) /\ Tell(call[p], call[p].id)
        /\ UNCHANGED <<now, nextSweep, lastBegin, limbo, effects, unknown, calls, life, suspends>>
    BY <1>7 DEF Record, EndRecord
  <2>2. call[p] \in Request /\ call[p].id \in Nat
    BY DEF TypeOK, Request
  <2>3. told' \subseteq [call : Request, id : Nat, at : Nat]
    BY <2>1, <2>2 DEF Tell, TypeOK
  <2>4. TypeOK'
    BY <2>1, <2>3, RecordedTyped, NoRequestTyped DEF Leave, TypeOK, Steps
  <2>5. QED
    BY <2>1, <2>4 DEF Leave, TypeOK, Numbered, Stages
<1>8. ASSUME NEW p \in Procs, DbCommit(p) PROVE Base'
  BY <1>8 DEF DbCommit, TypeOK, Numbered, Stages, Steps
<1>9. ASSUME NEW c \in limbo, LimboEnds(c) PROVE Base'
  <2>1. c \in Request /\ c.id \in 1..MaxCalls /\ c.id \in 1..calls
    BY DEF TypeOK, Numbered
  <2>2. /\ limbo' \subseteq limbo /\ effects \subseteq effects' /\ effects' \subseteq effects \cup {c}
        /\ unknown' \subseteq unknown \cup {c.id}
        /\ UNCHANGED <<now, pc, call, entries, nextSweep, lastBegin, told, calls, life, suspends>>
    BY <1>9 DEF LimboEnds
  <2>3. TypeOK'
    BY <2>1, <2>2 DEF TypeOK
  <2>4. QED
    BY <2>1, <2>2, <2>3 DEF Numbered, Stages
<1>10. CASE Tick
  <2>1. TypeOK'
    BY <1>10 DEF Tick, TypeOK
  <2>2. \A p \in Procs : call[p].at \in Nat
    BY DEF TypeOK, Request
  <2>3. now \in Nat /\ now' = now + 1
    BY <1>10 DEF Tick, TypeOK
  <2>4. UNCHANGED <<pc, call, limbo, effects, calls, life, suspends>>
    BY <1>10 DEF Tick
  <2>5. QED
    BY <2>1, <2>2, <2>3, <2>4 DEF Numbered, Stages
<1>11. CASE Crash
  <2>1. \A p \in Procs : call[p] \in Request /\ (pc[p] # "idle" => call[p].id \in 1..MaxCalls)
    BY DEF TypeOK, Numbered
  <2>2. limbo' \subseteq Request /\ unknown' \subseteq 1..MaxCalls
    BY <1>11, <2>1 DEF Crash, TypeOK
  <2>3. life \in Nat /\ life' = life + 1 /\ effects' = effects /\ calls' = calls
    BY <1>11 DEF Crash, TypeOK
  <2>4. \A c \in limbo' \cup effects' : c.life \in Nat
    BY <2>2, <2>3 DEF TypeOK, Request
  <2>5. \A c \in limbo' \cup effects' : c.id \in 1..calls /\ c.life <= life
    <3> TAKE c \in limbo' \cup effects'
    <3>1. c \in limbo \cup effects \/ \E p \in Procs : pc[p] = "committing" /\ c = call[p]
      BY <1>11 DEF Crash
    <3>2. QED
      BY <2>3, <3>1 DEF Numbered
  <2>6. TypeOK'
    <3>1. pc' \in [Procs -> Steps] /\ call' \in [Procs -> Request]
      BY <1>11, NoRequestTyped DEF Crash, Steps
    <3>2. /\ DOMAIN entries' = {} /\ nextSweep' \in Nat /\ life' \in 0..MaxCrashes
          /\ UNCHANGED <<now, lastBegin, effects, told, calls, suspends>>
      BY <1>11 DEF Crash, TypeOK
    <3>3. QED
      BY <2>2, <3>1, <3>2 DEF TypeOK
  <2>7. Numbered' /\ Stages'
    BY <1>11, <2>3, <2>4, <2>5 DEF Crash, Numbered, Stages
  <2>8. QED
    BY <2>6, <2>7
<1>12. CASE UNCHANGED vars
  BY <1>12 DEF vars, TypeOK, Numbered, Stages
<1>13. QED
  BY <1>1, <1>2, <1>3, <1>4, <1>5, <1>6, <1>7, <1>8, <1>9, <1>10, <1>11, <1>12 DEF Next

(* run_mutation, MemStore: every reachable state is well typed; requests   *)
(* are numbered and entries, answers and effects are what the code stores. *)
THEOREM TypeCorrect == Spec => []TypeOK
<1>1. Spec => []Base
  BY BaseInit, BaseStep, PTL DEF Spec
<1>2. QED
  BY <1>1, PTL DEF Base
-----------------------------------------------------------------------------
(* The Claim guard. It does not need requests to be shorter than the TTL.  *)

(* Removing or completing one key's entry strands no other.                *)
LEMMA StrandedStep == Base /\ NoStrandedClaim /\ [Next]_vars => NoStrandedClaim'
<1> SUFFICES ASSUME Base, NoStrandedClaim, [Next]_vars, ~suspends', NEW k \in DOMAIN entries',
                    ~entries'[k].done
             PROVE  \E p \in Procs : pc'[p] # "idle" /\ call'[p].key = k
  BY DEF NoStrandedClaim
<1>1. suspends' = suspends
  BY DEF Next, vars, BeginPlain, BeginFresh, BeginReplay, BeginReject, SendCommit, Fail,
         CommitAnswerLost, Record, StartRecord, EndRecord, Cancel, DbCommit, LimboEnds, Tick, Crash
<1>2. \A x \in DOMAIN entries : ~entries[x].done =>
        \E p \in Procs : pc[p] # "idle" /\ call[p].key = x
  BY <1>1 DEF NoStrandedClaim
<1>3. \A q \in Procs : pc[q] # "recording"
  BY <1>1 DEF Base, Stages
<1>4. pc \in [Procs -> Steps] /\ call \in [Procs -> Request] /\ DOMAIN entries \subseteq Keys
  BY DEF Base, TypeOK
(* A step that leaves the running tasks alone and adds no claim.           *)
<1>5. ASSUME k \in DOMAIN entries, entries'[k] = entries[k],
             \A q \in Procs : pc[q] # "idle" => pc'[q] # "idle" /\ call'[q] = call[q]
      PROVE  \E p \in Procs : pc'[p] # "idle" /\ call'[p].key = k
  BY <1>2, <1>5
(* A task that ends and takes its entry with it, or completes it.          *)
<1>6. ASSUME NEW p \in Procs, Leave(p), k # call[p].key, k \in DOMAIN entries,
             entries'[k] = entries[k]
      PROVE  \E q \in Procs : pc'[q] # "idle" /\ call'[q].key = k
  <2>1. PICK q \in Procs : pc[q] # "idle" /\ call[q].key = k
    BY <1>2, <1>6
  <2>2. q # p
    BY <1>6, <2>1
  <2>3. pc'[q] = pc[q] /\ call'[q] = call[q]
    BY <1>4, <1>6, <2>2 DEF Leave
  <2>4. QED
    BY <2>1, <2>3
<1>7. ASSUME NEW p \in Procs, NEW f \in Prints, BeginPlain(p, f)
      PROVE  \E q \in Procs : pc'[q] # "idle" /\ call'[q].key = k
  BY <1>4, <1>5, <1>7 DEF BeginPlain, Issue, Enter
<1>8. ASSUME NEW p \in Procs, NEW f \in Prints, NEW x \in Keys, BeginFresh(p, x, f)
      PROVE  \E q \in Procs : pc'[q] # "idle" /\ call'[q].key = k
  <2>1. CASE k = x
    <3>1. pc'[p] = "apply" /\ call'[p] = New(x, f)
      BY <1>4, <1>8 DEF BeginFresh, Enter
    <3>2. QED
      BY <2>1, <3>1 DEF New
  <2>2. CASE k # x
    <3>1. k \in DOMAIN entries /\ entries'[k] = entries[k]
      BY <1>8, <2>2, EntriesTyped DEF BeginFresh, Put, Base
    <3>2. \A q \in Procs : pc[q] # "idle" => pc'[q] # "idle" /\ call'[q] = call[q]
      BY <1>4, <1>8 DEF BeginFresh, Issue, Enter
    <3>3. QED
      BY <1>5, <3>1, <3>2
  <2>3. QED
    BY <2>1, <2>2
<1>9. ASSUME NEW p \in Procs, NEW f \in Prints, NEW x \in Keys,
             BeginReplay(p, x, f) \/ BeginReject(p, x, f)
      PROVE  \E q \in Procs : pc'[q] # "idle" /\ call'[q].key = k
  <2>1. entries' = Swept /\ UNCHANGED <<pc, call>>
    BY <1>9 DEF BeginReplay, BeginReject
  <2>2. QED
    BY <1>5, <2>1, EntriesTyped DEF Base
<1>10. ASSUME NEW p \in Procs, SendCommit(p) \/ StartRecord(p) \/ DbCommit(p)
       PROVE  \E q \in Procs : pc'[q] # "idle" /\ call'[q].key = k
  BY <1>4, <1>5, <1>10 DEF SendCommit, StartRecord, DbCommit
<1>11. ASSUME NEW p \in Procs, Fail(p) \/ CommitAnswerLost(p) \/ Cancel(p)
       PROVE  \E q \in Procs : pc'[q] # "idle" /\ call'[q].key = k
  <2>1. entries' = Abandoned(p) /\ Leave(p)
    BY <1>3, <1>11 DEF Fail, CommitAnswerLost, Cancel
  <2>2. k # call[p].key /\ k \in DOMAIN entries /\ entries'[k] = entries[k]
    BY <2>1, EntriesTyped DEF Base
  <2>3. QED
    BY <1>6, <2>1, <2>2
<1>12. ASSUME NEW p \in Procs, Record(p) \/ EndRecord(p)
       PROVE  \E q \in Procs : pc'[q] # "idle" /\ call'[q].key = k
  <2>1. entries' = Recorded(p) /\ Leave(p)
    BY <1>12 DEF Record, EndRecord
  <2>2. k # call[p].key /\ k \in DOMAIN entries /\ entries'[k] = entries[k]
    <3>1. CASE call[p].key = NoKey
      BY <1>4, <2>1, <3>1 DEF Recorded
    <3>2. CASE call[p].key # NoKey
      BY <2>1, <3>2 DEF Recorded, Put
    <3>3. QED
      BY <3>1, <3>2
  <2>3. QED
    BY <1>6, <2>1, <2>2
<1>13. ASSUME NEW c \in limbo, LimboEnds(c)
       PROVE  \E q \in Procs : pc'[q] # "idle" /\ call'[q].key = k
  BY <1>5, <1>13 DEF LimboEnds
<1>14. CASE Tick
  BY <1>5, <1>14 DEF Tick
<1>15. CASE Crash
  BY <1>15 DEF Crash
<1>16. CASE UNCHANGED vars
  BY <1>5, <1>16 DEF vars
<1>17. QED
  BY <1>7, <1>8, <1>9, <1>10, <1>11, <1>12, <1>13, <1>14, <1>15, <1>16 DEF Next

(* Claim::drop: with a store whose record does not suspend, a key that is  *)
(* reported in flight belongs to a request that is still running, however  *)
(* long requests take and whatever is cancelled, fails or crashes.         *)
THEOREM ClaimsAreReleased == Spec => []NoStrandedClaim
<1>1. Init => NoStrandedClaim
  BY DEF Init, NoStrandedClaim
<1>2. Spec => []Base
  BY BaseInit, BaseStep, PTL DEF Spec
<1>3. QED
  BY <1>1, <1>2, StrandedStep, PTL DEF Spec

-----------------------------------------------------------------------------
(* The amortised sweep.                                                    *)

(* No entry expires a TTL before the next sweep, which follows the last    *)
(* begin.                                                                  *)
SweepAhead ==
    /\ lastBegin <= now /\ lastBegin <= nextSweep /\ nextSweep <= now + Ttl
    /\ \A k \in DOMAIN entries : entries[k].expires + Ttl > nextSweep

LEMMA SweepStep == Base /\ SweepAhead /\ [Next]_vars => SweepAhead'
<1> SUFFICES ASSUME Base, SweepAhead, [Next]_vars PROVE SweepAhead'
  OBVIOUS
<1>1. /\ now \in Nat /\ nextSweep \in Nat /\ lastBegin \in Nat
      /\ \A k \in DOMAIN entries : entries[k].expires \in Nat
  BY DEF Base, TypeOK, Entry
(* A step without begin keeps what it keeps, and adds nothing older.       *)
<1>2. ASSUME UNCHANGED <<nextSweep, lastBegin>>, now' \in {now, now + 1},
             \A k \in DOMAIN entries' :
                entries'[k].expires = now + Ttl
                \/ (k \in DOMAIN entries /\ entries'[k] = entries[k])
      PROVE  SweepAhead'
  BY <1>1, <1>2 DEF SweepAhead
(* A begin sweeps first if it is due.                                      *)
<1>3. ASSUME SweepClock, UNCHANGED now,
             \A k \in DOMAIN entries' :
                entries'[k].expires = now + Ttl
                \/ (k \in DOMAIN Swept /\ entries'[k] = Swept[k])
      PROVE  SweepAhead'
  <2>1. CASE now >= nextSweep
    <3>1. \A k \in DOMAIN Swept : k \in DOMAIN entries /\ Swept[k] = entries[k] /\ entries[k].expires > now
      BY <2>1 DEF Swept, Only
    <3>2. QED
      BY <1>1, <1>3, <2>1, <3>1 DEF SweepAhead, SweepClock
  <2>2. CASE ~(now >= nextSweep)
    <3>1. Swept = entries
      BY <2>2 DEF Swept
    <3>2. QED
      BY <1>1, <1>3, <2>2, <3>1 DEF SweepAhead, SweepClock
  <2>3. QED
    BY <2>1, <2>2
<1>4. ASSUME NEW p \in Procs, NEW f \in Prints, NEW k \in Keys,
             BeginFresh(p, k, f) \/ BeginReplay(p, k, f) \/ BeginReject(p, k, f)
      PROVE  SweepAhead'
  <2>1. CASE BeginFresh(p, k, f)
    BY <1>3, <2>1 DEF BeginFresh, Put, InFlightEntry
  <2>2. CASE BeginReplay(p, k, f) \/ BeginReject(p, k, f)
    BY <1>3, <2>2 DEF BeginReplay, BeginReject
  <2>3. QED
    BY <1>4, <2>1, <2>2
<1>5. ASSUME NEW p \in Procs, Fail(p) \/ CommitAnswerLost(p) \/ Cancel(p) PROVE SweepAhead'
  <2>1. UNCHANGED <<now, nextSweep, lastBegin>> /\ (entries' = entries \/ entries' = Abandoned(p))
    BY <1>5 DEF Fail, CommitAnswerLost, Cancel
  <2>2. QED
    BY <1>2, <2>1, EntriesTyped DEF Base
<1>6. ASSUME NEW p \in Procs, Record(p) \/ EndRecord(p) PROVE SweepAhead'
  <2>1. UNCHANGED <<now, nextSweep, lastBegin>> /\ entries' = Recorded(p)
    BY <1>6 DEF Record, EndRecord
  <2>2. CASE call[p].key = NoKey
    BY <1>2, <2>1, <2>2 DEF Recorded
  <2>3. CASE call[p].key # NoKey
    BY <1>2, <2>1, <2>3 DEF Recorded, Put
  <2>4. QED
    BY <2>2, <2>3
<1>7. CASE Crash
  <2>1. now' = now /\ lastBegin' = lastBegin /\ nextSweep' = now + Ttl /\ entries' = << >>
    BY <1>7 DEF Crash
  <2>2. QED
    BY <1>1, <2>1 DEF SweepAhead
<1>8. CASE Tick
  BY <1>2, <1>8 DEF Tick
<1>9. ASSUME NEW p \in Procs, NEW f \in Prints, BeginPlain(p, f) PROVE SweepAhead'
  BY <1>2, <1>9 DEF BeginPlain
<1>10. ASSUME NEW p \in Procs, SendCommit(p) \/ StartRecord(p) \/ DbCommit(p) PROVE SweepAhead'
  BY <1>2, <1>10 DEF SendCommit, StartRecord, DbCommit
<1>11. ASSUME NEW c \in limbo, LimboEnds(c) PROVE SweepAhead'
  BY <1>2, <1>11 DEF LimboEnds
<1>12. CASE UNCHANGED vars
  BY <1>2, <1>12 DEF vars
<1>13. QED
  BY <1>4, <1>5, <1>6, <1>7, <1>8, <1>9, <1>10, <1>11, <1>12 DEF Next

(* State::sweep_if_due: no entry survives a begin by a whole TTL after it  *)
(* expired.                                                                *)
THEOREM SweepBoundsEntries == Spec => []SweptInTime
<1>1. Init => SweepAhead
  BY DEF Init, SweepAhead
<1>2. Spec => []Base
  BY BaseInit, BaseStep, PTL DEF Spec
<1>3. Base /\ SweepAhead => SweptInTime
  <2> SUFFICES ASSUME Base, SweepAhead, NEW k \in DOMAIN entries PROVE entries[k].expires + Ttl > lastBegin
    BY DEF SweptInTime
  <2>1. entries[k].expires \in Nat /\ lastBegin \in Nat /\ nextSweep \in Nat
    BY DEF Base, TypeOK, Entry
  <2>2. QED
    BY <2>1 DEF SweepAhead
<1>4. QED
  BY <1>1, <1>2, <1>3, SweepStep, PTL DEF Spec
-----------------------------------------------------------------------------
(* What follows holds while requests are shorter than the TTL, which is    *)
(* what MemStore's documentation asks of its user.                         *)

(* A running request owns the entry of its key.                            *)
Owns(p) ==
    LET k == call[p].key IN
    /\ k \in DOMAIN entries
    /\ ~entries[k].done /\ entries[k].print = call[p].print
    /\ entries[k].expires = call[p].at + Ttl /\ now < call[p].at + Ttl

Keyed(p) == pc[p] # "idle" /\ call[p].key # NoKey

ClaimsOwned == OneRunPerKey /\ \A p \in Procs : Keyed(p) => Owns(p)

(* A sweep takes no key from a running request, and no answer from a       *)
(* caller that may still ask for it.                                       *)
LEMMA SweptKeepsLive ==
    ASSUME Base, NEW k \in DOMAIN entries, entries[k].expires > now
    PROVE  k \in DOMAIN Swept /\ Swept[k] = entries[k] /\ Live(k)
BY DEF Swept, Only, Live

LEMMA OwnedIsLive ==
    ASSUME Base, ClaimsOwned, NEW p \in Procs, Keyed(p)
    PROVE  Live(call[p].key)
<1>1. Owns(p)
  BY DEF ClaimsOwned
<1>2. call[p].at \in Nat /\ now \in Nat
  BY DEF Base, TypeOK, Request
<1>3. entries[call[p].key].expires > now
  BY <1>1, <1>2 DEF Owns
<1>4. QED
  BY <1>1, <1>3, SweptKeepsLive DEF Owns

(* Tasks that go on with their entries untouched own them still.           *)
LEMMA OwnersKept ==
    ASSUME ClaimsOwned, now' = now,
           \A q \in Procs : pc'[q] # "idle" => pc[q] # "idle" /\ call'[q] = call[q],
           \A q \in Procs : Keyed(q) /\ pc'[q] # "idle" =>
                call[q].key \in DOMAIN entries' /\ entries'[call[q].key] = entries[call[q].key]
    PROVE  ClaimsOwned'
<1>1. OneRunPerKey'
  BY DEF ClaimsOwned, OneRunPerKey
<1>2. ASSUME NEW q \in Procs, Keyed(q)' PROVE Owns(q)'
  <2>1. pc'[q] # "idle" /\ Keyed(q) /\ call'[q] = call[q]
    BY <1>2 DEF Keyed
  <2>2. Owns(q)
    BY <2>1 DEF ClaimsOwned
  <2>3. QED
    BY <2>1, <2>2 DEF Owns
<1>3. QED
  BY <1>1, <1>2 DEF ClaimsOwned

(* A task that ends touches no entry but its own.                          *)
LEMMA OthersKept ==
    ASSUME Base, ClaimsOwned, NEW p \in Procs, pc[p] # "idle", Leave(p),
           entries' \in {entries, Abandoned(p), Recorded(p)}
    PROVE  /\ \A q \in Procs : pc'[q] # "idle" => q # p /\ pc'[q] = pc[q] /\ call'[q] = call[q]
           /\ \A q \in Procs : Keyed(q) /\ q # p =>
                call[q].key \in DOMAIN entries' /\ entries'[call[q].key] = entries[call[q].key]
<1>1. \A q \in Procs : pc'[q] # "idle" => q # p /\ pc'[q] = pc[q] /\ call'[q] = call[q]
  BY DEF Leave, Base, TypeOK
<1>2. ASSUME NEW q \in Procs, Keyed(q), q # p
      PROVE  call[q].key \in DOMAIN entries' /\ entries'[call[q].key] = entries[call[q].key]
  <2>1. call[q].key # call[p].key
    BY <1>2 DEF ClaimsOwned, OneRunPerKey, Keyed
  <2>2. call[q].key \in DOMAIN entries
    BY <1>2 DEF ClaimsOwned, Owns
  <2>3. QED
    BY <2>1, <2>2 DEF Abandoned, Recorded, Only, Put
<1>3. QED
  BY <1>1, <1>2

LEMMA ClaimsStep ==
    ASSUME OpsWithinTtl PROVE Base /\ ClaimsOwned /\ [Next]_vars => ClaimsOwned'
<1> SUFFICES ASSUME Base, ClaimsOwned, [Next]_vars PROVE ClaimsOwned'
  OBVIOUS
<1>1. pc \in [Procs -> Steps] /\ call \in [Procs -> Request] /\ now \in Nat
  BY DEF Base, TypeOK
<1>2. ASSUME NEW p \in Procs, NEW f \in Prints, BeginPlain(p, f) PROVE ClaimsOwned'
  <2>1. call' = [call EXCEPT ![p] = New(NoKey, f)] /\ pc' = [pc EXCEPT ![p] = "apply"]
        /\ UNCHANGED <<now, entries>>
    BY <1>2 DEF BeginPlain, Enter
  <2>2. \A q \in Procs : Keyed(q)' => Keyed(q) /\ call'[q] = call[q]
    BY <1>1, <2>1 DEF Keyed, New
  <2>3. OneRunPerKey'
    BY <2>2 DEF ClaimsOwned, OneRunPerKey, Keyed
  <2>4. QED
    BY <2>1, <2>2, <2>3 DEF ClaimsOwned, Owns
<1>3. ASSUME NEW p \in Procs, NEW f \in Prints, NEW k \in Keys, BeginFresh(p, k, f) PROVE ClaimsOwned'
  <2>1. call' = [call EXCEPT ![p] = New(k, f)] /\ pc' = [pc EXCEPT ![p] = "apply"]
        /\ entries' = Put(Swept, k, InFlightEntry(f)) /\ now' = now
    BY <1>3 DEF BeginFresh, Enter
  <2>2. \A q \in Procs : Keyed(q) => call[q].key # k
    BY <1>3, OwnedIsLive DEF BeginFresh
  <2>3. \A q \in Procs : Keyed(q)' => q = p \/ (Keyed(q) /\ call'[q] = call[q])
    BY <1>1, <2>1 DEF Keyed
  <2>4. call'[p] = New(k, f) /\ pc'[p] # "idle"
    BY <1>1, <2>1
  <2>5. OneRunPerKey'
    BY <2>2, <2>3, <2>4 DEF ClaimsOwned, OneRunPerKey, Keyed, New
  <2>6. Owns(p)'
    BY <1>1, <2>1, <2>4 DEF Owns, New, Put, InFlightEntry
  <2>7. ASSUME NEW q \in Procs, Keyed(q), call'[q] = call[q] PROVE Owns(q)'
    <3>1. Owns(q) /\ Live(call[q].key)
      BY <2>7, OwnedIsLive DEF ClaimsOwned
    <3>2. call[q].key \in DOMAIN Swept /\ Swept[call[q].key] = entries[call[q].key]
      BY <3>1, EntriesTyped DEF Live, Base
    <3>3. call[q].key \in DOMAIN entries' /\ entries'[call[q].key] = entries[call[q].key]
      BY <2>1, <2>2, <2>7, <3>2 DEF Put
    <3>4. QED
      BY <2>1, <2>7, <3>1, <3>3 DEF Owns
  <2>8. QED
    BY <2>3, <2>5, <2>6, <2>7 DEF ClaimsOwned
<1>4. ASSUME NEW p \in Procs, NEW f \in Prints, NEW k \in Keys,
             BeginReplay(p, k, f) \/ BeginReject(p, k, f)
      PROVE  ClaimsOwned'
  <2>1. UNCHANGED <<now, pc, call>> /\ entries' = Swept
    BY <1>4 DEF BeginReplay, BeginReject
  <2>2. \A q \in Procs : Keyed(q) =>
          call[q].key \in DOMAIN Swept /\ Swept[call[q].key] = entries[call[q].key]
    BY OwnedIsLive, EntriesTyped DEF Live, Base
  <2>3. QED
    BY <2>1, <2>2, OwnersKept
<1>5. ASSUME NEW p \in Procs, SendCommit(p) \/ StartRecord(p) \/ DbCommit(p) PROVE ClaimsOwned'
  <2>1. \A q \in Procs : pc'[q] # "idle" => pc[q] # "idle"
    BY <1>1, <1>5 DEF SendCommit, StartRecord, DbCommit
  <2>2. UNCHANGED <<now, call, entries>>
    BY <1>5 DEF SendCommit, StartRecord, DbCommit
  <2>3. \A q \in Procs : Keyed(q) => call[q].key \in DOMAIN entries
    BY DEF ClaimsOwned, Owns
  <2>4. QED
    BY <2>1, <2>2, <2>3, OwnersKept
<1>6. ASSUME NEW p \in Procs,
             \/ Fail(p) \/ CommitAnswerLost(p) \/ Cancel(p)
             \/ Record(p) \/ EndRecord(p)
      PROVE  ClaimsOwned'
  <2>1. now' = now /\ Leave(p) /\ pc[p] # "idle"
    BY <1>6 DEF Fail, CommitAnswerLost, Cancel, Record, EndRecord
  <2>2. entries' \in {entries, Abandoned(p), Recorded(p)}
    BY <1>6 DEF Fail, CommitAnswerLost, Cancel, Record, EndRecord
  <2>3. QED
    BY <2>1, <2>2, OthersKept, OwnersKept
<1>7. ASSUME NEW c \in limbo, LimboEnds(c) PROVE ClaimsOwned'
  BY <1>7 DEF LimboEnds, ClaimsOwned, OneRunPerKey, Keyed, Owns
<1>8. CASE Tick
  <2>1. now' = now + 1 /\ UNCHANGED <<pc, call, entries>>
    BY <1>8 DEF Tick
  <2>2. \A q \in Procs : pc[q] # "idle" => now + 1 < call[q].at + Ttl
    BY <1>8 DEF Tick
  <2>3. QED
    BY <2>1, <2>2 DEF ClaimsOwned, OneRunPerKey, Keyed, Owns
<1>9. CASE Crash
  BY <1>9 DEF Crash, ClaimsOwned, OneRunPerKey, Keyed
<1>10. CASE UNCHANGED vars
  BY <1>10 DEF vars, ClaimsOwned, OneRunPerKey, Keyed, Owns
<1>11. QED
  BY <1>2, <1>3, <1>4, <1>5, <1>6, <1>7, <1>8, <1>9, <1>10 DEF Next

LEMMA ClaimsInit == Init => ClaimsOwned
BY DEF Init, ClaimsOwned, OneRunPerKey, Keyed

(* IdempotencyStore::begin: while requests are shorter than the TTL, two   *)
(* requests under one key never run their writes at the same time.         *)
THEOREM ClaimsExclude == ASSUME OpsWithinTtl PROVE Spec => []OneRunPerKey
<1>1. Spec => []Base
  BY BaseInit, BaseStep, PTL DEF Spec
<1>2. Base /\ ClaimsOwned /\ [Next]_vars => ClaimsOwned'
  BY ClaimsStep
<1>3. ClaimsOwned => OneRunPerKey
  BY DEF ClaimsOwned
<1>4. QED
  BY <1>1, <1>2, <1>3, ClaimsInit, PTL DEF Spec
-----------------------------------------------------------------------------
(* Answers.                                                                *)

(* A recorded response is that of a committed request with the key and the *)
(* payload the entry has.                                                  *)
AnswersTruthful ==
    /\ AnswersMatchPayload
    /\ \A k \in DOMAIN entries : entries[k].done =>
        \E e \in effects : e.id = entries[k].response /\ e.key = k /\ e.print = entries[k].print

(* Entries that stay, and new ones in flight, are as good as before.       *)
LEMMA TruthKept ==
    ASSUME AnswersTruthful, effects \subseteq effects', told' = told,
           \A k \in DOMAIN entries' :
              ~entries'[k].done \/ (k \in DOMAIN entries /\ entries'[k] = entries[k])
    PROVE  AnswersTruthful'
BY DEF AnswersTruthful, AnswersMatchPayload

LEMMA AnswersStep ==
    Base /\ ClaimsOwned /\ AnswersTruthful /\ [Next]_vars => AnswersTruthful'
<1> SUFFICES ASSUME Base, ClaimsOwned, AnswersTruthful, [Next]_vars PROVE AnswersTruthful'
  OBVIOUS
<1>1. ASSUME NEW p \in Procs, NEW f \in Prints, BeginPlain(p, f) PROVE AnswersTruthful'
  BY <1>1, TruthKept DEF BeginPlain
<1>2. ASSUME NEW p \in Procs, NEW f \in Prints, NEW k \in Keys, BeginFresh(p, k, f)
      PROVE  AnswersTruthful'
  <2>1. effects' = effects /\ told' = told /\ entries' = Put(Swept, k, InFlightEntry(f))
    BY <1>2 DEF BeginFresh
  <2>2. \A x \in DOMAIN entries' :
          ~entries'[x].done \/ (x \in DOMAIN entries /\ entries'[x] = entries[x])
    BY <2>1, EntriesTyped DEF Put, InFlightEntry, Base
  <2>3. QED
    BY <2>1, <2>2, TruthKept
<1>3. ASSUME NEW p \in Procs, NEW f \in Prints, NEW k \in Keys, BeginReplay(p, k, f)
      PROVE  AnswersTruthful'
  <2>1. effects' = effects /\ entries' = Swept
        /\ told' = told \cup {[call |-> New(k, f), id |-> Swept[k].response, at |-> now]}
    BY <1>3 DEF BeginReplay, Tell
  <2>2. k \in DOMAIN entries /\ Swept[k] = entries[k] /\ entries[k].done /\ entries[k].print = f
    BY <1>3, EntriesTyped DEF BeginReplay, Live, Base
  <2>3. PICK e \in effects : e.id = entries[k].response /\ e.key = k /\ e.print = f
    BY <2>2 DEF AnswersTruthful
  <2>4. AnswersMatchPayload'
    BY <2>1, <2>2, <2>3 DEF AnswersTruthful, AnswersMatchPayload, New
  <2>5. QED
    BY <2>1, <2>4, EntriesTyped DEF AnswersTruthful, Base
<1>4. ASSUME NEW p \in Procs, NEW f \in Prints, NEW k \in Keys, BeginReject(p, k, f)
      PROVE  AnswersTruthful'
  BY <1>4, TruthKept, EntriesTyped DEF BeginReject, Base
<1>5. ASSUME NEW p \in Procs, SendCommit(p) \/ StartRecord(p) \/ DbCommit(p) PROVE AnswersTruthful'
  BY <1>5, TruthKept DEF SendCommit, StartRecord, DbCommit
<1>6. ASSUME NEW p \in Procs, Fail(p) \/ CommitAnswerLost(p) \/ Cancel(p) PROVE AnswersTruthful'
  <2>1. effects' = effects /\ told' = told /\ (entries' = entries \/ entries' = Abandoned(p))
    BY <1>6 DEF Fail, CommitAnswerLost, Cancel
  <2>2. \A k \in DOMAIN entries' : k \in DOMAIN entries /\ entries'[k] = entries[k]
    BY <2>1, EntriesTyped DEF Base
  <2>3. QED
    BY <2>1, <2>2, TruthKept
<1>7. ASSUME NEW p \in Procs, Record(p) \/ EndRecord(p) PROVE AnswersTruthful'
  <2> DEFINE c == call[p]
  <2>1. effects' = effects /\ entries' = Recorded(p)
        /\ told' = told \cup {[call |-> c, id |-> c.id, at |-> now]}
    BY <1>7 DEF Record, EndRecord, Tell
  <2>2. c \in effects
    BY <1>7 DEF Record, EndRecord, Base, Stages
  <2>3. AnswersMatchPayload'
    BY <2>1, <2>2 DEF AnswersTruthful, AnswersMatchPayload
  <2>4. CASE c.key = NoKey
    BY <2>1, <2>3, <2>4 DEF AnswersTruthful, Recorded
  <2>5. CASE c.key # NoKey
    <3>1. Owns(p)
      BY <1>7, <2>5 DEF ClaimsOwned, Keyed, Record, EndRecord
    <3>2. ASSUME NEW k \in DOMAIN entries', entries'[k].done
          PROVE  \E e \in effects : e.id = entries'[k].response /\ e.key = k /\ e.print = entries'[k].print
      <4>1. CASE k = c.key
        <5>1. entries'[k] = [print |-> c.print, done |-> TRUE, response |-> c.id, expires |-> now + Ttl]
          BY <2>1, <2>5, <3>1, <4>1 DEF Recorded, Put, Owns
        <5>2. QED
          BY <2>2, <4>1, <5>1
      <4>2. CASE k # c.key
        <5>1. k \in DOMAIN entries /\ entries'[k] = entries[k]
          BY <2>1, <2>5, <4>2 DEF Recorded, Put
        <5>2. QED
          BY <3>2, <5>1 DEF AnswersTruthful
      <4>3. QED
        BY <4>1, <4>2
    <3>3. QED
      BY <2>1, <2>3, <3>2 DEF AnswersTruthful
  <2>6. QED
    BY <2>4, <2>5
<1>8. ASSUME NEW c \in limbo, LimboEnds(c) PROVE AnswersTruthful'
  BY <1>8, TruthKept DEF LimboEnds
<1>9. CASE Tick
  BY <1>9, TruthKept DEF Tick
<1>10. CASE Crash
  BY <1>10, TruthKept DEF Crash
<1>11. CASE UNCHANGED vars
  BY <1>11, TruthKept DEF vars
<1>12. QED
  BY <1>1, <1>2, <1>3, <1>4, <1>5, <1>6, <1>7, <1>8, <1>9, <1>10, <1>11 DEF Next

(* begin, record: while requests are shorter than the TTL, a success       *)
(* answered is the response of a committed request with the same key and   *)
(* the same payload.                                                       *)
THEOREM AnswersAreTruthful == ASSUME OpsWithinTtl PROVE Spec => []AnswersMatchPayload
<1>1. Spec => []Base
  BY BaseInit, BaseStep, PTL DEF Spec
<1>2. Base /\ ClaimsOwned /\ [Next]_vars => ClaimsOwned'
  BY ClaimsStep
<1>3. Init => AnswersTruthful
  BY DEF Init, AnswersTruthful, AnswersMatchPayload
<1>4. AnswersTruthful => AnswersMatchPayload
  BY DEF AnswersTruthful
<1>5. QED
  BY <1>1, <1>2, <1>3, <1>4, ClaimsInit, AnswersStep, PTL DEF Spec

-----------------------------------------------------------------------------
(* Repeats.                                                                *)

(* The requests that have committed or still may.                          *)
Begun == effects \cup limbo \cup {call[p] : p \in {q \in Procs : pc[q] # "idle"}}

SameKey(c, e) == c.key = e.key /\ c.life = e.life

(* A running request is the newest one of its key in this process life.    *)
Newest ==
    \A p \in Procs : Keyed(p) => \A c \in Begun : SameKey(c, call[p]) => c.id <= call[p].id

(* A success t keeps e from being repeated for a TTL: later requests began *)
(* after that, and the recorded response lasts until then.                 *)
Guards(t, e) ==
    /\ t.call = e /\ t.id = e.id
    /\ \A c \in Begun : SameKey(c, e) /\ c.id > e.id => c.at >= t.at + Ttl
    /\ e.life = life =>
        \/ now >= t.at + Ttl
        \/ /\ e.key \in DOMAIN entries /\ entries[e.key].done
           /\ entries[e.key].expires >= t.at + Ttl

(* A commit is unknown, about to be answered, or guarded by its answer.    *)
Settled(e) ==
    \/ e.id \in unknown
    \/ \E p \in Procs : pc[p] \in {"written", "recording"} /\ call[p] = e
    \/ \E t \in told : Guards(t, e)

RepeatInv == Newest /\ \A e \in effects : e.key # NoKey => Settled(e)

(* A step without a new keyed request, in one process life.                *)
Quiet ==
    /\ \A c \in Begun' : c \in Begun \/ c.key = NoKey
    /\ \A p \in Procs : Keyed(p)' => Keyed(p) /\ call'[p] = call[p]
    /\ life' = life /\ now \in Nat /\ now' \in Nat /\ now <= now'
    /\ unknown \subseteq unknown' /\ told \subseteq told'
    /\ \A k \in DOMAIN entries : entries[k].done /\ entries[k].expires > now =>
        k \in DOMAIN entries' /\ entries'[k] = entries[k]

LEMMA GuardsKept ==
    ASSUME Base, Quiet, NEW t \in told, NEW e \in effects, e.key # NoKey, Guards(t, e)
    PROVE  Guards(t, e)'
<1>1. \A c \in Begun' : SameKey(c, e) => c \in Begun
  BY DEF Quiet, SameKey
<1>2. t.at + Ttl \in Nat /\ \A k \in DOMAIN entries : entries[k].expires \in Nat
  BY DEF Base, TypeOK, Entry
<1>3. CASE now >= t.at + Ttl
  BY <1>1, <1>2, <1>3 DEF Quiet, Guards
<1>4. CASE ~(now >= t.at + Ttl)
  <2>1. e.life = life => /\ e.key \in DOMAIN entries /\ entries[e.key].done
                         /\ entries[e.key].expires >= t.at + Ttl
    BY <1>4 DEF Guards
  <2>2. e.life = life => e.key \in DOMAIN entries' /\ entries'[e.key] = entries[e.key]
    BY <1>2, <1>4, <2>1 DEF Quiet
  <2>3. QED
    BY <1>1, <2>1, <2>2 DEF Quiet, Guards
<1>5. QED
  BY <1>3, <1>4

LEMMA NewestKept == ASSUME Newest, Quiet PROVE Newest'
BY DEF Newest, Quiet, SameKey, Keyed

(* What is left to show of such a step: the tasks past their COMMIT.       *)
LEMMA RepeatKept ==
    ASSUME Base, RepeatInv, Quiet,
           \A e \in effects : e.key # NoKey /\
              (\E p \in Procs : pc[p] \in {"written", "recording"} /\ call[p] = e) => Settled(e)',
           \A e \in effects' : e \in effects \/ Settled(e)'
    PROVE  RepeatInv'
<1>1. Newest'
  BY NewestKept DEF RepeatInv
<1>2. ASSUME NEW e \in effects', e.key # NoKey PROVE Settled(e)'
  <2>1. CASE e \in effects
    <3>1. Settled(e)
      BY <1>2, <2>1 DEF RepeatInv
    <3>2. CASE e.id \in unknown
      BY <3>2 DEF Settled, Quiet
    <3>3. CASE \E p \in Procs : pc[p] \in {"written", "recording"} /\ call[p] = e
      BY <1>2, <2>1, <3>3
    <3>4. CASE \E t \in told : Guards(t, e)
      <4>1. PICK t \in told : Guards(t, e)
        BY <3>4
      <4>2. Guards(t, e)' /\ t \in told'
        BY <1>2, <2>1, <4>1, GuardsKept DEF Quiet
      <4>3. QED
        BY <4>2 DEF Settled
    <3>5. QED
      BY <3>1, <3>2, <3>3, <3>4 DEF Settled
  <2>2. QED
    BY <1>2, <2>1
<1>3. QED
  BY <1>1, <1>2 DEF RepeatInv

(* A step that leaves the requests' keys, their order and the clock to it. *)
LEMMA QuietStep ==
    ASSUME Base, life' = life, unknown \subseteq unknown', told \subseteq told',
           now' \in {now, now + 1},
           \A q \in Procs : pc'[q] # "idle" =>
                call'[q].key = NoKey \/ (pc[q] # "idle" /\ call'[q] = call[q]),
           \A c \in limbo' \cup effects' : c \in Begun,
           \A k \in DOMAIN entries : entries[k].done /\ entries[k].expires > now =>
                k \in DOMAIN entries' /\ entries'[k] = entries[k]
    PROVE  Quiet
<1>1. now \in Nat
  BY DEF Base, TypeOK
<1>2. \A p \in Procs : Keyed(p)' => Keyed(p) /\ call'[p] = call[p]
  BY DEF Keyed
<1>3. \A c \in Begun' : c \in Begun \/ c.key = NoKey
  <2> TAKE c \in Begun'
  <2>1. CASE c \in effects' \cup limbo'
    BY <2>1
  <2>2. CASE \E p \in Procs : pc'[p] # "idle" /\ c = call'[p]
    BY <2>2 DEF Begun
  <2>3. QED
    BY <2>1, <2>2 DEF Begun
<1>4. QED
  BY <1>1, <1>2, <1>3 DEF Quiet

(* A running request has begun, and a task that ends spares every other    *)
(* entry; its own one is not an answer.                                    *)
LEMMA RunningBegun ==
    /\ \A p \in Procs : pc[p] # "idle" => call[p] \in Begun
    /\ \A c \in limbo \cup effects : c \in Begun
BY DEF Begun

LEMMA DoneKept ==
    ASSUME Base, ClaimsOwned, NEW p \in Procs, pc[p] # "idle",
           entries' \in {entries, Abandoned(p), Recorded(p)},
           NEW k \in DOMAIN entries, entries[k].done
    PROVE  k \in DOMAIN entries' /\ entries'[k] = entries[k]
<1>1. call[p].key # NoKey => call[p].key # k
  BY DEF ClaimsOwned, Owns, Keyed
<1>2. k # NoKey
  BY DEF Base, TypeOK
<1>3. call[p].key # k
  BY <1>1, <1>2
<1>4. CASE entries' = Abandoned(p)
  BY <1>3, <1>4 DEF Abandoned, Only
<1>5. CASE entries' = Recorded(p)
  BY <1>3, <1>5 DEF Recorded, Put
<1>6. QED
  BY <1>4, <1>5

LEMMA RepeatStep == Base /\ Base' /\ ClaimsOwned /\ RepeatInv /\ [Next]_vars => RepeatInv'
<1> SUFFICES ASSUME Base, Base', ClaimsOwned, RepeatInv, [Next]_vars PROVE RepeatInv'
  OBVIOUS
<1>1. /\ pc \in [Procs -> Steps] /\ call \in [Procs -> Request] /\ now \in Nat
      /\ \A p \in Procs : call[p].key # NoKey => call[p].key \in Keys
  BY DEF Base, TypeOK, Request
(* The tasks past their COMMIT stay there.                                 *)
<1>2. ASSUME Quiet, effects' = effects,
             \A q \in Procs : pc[q] \in {"written", "recording"} =>
                pc'[q] \in {"written", "recording"} /\ call'[q] = call[q]
      PROVE  RepeatInv'
  <2>1. ASSUME NEW e \in effects, NEW p \in Procs, pc[p] \in {"written", "recording"}, call[p] = e
        PROVE  Settled(e)'
    BY <1>2, <2>1 DEF Settled
  <2>2. QED
    BY <1>2, <2>1, RepeatKept
<1>3. ASSUME NEW p \in Procs, NEW f \in Prints, BeginPlain(p, f) PROVE RepeatInv'
  <2>1. pc[p] = "idle" /\ pc' = [pc EXCEPT ![p] = "apply"] /\ call' = [call EXCEPT ![p] = New(NoKey, f)]
        /\ UNCHANGED <<now, entries, limbo, effects, told, unknown, life>>
    BY <1>3 DEF BeginPlain, Issue, Enter
  <2>2. \A q \in Procs : q # p => pc'[q] = pc[q] /\ call'[q] = call[q]
    BY <1>1, <2>1
  <2>3. call'[p].key = NoKey
    BY <1>1, <2>1 DEF New
  <2>4. Quiet
    BY <2>1, <2>2, <2>3, RunningBegun, QuietStep
  <2>5. QED
    BY <1>2, <2>1, <2>2, <2>4
<1>4. ASSUME NEW p \in Procs, NEW f \in Prints, NEW k \in Keys,
             BeginReplay(p, k, f) \/ BeginReject(p, k, f)
      PROVE  RepeatInv'
  <2>1. entries' = Swept /\ told \subseteq told'
        /\ UNCHANGED <<now, pc, call, limbo, effects, unknown, life>>
    BY <1>4 DEF BeginReplay, BeginReject, Tell
  <2>2. Quiet
    BY <2>1, RunningBegun, SweptKeepsLive, QuietStep
  <2>3. QED
    BY <1>2, <2>1, <2>2
<1>5. ASSUME NEW p \in Procs, SendCommit(p) \/ StartRecord(p) PROVE RepeatInv'
  <2>1. UNCHANGED <<now, call, entries, limbo, effects, told, unknown, life>>
    BY <1>5 DEF SendCommit, StartRecord
  <2>2. \A q \in Procs : pc'[q] # "idle" => pc[q] # "idle"
    BY <1>1, <1>5 DEF SendCommit, StartRecord
  <2>3. \A q \in Procs : pc[q] \in {"written", "recording"} => pc'[q] \in {"written", "recording"}
    BY <1>1, <1>5 DEF SendCommit, StartRecord
  <2>4. Quiet
    BY <2>1, <2>2, RunningBegun, QuietStep
  <2>5. QED
    BY <1>2, <2>1, <2>3, <2>4
<1>6. ASSUME NEW p \in Procs, DbCommit(p) PROVE RepeatInv'
  <2>1. effects' = effects \cup {call[p]} /\ pc[p] = "committing" /\ pc' = [pc EXCEPT ![p] = "written"]
        /\ UNCHANGED <<now, call, entries, limbo, told, unknown, life>>
    BY <1>6 DEF DbCommit
  <2>2. \A q \in Procs : /\ pc'[q] # "idle" => pc[q] # "idle"
                         /\ pc[q] \in {"written", "recording"} => pc'[q] \in {"written", "recording"}
    BY <1>1, <2>1
  <2>3. Quiet
    BY <2>1, <2>2, RunningBegun, QuietStep
  <2>4. ASSUME NEW e \in effects', NEW q \in Procs, pc'[q] \in {"written", "recording"}, call[q] = e
        PROVE  Settled(e)'
    BY <2>1, <2>4 DEF Settled
  <2>5. pc'[p] = "written"
    BY <1>1, <2>1
  <2>6. \A e \in effects' : e \in effects \/ Settled(e)'
    BY <2>1, <2>4, <2>5
  <2>7. \A e \in effects : e.key # NoKey /\
          (\E q \in Procs : pc[q] \in {"written", "recording"} /\ call[q] = e) => Settled(e)'
    BY <2>1, <2>2, <2>4
  <2>8. QED
    BY <2>3, <2>6, <2>7, RepeatKept
(* A task that ends without an answer: what it committed is unknown.       *)
<1>7. ASSUME NEW p \in Procs, Fail(p) \/ CommitAnswerLost(p) \/ Cancel(p) PROVE RepeatInv'
  <2>1. /\ pc[p] # "idle" /\ Leave(p) /\ entries' \in {entries, Abandoned(p), Recorded(p)}
        /\ UNCHANGED <<now, effects, told, life>> /\ unknown \subseteq unknown'
        /\ pc[p] \in {"written", "recording"} => call[p].id \in unknown'
    BY <1>7 DEF Fail, CommitAnswerLost, Cancel
  <2>2. limbo' = limbo \/ limbo' = limbo \cup {call[p]}
    BY <1>7 DEF Fail, CommitAnswerLost, Cancel
  <2>3. \A q \in Procs : pc'[q] # "idle" => q # p /\ pc'[q] = pc[q] /\ call'[q] = call[q]
    BY <2>1, OthersKept
  <2>4. \A q \in Procs : q # p => pc'[q] = pc[q] /\ call'[q] = call[q]
    BY <1>1, <2>1 DEF Leave
  <2>5. Quiet
    <3>1. \A k \in DOMAIN entries : entries[k].done =>
            k \in DOMAIN entries' /\ entries'[k] = entries[k]
      BY <2>1, DoneKept
    <3>2. \A c \in limbo' \cup effects' : c \in Begun
      BY <2>1, <2>2, RunningBegun
    <3>3. QED
      BY <2>1, <2>3, <3>1, <3>2, QuietStep
  <2>6. ASSUME NEW e \in effects, NEW q \in Procs, pc[q] \in {"written", "recording"}, call[q] = e
        PROVE  Settled(e)'
    BY <2>1, <2>4, <2>6 DEF Settled
  <2>7. QED
    BY <2>1, <2>5, <2>6, RepeatKept
(* A task that records: its answer guards what it committed.               *)
<1>8. ASSUME NEW p \in Procs, Record(p) \/ EndRecord(p) PROVE RepeatInv'
  <2> DEFINE t == [call |-> call[p], id |-> call[p].id, at |-> now]
  <2>1. /\ pc[p] # "idle" /\ Leave(p) /\ entries' = Recorded(p)
        /\ told' = told \cup {t}
        /\ UNCHANGED <<now, effects, limbo, unknown, life>>
    BY <1>8 DEF Record, EndRecord, Tell
  <2>2. \A q \in Procs : pc'[q] # "idle" => q # p /\ pc'[q] = pc[q] /\ call'[q] = call[q]
    BY <2>1, OthersKept
  <2>3. \A q \in Procs : q # p => pc'[q] = pc[q] /\ call'[q] = call[q]
    BY <1>1, <2>1 DEF Leave
  <2>4. Quiet
    <3>1. \A k \in DOMAIN entries : entries[k].done =>
            k \in DOMAIN entries' /\ entries'[k] = entries[k]
      BY <2>1, DoneKept
    <3>2. QED
      BY <2>1, <2>2, <3>1, RunningBegun, QuietStep
  <2>5. ASSUME NEW e \in effects, e.key # NoKey, call[p] = e PROVE Settled(e)'
    <3>1. Keyed(p)
      BY <2>1, <2>5 DEF Keyed
    <3>2. e.key \in DOMAIN entries' /\ entries'[e.key].done /\ entries'[e.key].expires = now + Ttl
      BY <2>1, <2>5 DEF Recorded, Put
    <3>3. \A c \in Begun' : SameKey(c, e) => c \in Begun
      BY <2>4, <2>5 DEF Quiet, SameKey
    <3>4. \A c \in Begun' : SameKey(c, e) => c.id <= e.id
      BY <2>5, <3>1, <3>3 DEF RepeatInv, Newest
    <3>5. e.id \in Nat /\ \A c \in Begun' : c.id \in Nat
      BY <2>5 DEF Begun, Base, TypeOK, Request
    <3>6. \A c \in Begun' : ~(SameKey(c, e) /\ c.id > e.id)
      BY <3>4, <3>5
    <3>7. PICK u \in told' : u.call = e /\ u.id = e.id /\ u.at = now
      <4>1. t \in told'
        BY <2>1
      <4>2. t.call = e /\ t.id = e.id /\ t.at = now
        BY <2>5
      <4> HIDE DEF t
      <4>3. QED
        BY <4>1, <4>2
    <3>8. Guards(u, e)'
      BY <1>1, <2>1, <3>2, <3>6, <3>7 DEF Guards, SameKey
    <3>9. QED
      BY <3>7, <3>8 DEF Settled
  <2>6. ASSUME NEW e \in effects, e.key # NoKey,
               NEW q \in Procs, pc[q] \in {"written", "recording"}, call[q] = e
        PROVE  Settled(e)'
    <3>1. CASE q = p
      BY <2>5, <2>6, <3>1
    <3>2. CASE q # p
      BY <2>3, <2>6, <3>2 DEF Settled
    <3>3. QED
      BY <3>1, <3>2
  <2>7. QED
    BY <2>1, <2>4, <2>6, RepeatKept
<1>9. ASSUME NEW c \in limbo, LimboEnds(c) PROVE RepeatInv'
  <2>1. /\ limbo' \subseteq limbo /\ UNCHANGED <<now, pc, call, entries, told, life>>
        /\ unknown \subseteq unknown'
        /\ \A e \in effects' : e \in effects \/ (e = c /\ e.id \in unknown')
    BY <1>9 DEF LimboEnds
  <2>2. Quiet
    BY <2>1, RunningBegun, QuietStep
  <2>3. \A e \in effects' : e \in effects \/ Settled(e)'
    BY <2>1 DEF Settled
  <2>4. ASSUME NEW e \in effects, NEW q \in Procs, pc[q] \in {"written", "recording"}, call[q] = e
        PROVE  Settled(e)'
    BY <2>1, <2>4 DEF Settled
  <2>5. QED
    BY <2>2, <2>3, <2>4, RepeatKept
<1>10. CASE Tick
  <2>1. now' = now + 1 /\ UNCHANGED <<pc, call, entries, limbo, effects, told, unknown, life>>
    BY <1>10 DEF Tick
  <2>2. Quiet
    BY <2>1, RunningBegun, QuietStep
  <2>3. QED
    BY <1>2, <2>1, <2>2
<1>11. CASE UNCHANGED vars
  <2>1. UNCHANGED <<now, pc, call, entries, limbo, effects, told, unknown, life>>
    BY <1>11 DEF vars
  <2>2. Quiet
    BY <2>1, RunningBegun, QuietStep
  <2>3. QED
    BY <1>2, <2>1, <2>2
(* A new keyed request: the TTL of every answer under its key is over.     *)
<1>12. ASSUME NEW p \in Procs, NEW f \in Prints, NEW k \in Keys, BeginFresh(p, k, f)
       PROVE  RepeatInv'
  <2> DEFINE n == New(k, f)
  <2>1. /\ pc[p] = "idle" /\ pc' = [pc EXCEPT ![p] = "apply"] /\ call' = [call EXCEPT ![p] = n]
        /\ entries' = Put(Swept, k, InFlightEntry(f)) /\ ~Live(k)
        /\ UNCHANGED <<now, limbo, effects, told, unknown, life>>
    BY <1>12 DEF BeginFresh, Issue, Enter
  <2>2. n.key = k /\ n.at = now /\ n.life = life /\ n.id = calls + 1 /\ k # NoKey
    BY DEF New
  <2>3. \A q \in Procs : q # p => pc'[q] = pc[q] /\ call'[q] = call[q]
    BY <1>1, <2>1
  <2>4. pc'[p] = "apply" /\ call'[p] = n
    BY <1>1, <2>1
  <2>5. \A c \in Begun' : c \in Begun \/ c = n
    BY <2>1, <2>3, <2>4 DEF Begun
  <2>6. \A q \in Procs : Keyed(q) => call[q].key # k
    BY <2>1, OwnedIsLive
  <2>7. calls \in Nat /\ \A c \in Begun : c.id \in 1..calls
    BY DEF Begun, Base, TypeOK, Numbered
  <2>8. Newest'
    <3> SUFFICES ASSUME NEW q \in Procs, Keyed(q)', NEW c \in Begun', SameKey(c, call'[q])
                 PROVE  c.id <= call'[q].id
      BY DEF Newest, SameKey
    <3>1. CASE q = p
      BY <2>2, <2>4, <2>5, <2>7, <3>1
    <3>2. CASE q # p
      <4>1. Keyed(q) /\ call'[q] = call[q]
        BY <2>3, <3>2 DEF Keyed
      <4>2. c \in Begun
        BY <2>2, <2>5, <2>6, <4>1 DEF SameKey
      <4>3. QED
        BY <4>1, <4>2 DEF RepeatInv, Newest
    <3>3. QED
      BY <3>1, <3>2
  <2>9. ASSUME NEW e \in effects, e.key # NoKey PROVE Settled(e)'
    <3>1. Settled(e)
      BY <2>9 DEF RepeatInv
    <3>2. CASE e.id \in unknown
      BY <2>1, <3>2 DEF Settled
    <3>3. CASE \E q \in Procs : pc[q] \in {"written", "recording"} /\ call[q] = e
      BY <2>1, <2>3, <3>3 DEF Settled
    <3>4. ASSUME NEW t \in told, Guards(t, e) PROVE Settled(e)'
      <4>1. t.at + Ttl \in Nat /\ \A x \in DOMAIN entries : entries[x].expires \in Nat
        BY DEF Base, TypeOK, Entry
      <4>2. CASE e.key = k /\ e.life = life
        <5>1. k \in DOMAIN entries => ~(entries[k].expires > now)
          BY <2>1, SweptKeepsLive
        <5>2. now >= t.at + Ttl
          BY <1>1, <3>4, <4>1, <4>2, <5>1 DEF Guards
        <5>3. \A c \in Begun' : SameKey(c, e) /\ c.id > e.id => c.at >= t.at + Ttl
          BY <2>2, <2>5, <3>4, <5>2 DEF Guards
        <5>4. Guards(t, e)'
          BY <2>1, <3>4, <5>2, <5>3 DEF Guards, SameKey
        <5>5. QED
          BY <2>1, <5>4 DEF Settled
      <4>3. CASE ~(e.key = k /\ e.life = life)
        <5>1. \A c \in Begun' : SameKey(c, e) => c \in Begun
          BY <2>2, <2>5, <4>3 DEF SameKey
        <5>2. ASSUME e.life = life, ~(now >= t.at + Ttl)
              PROVE  e.key \in DOMAIN entries' /\ entries'[e.key] = entries[e.key]
          <6>1. e.key \in DOMAIN entries /\ entries[e.key].expires > now
            BY <1>1, <3>4, <4>1, <5>2 DEF Guards
          <6>2. QED
            BY <2>1, <4>3, <5>2, <6>1, SweptKeepsLive DEF Put
        <5>3. Guards(t, e)'
          BY <2>1, <3>4, <5>1, <5>2 DEF Guards, SameKey
        <5>4. QED
          BY <2>1, <5>3 DEF Settled
      <4>4. QED
        BY <4>2, <4>3
    <3>5. QED
      BY <3>1, <3>2, <3>3, <3>4 DEF Settled
  <2>10. QED
    BY <2>1, <2>8, <2>9 DEF RepeatInv
(* The process is lost: its commits are answered or unknown.               *)
<1>13. CASE Crash
  <2>1. /\ life' = life + 1 /\ UNCHANGED <<now, effects, told>> /\ unknown \subseteq unknown'
        /\ \A p \in Procs : pc'[p] = "idle"
        /\ \A p \in Procs : pc[p] \in {"written", "recording"} => call[p].id \in unknown'
    BY <1>13 DEF Crash
  <2>2. \A c \in Begun' : c \in Begun
    BY <1>13, <2>1 DEF Crash, Begun
  <2>3. Newest'
    BY <2>1 DEF Newest, Keyed
  <2>4. ASSUME NEW e \in effects, e.key # NoKey PROVE Settled(e)'
    <3>1. e.life # life'
      BY <2>1 DEF Base, TypeOK, Numbered, Request
    <3>2. Settled(e)
      BY <2>4 DEF RepeatInv
    <3>3. ASSUME NEW t \in told, Guards(t, e) PROVE Settled(e)'
      <4>1. Guards(t, e)'
        BY <2>1, <2>2, <3>1, <3>3 DEF Guards, SameKey
      <4>2. QED
        BY <2>1, <4>1 DEF Settled
    <3>4. QED
      BY <2>1, <3>2, <3>3 DEF Settled
  <2>5. QED
    BY <2>1, <2>3, <2>4 DEF RepeatInv
<1>14. QED
  BY <1>3, <1>4, <1>5, <1>6, <1>7, <1>8, <1>9, <1>10, <1>11, <1>12, <1>13 DEF Next

LEMMA RepeatInit == Init => RepeatInv
BY DEF Init, RepeatInv, Newest, Keyed

LEMMA SettledIsNotRepeated == Base /\ RepeatInv => RepeatsAreUnknownCommits
<1> SUFFICES ASSUME Base, RepeatInv, NEW e1 \in effects, NEW e2 \in effects,
                    e1.key # NoKey, e1.key = e2.key, e1.life = e2.life, e1.id < e2.id
             PROVE  \/ e1.id \in unknown
                    \/ \E t \in told : t.call = e1 /\ t.id = e1.id /\ e2.at >= t.at + Ttl
  BY DEF RepeatsAreUnknownCommits
<1>1. e2 \in Begun /\ SameKey(e2, e1) /\ e1.id \in Nat /\ e2.id \in Nat
  BY DEF Begun, SameKey, Base, TypeOK, Request
<1>2. Settled(e1)
  BY DEF RepeatInv
<1>3. ~ \E p \in Procs : pc[p] \in {"written", "recording"} /\ call[p] = e1
  BY <1>1 DEF RepeatInv, Newest, Keyed
<1>4. QED
  BY <1>1, <1>2, <1>3 DEF Settled, Guards

(* run_mutation: while requests are shorter than the TTL, two requests of  *)
(* one process life commit under one key only if the outcome of the first  *)
(* was lost, or was answered a whole TTL before the second began.          *)
THEOREM OnlyUnknownCommitsRepeat ==
    ASSUME OpsWithinTtl PROVE Spec => []RepeatsAreUnknownCommits
<1>1. Spec => []Base
  BY BaseInit, BaseStep, PTL DEF Spec
<1>2. Base /\ ClaimsOwned /\ [Next]_vars => ClaimsOwned'
  BY ClaimsStep
<1>3. QED
  BY <1>1, <1>2, ClaimsInit, RepeatInit, RepeatStep, SettledIsNotRepeated, PTL DEF Spec
=============================================================================
