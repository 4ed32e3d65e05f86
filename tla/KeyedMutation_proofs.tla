----------------------- MODULE KeyedMutation_proofs -----------------------
(***************************************************************************)
(* Proofs about KeyedMutation, for any number of tasks, keys, fingerprints *)
(* and retries.                                                            *)
(***************************************************************************)
EXTENDS KeyedMutation, FiniteSetTheorems, TLAPS

(* The invariant the safety theorems rest on, in four parts.               *)

Holding == {"write", "record", "commit", "committing"}

(* The request of a task past planning is one of the bounded requests.     *)
CallsNumbered ==
    /\ calls <= MaxCalls
    /\ \A p \in Procs : pc[p] # "idle" =>
          call[p].print \in Prints /\ call[p].id \in 1..MaxCalls

(* An uncommitted key row excludes a committed one, was inserted for a     *)
(* real request, and carries its response once it is sent to commit (when  *)
(* the column stores the whole key).                                       *)
ClaimsSound ==
    \A s \in Keys : claim[s].status # "free" =>
        /\ ~row[s].present
        /\ StoredKey[claim[s].key] = s
        /\ claim[s].print \in Prints
        /\ claim[s].id \in 1..MaxCalls
        /\ (claim[s].status = "committing" /\ s = claim[s].key)
              => claim[s].response = claim[s].id

(* A task between its INSERT and the end of its COMMIT owns exactly the    *)
(* uncommitted row of its own key, and no task owns any other.             *)
OwnClaim(p) ==
    LET c == claim[Slot(p)] IN
    /\ c.owner = p
    /\ c.status = IF pc[p] = "committing" THEN "committing" ELSE "open"
    /\ c.key = call[p].key /\ c.print = call[p].print /\ c.id = call[p].id
    /\ (pc[p] = "commit" /\ Slot(p) = c.key) => c.response = c.id

TasksOwnClaims ==
    \A p \in Procs :
        /\ pc[p] \in Holding => OwnClaim(p)
        /\ \A s \in Keys : Holds(p, s) => pc[p] \in Holding /\ s = Slot(p)

(* Effects belong to the past of their key or to its committed row.        *)
EffectsRetained ==
    \A e \in effects :
        /\ e.gen <= gen[StoredKey[e.key]]
        /\ e.gen = gen[StoredKey[e.key]] => row[StoredKey[e.key]].present

IndInv ==
    /\ TypeOK
    /\ CallsNumbered
    /\ ClaimsSound
    /\ TasksOwnClaims
    /\ EffectsRetained
    /\ OneEffectPerRetention

-----------------------------------------------------------------------------
USE ConstantsAssumption

(* The disjuncts of Next, for a proof that treats the actions one by one.  *)
LEMMA NextCases ==
    ASSUME [Next]_vars
    PROVE  \/ \E p \in Procs, k \in Keys, f \in Prints : Begin(p, k, f)
           \/ \E p \in Procs :
                \/ Checkout(p) \/ MaybeSweep(p) \/ Insert(p)
                \/ SelectReplay(p) \/ SelectReject(p)
                \/ RunWrites(p) \/ NotFound(p) \/ Record(p) \/ SendCommit(p)
                \/ CommitAcked(p) \/ CommitUnknown(p)
                \/ Deadlock(p) \/ Fail(p) \/ Cancel(p)
           \/ \E s \in Keys : DbCommit(s) \/ DbRollback(s) \/ Age(s)
           \/ SweepFallsDue \/ Sweep \/ SweepFails
           \/ UNCHANGED vars
BY DEF Next, Progress

(* NoClaim and NoRow are values of their types.                            *)
LEMMA SentinelTypes == NoClaim \in Claim /\ NoRow \in Row
BY DEF NoClaim, NoRow, Claim, Row

(* A dropped transaction keeps claim in its type.                          *)
LEMMA DropTxType ==
    ASSUME TypeOK, NEW p \in Procs, DropTx(p)
    PROVE  claim' \in [Keys -> Claim]
BY DEF TypeOK, DropTx, Holds, Claim

(* The type invariant is inductive by itself: every action of Next keeps   *)
(* every variable of KeyedMutation in its type.                            *)
LEMMA TypeStep == TypeOK /\ [Next]_vars => TypeOK'
<1> SUFFICES ASSUME TypeOK, [Next]_vars PROVE TypeOK'
  OBVIOUS
<1> USE DEF TypeOK
<1>1. ASSUME NEW p \in Procs, NEW k \in Keys, NEW f \in Prints, Begin(p, k, f)
      PROVE  TypeOK'
  BY <1>1 DEF Begin, Call, Steps
<1>2. ASSUME NEW p \in Procs, Checkout(p) PROVE TypeOK'
  BY <1>2 DEF Checkout, Steps
<1>3. ASSUME NEW p \in Procs, MaybeSweep(p) PROVE TypeOK'
  BY <1>3 DEF MaybeSweep, Steps
<1>4. ASSUME NEW p \in Procs, Insert(p) PROVE TypeOK'
  <2>1. Slot(p) \in Keys
    BY DEF Slot, Call
  <2>2. [status |-> "open", owner |-> p, key |-> call[p].key,
         print |-> call[p].print, id |-> call[p].id, response |-> 0,
         old |-> FALSE] \in Claim
    BY DEF Claim, Call
  <2>3. claim' \in [Keys -> Claim]
    BY <1>4, <2>1, <2>2 DEF Insert
  <2>4. QED
    BY <1>4, <2>3 DEF Insert, Steps
<1>5. ASSUME NEW p \in Procs, SelectReplay(p) PROVE TypeOK'
  <2>1. claim' \in [Keys -> Claim]
    BY <1>5, DropTxType DEF SelectReplay
  <2>2. SelectRow(p) \in Row
    BY SentinelTypes DEF SelectRow, Call
  <2>3. [Request(p) EXCEPT !.id = SelectRow(p).response] \in Answer
    BY <2>2 DEF Request, Answer, Call, Row
  <2>4. QED
    BY <1>5, <2>1, <2>3 DEF SelectReplay, Succeed, Return, Steps
<1>6. ASSUME NEW p \in Procs, SelectReject(p) PROVE TypeOK'
  BY <1>6, DropTxType DEF SelectReject, Return, Steps
<1>7. ASSUME NEW p \in Procs, RunWrites(p) PROVE TypeOK'
  BY <1>7 DEF RunWrites, Steps
<1>8. ASSUME NEW p \in Procs, NotFound(p) PROVE TypeOK'
  BY <1>8, DropTxType DEF NotFound, Return, Steps
<1>9. ASSUME NEW p \in Procs, Record(p) PROVE TypeOK'
  BY <1>9, SMTT(30) DEF Record, Slot, Call, Claim, Steps
<1>10. ASSUME NEW p \in Procs, SendCommit(p) PROVE TypeOK'
  BY <1>10 DEF SendCommit, Slot, Call, Claim, Steps
<1>11. ASSUME NEW p \in Procs, CommitAcked(p) PROVE TypeOK'
  BY <1>11 DEF CommitAcked, Succeed, Return, Request, Answer, Call, Steps
<1>12. ASSUME NEW p \in Procs, CommitUnknown(p) PROVE TypeOK'
  BY <1>12 DEF CommitUnknown, Return, Steps
<1>13. ASSUME NEW p \in Procs, Deadlock(p) PROVE TypeOK'
  <2>1. claim' \in [Keys -> Claim]
    BY <1>13, DropTxType DEF Deadlock
  <2>2. call' \in [Procs -> Call]
    <3>1. CASE Retry(p)
      <4>1. call[p].attempt + 1 \in 0..RetryLimit
        BY <3>1 DEF Retry, Call
      <4>2. [call[p] EXCEPT !.attempt = call[p].attempt + 1] \in Call
        BY <4>1 DEF Call
      <4>3. call' = [call EXCEPT ![p] = [call[p] EXCEPT !.attempt = call[p].attempt + 1]]
        BY <3>1 DEF Retry
      <4>4. QED
        BY <4>2, <4>3
    <3>2. CASE UNCHANGED call
      BY <3>2
    <3>3. QED
      BY <1>13, <3>1, <3>2 DEF Deadlock
  <2>3. pc' \in [Procs -> Steps]
    BY <1>13 DEF Deadlock, Retry, Return, Steps
  <2>4. QED
    BY <1>13, <2>1, <2>2, <2>3 DEF Deadlock
<1>14. ASSUME NEW p \in Procs, Fail(p) PROVE TypeOK'
  BY <1>14, DropTxType DEF Fail, Return, Steps
<1>15. ASSUME NEW p \in Procs, Cancel(p) PROVE TypeOK'
  BY <1>15, DropTxType DEF Cancel, Return, Steps
<1>16. ASSUME NEW s \in Keys, DbCommit(s) PROVE TypeOK'
  <2>1. claim' \in [Keys -> Claim]
    BY <1>16, SentinelTypes DEF DbCommit
  <2>2. row' \in [Keys -> Row] /\ effects' \subseteq Effect
    BY <1>16 DEF DbCommit, Row, Effect, Claim
  <2>3. pc' \in [Procs -> Steps]
    BY <1>16 DEF DbCommit, Steps
  <2>4. QED
    BY <1>16, <2>1, <2>2, <2>3 DEF DbCommit
<1>17. ASSUME NEW s \in Keys, DbRollback(s) PROVE TypeOK'
  BY <1>17, SentinelTypes DEF DbRollback, Steps
<1>18. ASSUME NEW s \in Keys, Age(s) PROVE TypeOK'
  <2> row[s] \in Row /\ claim[s] \in Claim
    OBVIOUS
  <2>0. [row[s] EXCEPT !.old = TRUE] \in Row
    BY ZenonT(20) DEF Row
  <2>1. [claim[s] EXCEPT !.old = TRUE] \in Claim
    BY ZenonT(60) DEF Claim
  <2>2. CASE row' = [row EXCEPT ![s].old = TRUE] /\ UNCHANGED claim
    <3>1. row' = [row EXCEPT ![s] = [row[s] EXCEPT !.old = TRUE]]
      BY <2>2
    <3>2. QED
      BY <1>18, <2>0, <2>2, <3>1 DEF Age
  <2>3. CASE claim' = [claim EXCEPT ![s].old = TRUE] /\ UNCHANGED row
    <3>1. claim' = [claim EXCEPT ![s] = [claim[s] EXCEPT !.old = TRUE]]
      BY <2>3
    <3>2. QED
      BY <1>18, <2>1, <2>3, <3>1 DEF Age
  <2>4. QED
    BY <1>18, <2>2, <2>3 DEF Age
<1>19. CASE SweepFallsDue
  BY <1>19 DEF SweepFallsDue
<1>20. CASE Sweep
  BY <1>20, SentinelTypes DEF Sweep
<1>21. CASE SweepFails
  BY <1>21 DEF SweepFails
<1>22. CASE UNCHANGED vars
  BY <1>22 DEF vars
<1>23. QED
  BY NextCases, <1>1, <1>2, <1>3, <1>4, <1>5, <1>6, <1>7, <1>8, <1>9, <1>10,
     <1>11, <1>12, <1>13, <1>14, <1>15, <1>16, <1>17, <1>18, <1>19, <1>20,
     <1>21, <1>22

LEMMA InitType == Init => TypeOK
BY SentinelTypes DEF Init, TypeOK, Call, Steps

(* Every reachable state of KeyedMutation is well typed; in particular no  *)
(* task ever runs more than 1 + TX_RETRY_LIMIT attempts.                   *)
THEOREM TypeCorrect == Spec => []TypeOK
BY InitType, TypeStep, PTL DEF Spec

-----------------------------------------------------------------------------
(* The invariant is inductive.                                             *)

SafetyParts ==
    CallsNumbered /\ ClaimsSound /\ TasksOwnClaims /\ EffectsRetained
        /\ OneEffectPerRetention

LEMMA InitInd == Init => IndInv
<1> SUFFICES ASSUME Init PROVE IndInv
  OBVIOUS
<1>1. TypeOK
  BY InitType
<1>2. SafetyParts
  BY DEF Init, SafetyParts, CallsNumbered, ClaimsSound, TasksOwnClaims, Holding,
         Holds, NoClaim, EffectsRetained, OneEffectPerRetention
<1>3. QED
  BY <1>1, <1>2 DEF IndInv, SafetyParts

(* A step that only moves a task between places where it holds no claim.   *)
LEMMA MoveStep ==
    ASSUME IndInv, NEW p \in Procs, NEW x \in Steps \ Holding,
           pc[p] \notin Holding, x # "idle" => pc[p] # "idle",
           pc' = [pc EXCEPT ![p] = x],
           UNCHANGED <<call, row, claim, effects, gen, calls>>
    PROVE  SafetyParts'
<1> USE DEF IndInv, TypeOK
<1>1. CallsNumbered'
  BY DEF CallsNumbered
<1>2. ClaimsSound'
  BY DEF ClaimsSound
<1>3. TasksOwnClaims'
  BY DEF TasksOwnClaims, OwnClaim, Holds, Slot
<1>4. EffectsRetained' /\ OneEffectPerRetention'
  BY DEF EffectsRetained, OneEffectPerRetention
<1>5. QED
  BY <1>1, <1>2, <1>3, <1>4 DEF SafetyParts

(* A step that drops the transaction of p and returns it to its caller or  *)
(* to the start of the attempt loop.                                       *)
LEMMA LeaveStep ==
    ASSUME IndInv, NEW p \in Procs, NEW x \in {"idle", "checkout"},
           x # "idle" => pc[p] # "idle",
           DropTx(p), pc' = [pc EXCEPT ![p] = x],
           \A q \in Procs : /\ call'[q].key = call[q].key
                            /\ call'[q].print = call[q].print
                            /\ call'[q].id = call[q].id,
           UNCHANGED <<row, effects, gen, calls>>
    PROVE  SafetyParts'
<1> USE DEF IndInv, TypeOK
<1>1. CallsNumbered'
  BY DEF CallsNumbered
<1>2. \A s \in Keys : /\ claim'[s].status = claim[s].status
                      /\ claim'[s].key = claim[s].key
                      /\ claim'[s].print = claim[s].print
                      /\ claim'[s].id = claim[s].id
                      /\ claim'[s].response = claim[s].response
  BY DEF DropTx, Claim
<1>3. \A s \in Keys : claim'[s].owner = IF Holds(p, s) THEN Nobody ELSE claim[s].owner
  BY DEF DropTx, Claim
<1>4. ClaimsSound'
  BY <1>2 DEF ClaimsSound
<1>5. ASSUME NEW q \in Procs PROVE pc'[q] \in Holding => OwnClaim(q)'
  <2> SUFFICES ASSUME pc'[q] \in Holding PROVE OwnClaim(q)'
    OBVIOUS
  <2>1. q # p /\ pc'[q] = pc[q]
    BY DEF Holding
  <2>2. OwnClaim(q)
    BY <2>1 DEF TasksOwnClaims
  <2>3. Slot(q) \in Keys /\ Slot(q)' = Slot(q)
    BY DEF Slot, Call
  <2>4. claim'[Slot(q)].owner = q
    BY <1>3, <2>1, <2>2, <2>3 DEF OwnClaim, Holds
  <2>5. QED
    BY <1>2, <2>1, <2>2, <2>3, <2>4 DEF OwnClaim
<1>6. ASSUME NEW q \in Procs, NEW s \in Keys, Holds(q, s)'
      PROVE  pc'[q] \in Holding /\ s = Slot(q)'
  <2>1. q # p /\ Holds(q, s)
    BY <1>2, <1>3, <1>6 DEF Holds
  <2>2. pc[q] \in Holding /\ s = Slot(q)
    BY <2>1 DEF TasksOwnClaims
  <2>3. QED
    BY <2>1, <2>2 DEF Slot
<1>7. TasksOwnClaims'
  BY <1>5, <1>6 DEF TasksOwnClaims
<1>8. EffectsRetained' /\ OneEffectPerRetention'
  BY DEF EffectsRetained, OneEffectPerRetention
<1>9. QED
  BY <1>1, <1>4, <1>7, <1>8 DEF SafetyParts

LEMMA BeginStep ==
    ASSUME IndInv, NEW p \in Procs, NEW k \in Keys, NEW f \in Prints, Begin(p, k, f)
    PROVE  SafetyParts'
<1> USE DEF IndInv, TypeOK, Begin
<1>1. CallsNumbered'
  <2>1. calls' \in 1..MaxCalls
    BY DEF CallsNumbered
  <2>2. ASSUME NEW q \in Procs, pc'[q] # "idle"
        PROVE  call'[q].print \in Prints /\ call'[q].id \in 1..MaxCalls
    BY <2>1, <2>2 DEF CallsNumbered
  <2>3. QED
    BY <2>1, <2>2 DEF CallsNumbered
<1>2. ClaimsSound'
  BY DEF ClaimsSound
<1>3. \A s \in Keys : ~Holds(p, s)
  BY DEF TasksOwnClaims, Holding
<1>4. TasksOwnClaims'
  BY <1>3 DEF TasksOwnClaims, OwnClaim, Holds, Slot, Holding
<1>5. EffectsRetained' /\ OneEffectPerRetention'
  BY DEF EffectsRetained, OneEffectPerRetention
<1>6. QED
  BY <1>1, <1>2, <1>4, <1>5 DEF SafetyParts

LEMMA InsertStep ==
    ASSUME IndInv, NEW p \in Procs, Insert(p)
    PROVE  SafetyParts'
<1> USE DEF IndInv, TypeOK
<1> DEFINE s == Slot(p)
<1>1. s \in Keys
  BY DEF Slot, Call
<1>2. CASE row[s].present
  <2>1. pc' = [pc EXCEPT ![p] = "select"] /\ UNCHANGED claim
    BY <1>2 DEF Insert
  <2>2. QED
    BY <2>1, MoveStep DEF Insert, Holding, Steps
<1>3. CASE ~row[s].present
  <2> DEFINE c == [status |-> "open", owner |-> p, key |-> call[p].key,
                   print |-> call[p].print, id |-> call[p].id,
                   response |-> 0, old |-> FALSE]
  <2>1. /\ pc[p] = "insert" /\ pc' = [pc EXCEPT ![p] = "write"]
        /\ claim[s].status = "free" /\ claim' = [claim EXCEPT ![s] = c]
        /\ UNCHANGED <<call, row, effects, gen, calls>>
    BY <1>3 DEF Insert
  <2> HIDE DEF s
  <2>2. CallsNumbered'
    BY <2>1 DEF CallsNumbered
  <2>3. ClaimsSound'
    <3>1. StoredKey[call[p].key] = s
      BY DEF s, Slot
    <3>2. QED
      BY <1>1, <1>3, <2>1, <3>1 DEF ClaimsSound, CallsNumbered
  <2>4. ASSUME NEW q \in Procs PROVE pc'[q] \in Holding => OwnClaim(q)'
    <3> SUFFICES ASSUME pc'[q] \in Holding PROVE OwnClaim(q)'
      OBVIOUS
    <3>1. CASE q = p
      BY <1>1, <2>1, <3>1 DEF OwnClaim, Slot, s
    <3>2. CASE q # p
      <4>1. pc[q] \in Holding /\ OwnClaim(q)
        BY <2>1, <3>2 DEF TasksOwnClaims
      <4>2. Slot(q) # s
        BY <2>1, <4>1 DEF OwnClaim
      <4>3. QED
        BY <2>1, <3>2, <4>1, <4>2 DEF OwnClaim, Slot
    <3>3. QED
      BY <3>1, <3>2
  <2>5. ASSUME NEW q \in Procs, NEW t \in Keys, Holds(q, t)'
        PROVE  pc'[q] \in Holding /\ t = Slot(q)'
    <3>1. CASE t = s
      <4>1. q = p
        BY <1>1, <2>1, <2>5, <3>1 DEF Holds
      <4>2. QED
        BY <2>1, <3>1, <4>1 DEF Holding, Slot, s
    <3>2. CASE t # s
      <4>1. Holds(q, t)
        BY <2>1, <2>5, <3>2 DEF Holds
      <4>2. pc[q] \in Holding /\ t = Slot(q)
        BY <4>1 DEF TasksOwnClaims
      <4>3. QED
        BY <2>1, <4>2 DEF Holding, Slot
    <3>3. QED
      BY <3>1, <3>2
  <2>6. TasksOwnClaims'
    BY <2>4, <2>5 DEF TasksOwnClaims
  <2>7. EffectsRetained' /\ OneEffectPerRetention'
    BY <2>1 DEF EffectsRetained, OneEffectPerRetention
  <2>8. QED
    BY <2>2, <2>3, <2>6, <2>7 DEF SafetyParts
<1>4. QED
  BY <1>2, <1>3

(* A step in which a task that holds its claim goes on to the next         *)
(* statement of the same transaction.                                      *)
LEMMA AdvanceStep ==
    ASSUME IndInv, NEW p \in Procs,
           RunWrites(p) \/ Record(p) \/ SendCommit(p)
    PROVE  SafetyParts'
<1> USE DEF IndInv, TypeOK
<1> DEFINE s == Slot(p)
<1>1. s \in Keys /\ OwnClaim(p) /\ pc[p] \in {"write", "record", "commit"}
  BY DEF Slot, Call, TasksOwnClaims, Holding, RunWrites, Record, SendCommit
<1>2. /\ UNCHANGED <<call, row, effects, gen, calls>>
      /\ \A t \in Keys : t # s => claim'[t] = claim[t]
      /\ \A q \in Procs : q # p => pc'[q] = pc[q]
      /\ claim'[s].owner = p /\ claim'[s].key = claim[s].key
      /\ claim'[s].print = claim[s].print /\ claim'[s].id = claim[s].id
      /\ pc'[p] \in {"record", "commit", "committing"}
      /\ claim'[s].status = IF pc'[p] = "committing" THEN "committing" ELSE "open"
  BY <1>1 DEF RunWrites, Record, SendCommit, OwnClaim, Claim
<1>3. (pc'[p] \in {"commit", "committing"} /\ s = claim[s].key)
          => claim'[s].response = claim[s].id
  BY <1>1 DEF RunWrites, Record, SendCommit, OwnClaim, Claim
<1>4. Slot(p)' = s
  BY <1>2 DEF Slot
<1> HIDE DEF s
<1>5. CallsNumbered'
  BY <1>1, <1>2 DEF CallsNumbered
<1>6. ClaimsSound'
  <2>1. claim[s].status # "free"
    BY <1>1, <1>2 DEF OwnClaim, s
  <2>2. QED
    BY <1>1, <1>2, <1>3, <2>1 DEF ClaimsSound
<1>7. ASSUME NEW q \in Procs PROVE pc'[q] \in Holding => OwnClaim(q)'
  <2>1. CASE q = p
    BY <1>1, <1>2, <1>3, <1>4, <2>1 DEF OwnClaim, s
  <2>2. CASE q # p
    <3> SUFFICES ASSUME pc'[q] \in Holding PROVE OwnClaim(q)'
      OBVIOUS
    <3>1. OwnClaim(q) /\ Slot(q) \in Keys
      BY <1>2, <2>2 DEF TasksOwnClaims, Slot, Call
    <3>2. Slot(q) # s
      BY <1>1, <2>2, <3>1 DEF OwnClaim, s
    <3>3. QED
      BY <1>2, <2>2, <3>1, <3>2 DEF OwnClaim, Slot
  <2>3. QED
    BY <2>1, <2>2
<1>8. ASSUME NEW q \in Procs, NEW t \in Keys, Holds(q, t)'
      PROVE  pc'[q] \in Holding /\ t = Slot(q)'
  <2>1. CASE t = s
    BY <1>2, <1>4, <1>8, <2>1 DEF Holds, Holding
  <2>2. CASE t # s
    <3>1. Holds(q, t)
      BY <1>2, <1>8, <2>2 DEF Holds
    <3>2. pc[q] \in Holding /\ t = Slot(q)
      BY <3>1 DEF TasksOwnClaims
    <3>3. QED
      BY <1>2, <2>2, <3>2 DEF Slot, s
  <2>3. QED
    BY <2>1, <2>2
<1>9. TasksOwnClaims'
  BY <1>7, <1>8 DEF TasksOwnClaims
<1>10. EffectsRetained' /\ OneEffectPerRetention'
  BY <1>2 DEF EffectsRetained, OneEffectPerRetention
<1>11. QED
  BY <1>5, <1>6, <1>9, <1>10 DEF SafetyParts

(* The end of a transaction, seen by the tasks: its claim is free, and its *)
(* owner, if it still has one, leaves the holding steps.                   *)
LEMMA EndOfTransaction ==
    ASSUME IndInv, NEW s \in Keys, NEW x \in Steps \ (Holding \cup {"idle"}),
           claim[s].status = "committing"
              \/ (claim[s].status = "open" /\ claim[s].owner = Nobody),
           claim' = [claim EXCEPT ![s] = NoClaim],
           pc' = [p \in Procs |-> IF claim[s].owner = p THEN x ELSE pc[p]],
           UNCHANGED <<call, calls>>
    PROVE  CallsNumbered' /\ TasksOwnClaims'
<1> USE DEF IndInv, TypeOK
<1>1. CallsNumbered'
  BY DEF CallsNumbered, TasksOwnClaims, Holds, Holding
<1>2. ASSUME NEW q \in Procs PROVE pc'[q] \in Holding => OwnClaim(q)'
  <2> SUFFICES ASSUME pc'[q] \in Holding PROVE OwnClaim(q)'
    OBVIOUS
  <2>1. pc'[q] = pc[q] /\ claim[s].owner # q
    OBVIOUS
  <2>2. OwnClaim(q) /\ Slot(q) \in Keys
    BY <2>1 DEF TasksOwnClaims, Slot, Call
  <2>3. Slot(q) # s
    BY <2>1, <2>2 DEF OwnClaim
  <2>4. QED
    BY <2>1, <2>2, <2>3 DEF OwnClaim, Slot
<1>3. ASSUME NEW q \in Procs, NEW t \in Keys, Holds(q, t)'
      PROVE  pc'[q] \in Holding /\ t = Slot(q)'
  <2>1. t # s
    BY <1>3 DEF Holds, NoClaim
  <2>2. Holds(q, t)
    BY <1>3, <2>1 DEF Holds
  <2>3. pc[q] \in Holding /\ t = Slot(q)
    BY <2>2 DEF TasksOwnClaims
  <2>4. claim[s].owner # q
    BY <2>1, <2>3 DEF TasksOwnClaims, Holds
  <2>5. QED
    BY <2>3, <2>4 DEF Slot
<1>4. QED
  BY <1>1, <1>2, <1>3 DEF TasksOwnClaims

LEMMA DbCommitStep ==
    ASSUME IndInv, NEW s \in Keys, DbCommit(s)
    PROVE  SafetyParts'
<1> USE DEF IndInv, TypeOK, DbCommit
<1> DEFINE e == [key |-> claim[s].key, print |-> claim[s].print,
                 id |-> claim[s].id, gen |-> gen[s]]
<1>1. CallsNumbered' /\ TasksOwnClaims'
  BY EndOfTransaction DEF Steps, Holding
<1>2. ~row[s].present /\ StoredKey[claim[s].key] = s
  BY DEF ClaimsSound
<1>3. ClaimsSound'
  BY DEF ClaimsSound, NoClaim
<1>4. e.key = claim[s].key /\ e.gen = gen[s] /\ effects' = effects \cup {e}
  OBVIOUS
<1>5. \A old \in effects : old.key = e.key => old.gen # e.gen
  BY <1>2, <1>4 DEF EffectsRetained
<1> HIDE DEF e
<1>6. row'[s].present /\ \A t \in Keys : t # s => row'[t] = row[t]
  OBVIOUS
<1>7. EffectsRetained'
  <2>1. ASSUME NEW old \in effects
        PROVE  /\ old.gen <= gen[StoredKey[old.key]]
               /\ old.gen = gen[StoredKey[old.key]] => row'[StoredKey[old.key]].present
    <3>1. StoredKey[old.key] \in Keys
      BY DEF Effect
    <3>2. QED
      BY <1>6, <3>1 DEF EffectsRetained
  <2>2. e.gen <= gen[StoredKey[e.key]] /\ row'[StoredKey[e.key]].present
    BY <1>2, <1>4, <1>6
  <2>3. QED
    BY <1>4, <2>1, <2>2 DEF EffectsRetained
<1>8. OneEffectPerRetention'
  BY <1>4, <1>5 DEF OneEffectPerRetention
<1>9. QED
  BY <1>1, <1>3, <1>7, <1>8 DEF SafetyParts

LEMMA DbRollbackStep ==
    ASSUME IndInv, NEW s \in Keys, DbRollback(s)
    PROVE  SafetyParts'
<1> USE DEF IndInv, TypeOK, DbRollback
<1>1. CallsNumbered' /\ TasksOwnClaims'
  BY EndOfTransaction DEF Steps, Holding
<1>2. ClaimsSound'
  BY DEF ClaimsSound, NoClaim
<1>3. EffectsRetained' /\ OneEffectPerRetention'
  BY DEF EffectsRetained, OneEffectPerRetention
<1>4. QED
  BY <1>1, <1>2, <1>3 DEF SafetyParts

LEMMA AgeStep ==
    ASSUME IndInv, NEW s \in Keys, Age(s)
    PROVE  SafetyParts'
<1> USE DEF IndInv, TypeOK
<1>1. /\ UNCHANGED <<pc, call, effects, gen, calls>>
      /\ \A t \in Keys : /\ row'[t].present = row[t].present
                         /\ claim'[t].status = claim[t].status
                         /\ claim'[t].owner = claim[t].owner
                         /\ claim'[t].key = claim[t].key
                         /\ claim'[t].print = claim[t].print
                         /\ claim'[t].id = claim[t].id
                         /\ claim'[t].response = claim[t].response
  <2>1. CASE row' = [row EXCEPT ![s].old = TRUE] /\ UNCHANGED claim
    BY <2>1 DEF Age, Row
  <2>2. CASE claim' = [claim EXCEPT ![s].old = TRUE] /\ UNCHANGED row
    BY <2>2 DEF Age, Claim
  <2>3. QED
    BY <2>1, <2>2 DEF Age
<1>2. CallsNumbered'
  BY <1>1 DEF CallsNumbered
<1>3. ClaimsSound'
  BY <1>1 DEF ClaimsSound
<1>4. TasksOwnClaims'
  <2>1. \A q \in Procs : Slot(q) \in Keys /\ Slot(q)' = Slot(q)
    BY <1>1 DEF Slot, Call
  <2>2. ASSUME NEW q \in Procs, pc'[q] \in Holding PROVE OwnClaim(q)'
    BY <1>1, <2>1, <2>2 DEF TasksOwnClaims, OwnClaim
  <2>3. ASSUME NEW q \in Procs, NEW t \in Keys, Holds(q, t)'
        PROVE  pc'[q] \in Holding /\ t = Slot(q)'
    BY <1>1, <2>1, <2>3 DEF TasksOwnClaims, Holds
  <2>4. QED
    BY <2>2, <2>3 DEF TasksOwnClaims
<1>5. EffectsRetained'
  <2>1. \A e \in effects : StoredKey[e.key] \in Keys
    BY DEF Effect
  <2>2. QED
    BY <1>1, <2>1 DEF EffectsRetained
<1>6. OneEffectPerRetention'
  BY <1>1 DEF OneEffectPerRetention
<1>7. QED
  BY <1>2, <1>3, <1>4, <1>5, <1>6 DEF SafetyParts

LEMMA SweepStep ==
    ASSUME IndInv, Sweep
    PROVE  SafetyParts'
<1> USE DEF IndInv, TypeOK
<1>1. /\ UNCHANGED <<pc, call, claim, effects, calls>>
      /\ \A t \in Keys :
            \/ row'[t] = row[t] /\ gen'[t] = gen[t]
            \/ ~row'[t].present /\ gen'[t] = gen[t] + 1
  BY DEF Sweep, NoRow
<1>2. CallsNumbered'
  BY <1>1 DEF CallsNumbered
<1>3. ClaimsSound'
  BY <1>1 DEF ClaimsSound
<1>4. TasksOwnClaims'
  BY <1>1 DEF TasksOwnClaims, OwnClaim, Holds, Slot
<1>5. EffectsRetained'
  <2>1. \A e \in effects : /\ StoredKey[e.key] \in Keys
                           /\ e.gen \in Nat /\ gen[StoredKey[e.key]] \in Nat
    BY DEF Effect
  <2>2. QED
    BY <1>1, <2>1 DEF EffectsRetained
<1>6. OneEffectPerRetention'
  BY <1>1 DEF OneEffectPerRetention
<1>7. QED
  BY <1>2, <1>3, <1>4, <1>5, <1>6 DEF SafetyParts

LEMMA IndStep == IndInv /\ [Next]_vars => IndInv'
<1> SUFFICES ASSUME IndInv, [Next]_vars PROVE SafetyParts'
  BY TypeStep DEF IndInv, SafetyParts
<1>1. ASSUME NEW p \in Procs,
             \/ Checkout(p) \/ MaybeSweep(p) \/ CommitAcked(p) \/ CommitUnknown(p)
      PROVE  SafetyParts'
  BY <1>1, MoveStep DEF Checkout, MaybeSweep, CommitAcked, CommitUnknown,
     Succeed, Return, Holding, Steps
<1>2. ASSUME NEW p \in Procs,
             \/ SelectReplay(p) \/ SelectReject(p) \/ NotFound(p) \/ Fail(p)
             \/ Cancel(p)
      PROVE  SafetyParts'
  BY <1>2, LeaveStep DEF SelectReplay, SelectReject, NotFound, Fail, Cancel,
     Succeed, Return
<1>3. ASSUME NEW p \in Procs, Deadlock(p) PROVE SafetyParts'
  <2>1. \A q \in Procs : /\ call'[q].key = call[q].key
                         /\ call'[q].print = call[q].print
                         /\ call'[q].id = call[q].id
    BY <1>3 DEF Deadlock, Retry, IndInv, TypeOK, Call
  <2>2. \E x \in {"idle", "checkout"} : pc' = [pc EXCEPT ![p] = x]
    BY <1>3 DEF Deadlock, Retry, Return
  <2>3. QED
    BY <1>3, <2>1, <2>2, LeaveStep DEF Deadlock
<1>4. ASSUME SweepFallsDue \/ SweepFails \/ UNCHANGED vars
      PROVE  SafetyParts'
  BY <1>4 DEF SweepFallsDue, SweepFails, vars, IndInv, SafetyParts,
     CallsNumbered, ClaimsSound, TasksOwnClaims, OwnClaim, Holds, Slot,
     EffectsRetained, OneEffectPerRetention
<1>5. QED
  BY NextCases, BeginStep, InsertStep, AdvanceStep, DbCommitStep, DbRollbackStep,
     AgeStep, SweepStep, <1>1, <1>2, <1>3, <1>4

LEMMA Invariance == Spec => []IndInv
BY InitInd, IndStep, PTL DEF Spec

(* While DbStore retains a key, at most one request's writes commit under  *)
(* it, for any number of tasks and any pattern of retries, lost commit     *)
(* acknowledgements, cancellations and sweeps, and whatever the key column *)
(* does to keys.                                                           *)
THEOREM DeduplicatesWhileRetained == Spec => []OneEffectPerRetention
<1>1. IndInv => OneEffectPerRetention
  BY DEF IndInv
<1>2. QED
  BY <1>1, Invariance, PTL

-----------------------------------------------------------------------------
(* What follows needs a key column that stores every key as it is: TEXT on *)
(* Postgres and SQLite, or keys of at most 255 characters on MariaDB.      *)

KeysStoredWhole == \A k \in Keys : StoredKey[k] = k

LEMMA RowStep ==
    ASSUME KeysStoredWhole, IndInv, CommittedRowHasResponse, [Next]_vars
    PROVE  CommittedRowHasResponse'
<1> USE DEF IndInv, TypeOK
<1>1. ASSUME NEW s \in Keys, DbCommit(s) PROVE CommittedRowHasResponse'
  <2> DEFINE new == [key |-> claim[s].key, print |-> claim[s].print,
                     id |-> claim[s].id, gen |-> gen[s]]
  <2>1. /\ effects' = effects \cup {new} /\ UNCHANGED gen
        /\ \A t \in Keys : t # s => row'[t] = row[t]
        /\ row'[s].print = claim[s].print /\ row'[s].response = claim[s].response
    BY <1>1 DEF DbCommit
  <2>2. claim[s].key \in Keys /\ claim[s].status = "committing"
    BY <1>1 DEF DbCommit, Claim
  <2>3. claim[s].key = s /\ claim[s].response = claim[s].id
    BY <2>2 DEF ClaimsSound, KeysStoredWhole
  <2>4. /\ StoredKey[new.key] = s /\ new.gen = gen[s]
        /\ new.print = row'[s].print /\ new.id = row'[s].response
    BY <2>1, <2>3 DEF KeysStoredWhole
  <2> HIDE DEF new
  <2>5. QED
    BY <2>1, <2>4 DEF CommittedRowHasResponse
<1>2. ASSUME NEW s \in Keys, Age(s) PROVE CommittedRowHasResponse'
  <2>1. /\ UNCHANGED <<effects, gen>>
        /\ \A t \in Keys : /\ row'[t].present = row[t].present
                           /\ row'[t].print = row[t].print
                           /\ row'[t].response = row[t].response
    <3>1. CASE row' = [row EXCEPT ![s].old = TRUE]
      BY <1>2, <3>1 DEF Age, Row
    <3>2. CASE UNCHANGED row
      BY <1>2, <3>2 DEF Age
    <3>3. QED
      BY <1>2, <3>1, <3>2 DEF Age
  <2>2. QED
    BY <2>1 DEF CommittedRowHasResponse
<1>3. ASSUME Sweep PROVE CommittedRowHasResponse'
  <2>1. /\ UNCHANGED effects
        /\ \A t \in Keys : \/ row'[t] = row[t] /\ gen'[t] = gen[t]
                           \/ ~row'[t].present
    BY <1>3 DEF Sweep, NoRow
  <2>2. QED
    BY <2>1 DEF CommittedRowHasResponse
<1>4. ASSUME UNCHANGED <<row, effects, gen>> PROVE CommittedRowHasResponse'
  BY <1>4 DEF CommittedRowHasResponse
<1>5. QED
  BY NextCases, <1>1, <1>2, <1>3, <1>4 DEF Begin, Checkout, MaybeSweep, Insert,
     SelectReplay, SelectReject, RunWrites, NotFound, Record, SendCommit,
     CommitAcked, CommitUnknown, Deadlock, Fail, Cancel, DbRollback,
     SweepFallsDue, SweepFails, vars

LEMMA RowInvariance ==
    ASSUME KeysStoredWhole
    PROVE  Spec => [](IndInv /\ CommittedRowHasResponse)
<1>1. Init => CommittedRowHasResponse
  BY DEF Init, CommittedRowHasResponse, NoRow
<1>2. IndInv /\ CommittedRowHasResponse /\ [Next]_vars => CommittedRowHasResponse'
  BY RowStep
<1>3. QED
  BY <1>1, <1>2, InitInd, IndStep, PTL DEF Spec

(* A committed key row always carries the response of the request whose    *)
(* writes committed with it, so a claim that conflicts with a visible row  *)
(* can always replay it: the claim DbStore::claim's comment makes.         *)
THEOREM VisibleRowReplays ==
    ASSUME KeysStoredWhole
    PROVE  Spec => []CommittedRowHasResponse
<1>1. (IndInv /\ CommittedRowHasResponse) => CommittedRowHasResponse
  OBVIOUS
<1>2. QED
  BY <1>1, RowInvariance, PTL

(* The key row, its response and the writes of a mutation become visible   *)
(* in one step, and only the sweep removes a key row.                      *)
THEOREM CommitIsAtomic == Spec => KeyAndEffectsCommitTogether
<1> DEFINE Together ==
       /\ \A e \in effects' \ effects :
             ~row[StoredKey[e.key]].present /\ row'[StoredKey[e.key]].present
       /\ \A s \in Keys : row[s].present /\ ~row'[s].present => gen'[s] = gen[s] + 1
<1>1. IndInv /\ [Next]_vars => [Together]_<<effects, row>>
  <2> SUFFICES ASSUME IndInv, [Next]_vars PROVE [Together]_<<effects, row>>
    OBVIOUS
  <2> USE DEF IndInv, TypeOK
  <2>1. ASSUME NEW s \in Keys, DbCommit(s) PROVE Together
    <3>1. claim[s].status = "committing"
      BY <2>1 DEF DbCommit
    <3>2. ~row[s].present /\ StoredKey[claim[s].key] = s
      BY <3>1 DEF ClaimsSound
    <3>3. row'[s].present /\ \A t \in Keys : t # s => row'[t] = row[t]
      BY <2>1 DEF DbCommit
    <3>4. \A e \in effects' \ effects : e.key = claim[s].key
      BY <2>1 DEF DbCommit
    <3>5. QED
      BY <3>2, <3>3, <3>4
  <2>2. ASSUME NEW s \in Keys, Age(s) PROVE Together
    <3>1. UNCHANGED effects /\ \A t \in Keys : row'[t].present = row[t].present
      <4>1. CASE row' = [row EXCEPT ![s].old = TRUE]
        BY <2>2, <4>1 DEF Age, Row
      <4>2. CASE UNCHANGED row
        BY <2>2, <4>2 DEF Age
      <4>3. QED
        BY <2>2, <4>1, <4>2 DEF Age
    <3>2. QED
      BY <3>1
  <2>3. ASSUME Sweep PROVE Together
    BY <2>3 DEF Sweep
  <2>4. ASSUME UNCHANGED <<row, effects>> PROVE [Together]_<<effects, row>>
    BY <2>4
  <2> HIDE DEF Together
  <2>5. QED
    BY NextCases, <2>1, <2>2, <2>3, <2>4 DEF Begin, Checkout, MaybeSweep, Insert,
       SelectReplay, SelectReject, RunWrites, NotFound, Record, SendCommit,
       CommitAcked, CommitUnknown, Deadlock, Fail, Cancel, DbRollback,
       SweepFallsDue, SweepFails, vars
<1>2. QED
  BY <1>1, Invariance, PTL DEF Spec, KeyAndEffectsCommitTogether

-----------------------------------------------------------------------------
(* Refinement of AtMostOnce.                                               *)

Applied == {[key |-> e.key, print |-> e.print, id |-> e.id] : e \in effects}

Retained == {k \in Keys : row[StoredKey[k]].present}

(* A task whose COMMIT took effect reports a request that is applied.      *)
AcksApplied == \A p \in Procs : pc[p] = "committed" => Request(p) \in Applied

LEMMA AppliedGrows ==
    ASSUME TypeOK, [Next]_vars PROVE effects \subseteq effects'
BY NextCases DEF Begin, Checkout, MaybeSweep, Insert,
   SelectReplay, SelectReject, RunWrites, NotFound, Record, SendCommit,
   CommitAcked, CommitUnknown, Deadlock, Fail, Cancel, DbCommit, DbRollback, Age,
   SweepFallsDue, Sweep, SweepFails, vars

LEMMA AckStep == IndInv /\ AcksApplied /\ [Next]_vars => AcksApplied'
<1> SUFFICES ASSUME IndInv, AcksApplied, [Next]_vars,
                    NEW q \in Procs, pc'[q] = "committed"
             PROVE  Request(q)' \in Applied'
  BY DEF AcksApplied
<1> USE DEF IndInv, TypeOK
<1>1. ASSUME NEW s \in Keys, DbCommit(s), claim[s].owner = q
      PROVE  Request(q)' \in Applied'
  <2>1. Holds(q, s) /\ UNCHANGED call
    BY <1>1 DEF DbCommit, Holds
  <2>2. s = Slot(q) /\ OwnClaim(q)
    BY <2>1 DEF TasksOwnClaims
  <2>3. [key |-> claim[s].key, print |-> claim[s].print, id |-> claim[s].id,
         gen |-> gen[s]] \in effects'
    BY <1>1 DEF DbCommit
  <2>4. Request(q)' = [key |-> claim[s].key, print |-> claim[s].print,
                       id |-> claim[s].id]
    BY <2>1, <2>2 DEF OwnClaim, Request
  <2>5. QED
    BY <2>3, <2>4 DEF Applied
<1>2. ASSUME pc[q] = "committed", call'[q] = call[q] PROVE Request(q)' \in Applied'
  BY <1>2, AppliedGrows DEF AcksApplied, Request, Applied
<1>3. \/ \E s \in Keys : DbCommit(s) /\ claim[s].owner = q
      \/ pc[q] = "committed" /\ call'[q] = call[q]
  BY NextCases DEF Begin, Checkout, MaybeSweep, Insert,
     SelectReplay, SelectReject, RunWrites, NotFound, Record, SendCommit,
     CommitAcked, CommitUnknown, Deadlock, Fail, Cancel, DbCommit, DbRollback, Age,
     SweepFallsDue, Sweep, SweepFails, vars, Succeed, Return, Retry
<1>4. QED
  BY <1>1, <1>2, <1>3

(* Every step of KeyedMutation is a step of AtMostOnce or stutters there.  *)
LEMMA AbstractStep ==
    ASSUME KeysStoredWhole, IndInv, CommittedRowHasResponse, AcksApplied, [Next]_vars
    PROVE  [Abstract!Next]_<<Retained, Applied, answers>>
<1> USE DEF IndInv, TypeOK
<1> DEFINE Stutter == UNCHANGED <<Retained, Applied, answers>>
<1>1. ASSUME NEW s \in Keys, DbCommit(s) PROVE Abstract!Next
  <2>1. claim[s].key = s /\ claim[s].print \in Prints /\ claim[s].id \in 1..MaxCalls
    BY <1>1 DEF DbCommit, ClaimsSound, KeysStoredWhole, Claim
  <2>2. s \notin Retained /\ Retained' = Retained \cup {s}
    BY <1>1 DEF DbCommit, ClaimsSound, KeysStoredWhole, Retained
  <2>3. Applied' = Applied \cup {[key |-> s, print |-> claim[s].print,
                                  id |-> claim[s].id]}
    <3> DEFINE new == [key |-> claim[s].key, print |-> claim[s].print,
                       id |-> claim[s].id, gen |-> gen[s]]
    <3>1. effects' = effects \cup {new}
      BY <1>1 DEF DbCommit
    <3>2. new.key = s /\ new.print = claim[s].print /\ new.id = claim[s].id
      BY <2>1
    <3> HIDE DEF new
    <3>3. QED
      BY <3>1, <3>2, Zenon DEF Applied
  <2>4. PICK f \in Prints, id \in 1..MaxCalls :
            f = claim[s].print /\ id = claim[s].id
    BY <2>1
  <2>5. Abstract!Apply(s, f, id)
    BY <1>1, <2>2, <2>3, <2>4 DEF DbCommit, Abstract!Apply, Retained, Applied
  <2>6. QED
    BY <2>5 DEF Abstract!Next
<1>2. ASSUME NEW p \in Procs, CommitAcked(p) PROVE Abstract!Next
  <2>1. Request(p) \in Applied /\ answers' = answers \cup {Request(p)}
    BY <1>2 DEF CommitAcked, Succeed, Request, AcksApplied
  <2>2. UNCHANGED <<Retained, Applied>>
    BY <1>2 DEF CommitAcked, Retained, Applied
  <2>3. Abstract!Answer(Request(p))
    BY <2>1, <2>2 DEF Abstract!Answer, Retained, Applied
  <2>4. QED
    BY <2>1, <2>3 DEF Abstract!Next, Applied
<1>3. ASSUME NEW p \in Procs, SelectReplay(p) PROVE Abstract!Next
  <2> DEFINE k == call[p].key
             a == [Request(p) EXCEPT !.id = row[k].response]
  <2>1. k \in Keys /\ StoredKey[k] = k /\ SelectRow(p) = row[k]
    BY DEF KeysStoredWhole, Call, SelectRow
  <2>2. row[k].present /\ row[k].print = call[p].print
    BY <1>3, <2>1 DEF SelectReplay
  <2>3. PICK e \in effects : /\ StoredKey[e.key] = k /\ e.print = row[k].print
                             /\ e.id = row[k].response
    BY <2>1, <2>2 DEF CommittedRowHasResponse
  <2>4. e.key = k
    BY <2>3 DEF KeysStoredWhole, Effect
  <2>5. a = [key |-> e.key, print |-> e.print, id |-> e.id]
    BY <2>2, <2>3, <2>4 DEF Request
  <2>6. a \in Applied
    BY <2>5 DEF Applied
  <2>7. answers' = answers \cup {a}
    BY <1>3, <2>1 DEF SelectReplay, Succeed
  <2>8. UNCHANGED <<Retained, Applied>>
    BY <1>3 DEF SelectReplay, Retained, Applied
  <2> HIDE DEF a
  <2>9. Abstract!Answer(a)
    BY <2>6, <2>7, <2>8 DEF Abstract!Answer, Retained, Applied
  <2>10. QED
    BY <2>6, <2>9 DEF Abstract!Next, Applied
<1>4. ASSUME Sweep PROVE Abstract!Next
  <2> DEFINE S == {k \in Keys : row[k].present /\ row[k].old}
  <2>1. S \subseteq Retained /\ Retained' = Retained \ S
    BY <1>4 DEF Sweep, Retained, KeysStoredWhole, NoRow
  <2>2. UNCHANGED <<Applied, answers>>
    BY <1>4 DEF Sweep, Applied
  <2>3. PICK T \in SUBSET Retained : T = S
    BY <2>1
  <2>4. Abstract!Forget(T)
    BY <2>1, <2>2, <2>3 DEF Abstract!Forget, Retained, Applied
  <2>5. QED
    BY <2>4 DEF Abstract!Next, Retained
<1>5. ASSUME NEW s \in Keys, Age(s) PROVE Stutter
  <2>1. /\ UNCHANGED <<effects, answers>>
        /\ \A t \in Keys : row'[t].present = row[t].present
    <3>1. CASE row' = [row EXCEPT ![s].old = TRUE]
      BY <1>5, <3>1 DEF Age, Row
    <3>2. CASE UNCHANGED row
      BY <1>5, <3>2 DEF Age
    <3>3. QED
      BY <1>5, <3>1, <3>2 DEF Age
  <2>2. QED
    BY <2>1 DEF Retained, Applied
<1>6. ASSUME UNCHANGED <<row, effects, answers>> PROVE Stutter
  BY <1>6 DEF Retained, Applied
<1> HIDE DEF Stutter
<1>7. Abstract!Next \/ Stutter
  BY NextCases, <1>1, <1>2, <1>3, <1>4, <1>5, <1>6 DEF Begin, Checkout,
     MaybeSweep, Insert, SelectReject, RunWrites, NotFound, Record, SendCommit,
     CommitUnknown, Deadlock, Fail, Cancel, DbRollback, SweepFallsDue,
     SweepFails, vars
<1>8. QED
  BY <1>7 DEF Stutter

(* DbStore keeps the promise of AtMostOnce to the callers of a mutation:   *)
(* one applied request per retained key, and no success that is not the    *)
(* response of an applied request with the caller's own key and payload.   *)
THEOREM DbStoreDeduplicates ==
    ASSUME KeysStoredWhole
    PROVE  Spec => ImplementsAtMostOnce
<1>1. Init => Abstract!Init
  BY DEF Init, Abstract!Init, NoRow
<1>2. Init => AcksApplied
  BY DEF Init, AcksApplied
<1>3. IndInv /\ CommittedRowHasResponse /\ AcksApplied /\ [Next]_vars
         => [Abstract!Next]_(Abstract!vars)
  BY AbstractStep DEF Abstract!vars, Retained, Applied
<1>4. QED
  BY <1>1, <1>2, <1>3, RowInvariance, AckStep, PTL
     DEF Spec, ImplementsAtMostOnce, Abstract!Spec

-----------------------------------------------------------------------------
(* Waiting. A task waits for a connection, or for the end of another       *)
(* transaction that holds an uncommitted row of its stored key; in every   *)
(* other step it is its own turn, or the server's that has its COMMIT.     *)
GoesOn(p) ==
    \/ pc[p] \in {"claim", "select", "write", "record", "commit", "committed", "aborted"}
    \/ pc[p] = "checkout" /\ InUse < PoolSize
    \/ pc[p] = "insert" /\ claim[Slot(p)].status = "free"

(* The server has a transaction to end: one sent to commit, or one whose   *)
(* task has dropped it.                                                    *)
ServerGoesOn ==
    \E s \in Keys : \/ claim[s].status = "committing"
                    \/ claim[s].status = "open" /\ claim[s].owner = Nobody

(* A task at its INSERT is held up by a transaction that goes on.          *)
LEMMA InsertWaitsForTheLiving ==
    ASSUME IndInv, NEW p \in Procs, pc[p] = "insert"
    PROVE  ServerGoesOn \/ \E q \in Procs : GoesOn(q)
<1>1. PICK s \in Keys : s = Slot(p)
  BY DEF IndInv, TypeOK, Call, Slot
<1>2. claim[s].status \in {"free", "open", "committing"} /\ claim[s].owner \in Procs \cup {Nobody}
  BY DEF IndInv, TypeOK, Claim
<1>3. CASE claim[s].status = "free"
  BY <1>1, <1>3 DEF GoesOn
<1>4. CASE claim[s].status = "committing" \/ claim[s].owner = Nobody
  BY <1>2, <1>3, <1>4 DEF ServerGoesOn
<1>5. CASE claim[s].status = "open" /\ claim[s].owner \in Procs
  <2>1. PICK q \in Procs : q = claim[s].owner
    BY <1>5
  <2>2. pc[q] \in Holding /\ s = Slot(q)
    BY <1>5, <2>1 DEF IndInv, TasksOwnClaims, Holds
  <2>3. pc[q] # "committing"
    BY <1>5, <2>2 DEF IndInv, TasksOwnClaims, OwnClaim
  <2>4. GoesOn(q)
    BY <2>2, <2>3 DEF GoesOn, Holding
  <2>5. QED
    BY <2>4
<1>6. QED
  BY <1>2, <1>3, <1>4, <1>5

(* A pool with no connection left has one whose user goes on.              *)
LEMMA CheckoutWaitsForTheLiving ==
    ASSUME IndInv, NEW p \in Procs, pc[p] = "checkout"
    PROVE  ServerGoesOn \/ \E q \in Procs : GoesOn(q)
<1>1. CASE \E q \in Procs : pc[q] \notin {"idle", "checkout"}
  <2>1. PICK q \in Procs : pc[q] \notin {"idle", "checkout"}
    BY <1>1
  <2>2. CASE pc[q] = "insert"
    BY <2>2, InsertWaitsForTheLiving
  <2>3. CASE pc[q] = "committing"
    <3>1. claim[Slot(q)].status = "committing" /\ Slot(q) \in Keys
      BY <2>3 DEF IndInv, TasksOwnClaims, OwnClaim, Holding, TypeOK, Call, Slot
    <3>2. QED
      BY <3>1 DEF ServerGoesOn
  <2>4. CASE pc[q] \notin {"insert", "committing"}
    BY <2>1, <2>4 DEF GoesOn, IndInv, TypeOK, Steps
  <2>5. QED
    BY <2>2, <2>3, <2>4
<1>2. CASE \E s \in Keys : claim[s].status # "free" /\ claim[s].owner = Nobody
  BY <1>2 DEF ServerGoesOn, IndInv, TypeOK, Claim
<1>3. CASE /\ ~ \E q \in Procs : pc[q] \notin {"idle", "checkout"}
           /\ ~ \E s \in Keys : claim[s].status # "free" /\ claim[s].owner = Nobody
  <2>1. {q \in Procs : pc[q] \notin {"idle", "checkout"}} = {}
    BY <1>3
  <2>2. {s \in Keys : claim[s].status # "free" /\ claim[s].owner = Nobody} = {}
    BY <1>3
  <2>3. Cardinality({}) = 0
    BY FS_EmptySet
  <2>4. InUse = 0
    <3> DEFINE Users == {q \in Procs : pc[q] \notin {"idle", "checkout"}}
               Dropped == {s \in Keys : claim[s].status # "free" /\ claim[s].owner = Nobody}
    <3>1. InUse = Cardinality(Users) + Cardinality(Dropped)
      BY DEF InUse
    <3>2. Users = {} /\ Dropped = {}
      BY <2>1, <2>2
    <3> HIDE DEF Users, Dropped
    <3>3. Cardinality(Users) = 0 /\ Cardinality(Dropped) = 0
      BY <3>2, <2>3
    <3>4. QED
      BY <3>1, <3>3
  <2>5. GoesOn(p)
    BY <2>4 DEF GoesOn
  <2>6. QED
    BY <2>5
<1>4. QED
  BY <1>1, <1>2, <1>3

(* While a request task is alive, some task has a step to take or the      *)
(* server a transaction to end: tasks that fill the pool waiting for each  *)
(* other's key rows (DbStore::claim inserts inside the request's own       *)
(* transaction) never wait in a circle, and never for a task that is gone. *)
THEOREM NobodyWaitsInACircle ==
    Spec => []((\E p \in Procs : pc[p] # "idle") => ServerGoesOn \/ \E q \in Procs : GoesOn(q))
<1>1. ASSUME IndInv, NEW p \in Procs, pc[p] # "idle"
      PROVE  ServerGoesOn \/ \E q \in Procs : GoesOn(q)
  <2>1. CASE pc[p] = "checkout"
    BY <2>1, <1>1, CheckoutWaitsForTheLiving
  <2>2. CASE pc[p] = "insert"
    BY <2>2, <1>1, InsertWaitsForTheLiving
  <2>3. CASE pc[p] = "committing"
    <3>1. claim[Slot(p)].status = "committing" /\ Slot(p) \in Keys
      BY <1>1, <2>3 DEF IndInv, TasksOwnClaims, OwnClaim, Holding, TypeOK, Call, Slot
    <3>2. QED
      BY <3>1 DEF ServerGoesOn
  <2>4. CASE pc[p] \notin {"checkout", "insert", "committing"}
    BY <2>4, <1>1 DEF GoesOn, IndInv, TypeOK, Steps
  <2>5. QED
    BY <2>1, <2>2, <2>3, <2>4
<1>2. IndInv => ((\E p \in Procs : pc[p] # "idle") => ServerGoesOn \/ \E q \in Procs : GoesOn(q))
  BY <1>1
<1>3. QED
  BY <1>2, Invariance, PTL
================================================================================
