------------------------- MODULE SqlitePool_proofs -------------------------
(***************************************************************************)
(* Proofs about SqlitePool, for any number of tasks, connections and       *)
(* calls: the accounting of permits, idle workers and checkouts, and what  *)
(* the jobs of one call leave to the next one on the same connection.      *)
(***************************************************************************)
EXTENDS SqlitePool, FiniteSetTheorems, SequenceTheorems, TLAPS

(* The invariant the theorem rests on. Worker numbers are call numbers: a  *)
(* task that still acquires will name its worker for its own call, so that *)
(* number must not be in use, and no two tasks have the same call.         *)

PoolTypes ==
    /\ permits \in Nat
    /\ idle \in Seq(Workers)
    /\ task \in [Tasks -> Task]
    /\ calls \in 0..MaxCalls

Numbered ==
    /\ \A t \in Tasks : task[t].pc # "idle" => task[t].by \in 1..calls
    /\ \A t, u \in Tasks :
        (task[t].pc # "idle" /\ task[u].pc # "idle" /\ task[t].by = task[u].by) => t = u
    /\ \A t \in Holders : task[t].w \in 1..calls
    /\ \A i \in 1..Len(idle) : idle[i] <= calls

FreshNames ==
    \A t \in Tasks : task[t].pc = "acquire" =>
        /\ \A i \in 1..Len(idle) : idle[i] # task[t].by
        /\ \A u \in Holders : task[u].w # task[t].by

PoolInv == PoolTypes /\ Numbered /\ FreshNames /\ ConnectionsBounded

-----------------------------------------------------------------------------
USE ConstantsAssumption

(* Finitely many tasks have finitely many checkouts.                       *)
LEMMA HoldersFinite == IsFiniteSet(Holders) /\ Cardinality(Holders) \in Nat
<1>1. Holders \in SUBSET Tasks
  BY DEF Holders
<1>2. QED
  BY <1>1, FS_Subset, FS_CardinalityType, Zenon

(* The state of a task in the pool's eyes: what a step must leave alone to *)
(* leave the accounting alone.                                             *)
SameCheckout(t) ==
    /\ task'[t].pc \in {"spawn", "wait"} <=> task[t].pc \in {"spawn", "wait"}
    /\ task'[t].pc = "acquire" => task[t].pc = "acquire"
    /\ task'[t].pc # "idle" => task'[t].by = task[t].by
    /\ task[t].pc \in {"spawn", "wait"} => task'[t].w = task[t].w

(* A step that neither acquires nor releases keeps the invariant.          *)
LEMMA SameHolders ==
    ASSUME PoolInv, UNCHANGED <<permits, idle, calls>>, task' \in [Tasks -> Task],
           \A t \in Tasks : SameCheckout(t)
    PROVE  PoolInv'
<1>1. Holders' = Holders
  BY DEF Holders, SameCheckout
<1>2. \A t \in Holders : task'[t].w = task[t].w
  BY DEF Holders, SameCheckout
<1>3. PoolTypes'
  BY DEF PoolInv, PoolTypes
<1>4. \A t \in Tasks : task'[t].pc # "idle" =>
        task[t].pc # "idle" /\ task'[t].by = task[t].by
  <2> TAKE t \in Tasks
  <2>1. SameCheckout(t)
    OBVIOUS
  <2>2. task'[t].pc \in {"idle", "acquire", "spawn", "wait"}
    BY DEF Task
  <2>3. QED
    BY <2>1, <2>2 DEF SameCheckout
<1>5. Numbered'
  BY <1>1, <1>2, <1>4 DEF PoolInv, Numbered
<1>6. FreshNames'
  BY <1>1, <1>2, <1>4 DEF PoolInv, FreshNames, SameCheckout
<1>7. ConnectionsBounded'
  BY <1>1, <1>2 DEF PoolInv, ConnectionsBounded
<1>8. QED
  BY <1>3, <1>5, <1>6, <1>7 DEF PoolInv

(* Initially every permit is free and nobody holds a connection.           *)
LEMMA PoolInit == Init => PoolInv
<1> SUFFICES ASSUME Init PROVE PoolInv
  OBVIOUS
<1>1. Holders = {}
  BY DEF Init, Holders, Idle
<1>2. Cardinality(Holders) = 0
  BY <1>1, FS_EmptySet
<1>3. Idle \in Task
  BY DEF Idle, Task, Ops
<1>4. PoolTypes
  BY <1>3 DEF Init, PoolTypes
<1>5. Numbered /\ FreshNames
  BY <1>1 DEF Init, Numbered, FreshNames, Idle
<1>6. ConnectionsBounded
  BY <1>1, <1>2 DEF Init, ConnectionsBounded
<1>7. QED
  BY <1>4, <1>5, <1>6 DEF PoolInv

(* A task with a permit takes a worker no other task and no place of the   *)
(* stack has: the last idle one or a new one of its own name.              *)
LEMMA Acquires ==
    ASSUME PoolInv, NEW t \in Tasks, task[t].pc = "acquire", permits > 0,
           permits' = permits - 1, calls' = calls, idle' \in Seq(Workers),
           Len(idle') <= Len(idle), Len(idle') + Cardinality(Holders) < Max,
           \A i \in 1..Len(idle') : idle'[i] = idle[i],
           task' \in [Tasks -> Task],
           task'[t].pc \in {"spawn", "wait"}, task'[t].by = task[t].by,
           \A u \in Tasks \ {t} : task'[u] = task[u],
           task'[t].w \in 1..calls,
           \A i \in 1..Len(idle') : idle'[i] # task'[t].w,
           \A u \in Holders : task[u].w # task'[t].w,
           \A u \in Tasks \ {t} : task[u].pc = "acquire" => task[u].by # task'[t].w
    PROVE  PoolInv'
<1>1. t \notin Holders /\ Holders' = Holders \cup {t}
  BY DEF Holders
<1>2. Cardinality(Holders') = Cardinality(Holders) + 1
  BY <1>1, HoldersFinite, FS_AddElement
<1>3. PoolTypes'
  BY DEF PoolInv, PoolTypes
<1>4. Len(idle) \in Nat /\ Len(idle') \in Nat
  BY DEF PoolInv, PoolTypes
<1>5. \A u \in Tasks : task'[u].pc # "idle" =>
        task[u].pc # "idle" /\ task'[u].by = task[u].by
  OBVIOUS
<1>6. Numbered'
  <2>1. \A u \in Holders' : task'[u].w \in 1..calls
    BY <1>1 DEF PoolInv, Numbered, Holders
  <2>2. QED
    BY <1>4, <1>5, <2>1 DEF PoolInv, Numbered
<1>7. FreshNames'
  <2> SUFFICES ASSUME NEW u \in Tasks, task'[u].pc = "acquire"
               PROVE  /\ \A i \in 1..Len(idle') : idle'[i] # task'[u].by
                      /\ \A v \in Holders' : task'[v].w # task'[u].by
    BY DEF FreshNames
  <2>1. u # t /\ task'[u] = task[u] /\ task[u].pc = "acquire"
    OBVIOUS
  <2>2. \A v \in Holders : v # t /\ task'[v] = task[v]
    BY <1>1 DEF Holders
  <2>3. QED
    BY <1>1, <1>4, <2>1, <2>2 DEF PoolInv, FreshNames
<1>8. ConnectionsBounded'
  <2>1. \A v \in Holders : v # t /\ task'[v] = task[v]
    BY <1>1 DEF Holders
  <2>2. permits' + Cardinality(Holders') = Max
    BY <1>2, HoldersFinite DEF PoolInv, PoolTypes, ConnectionsBounded
  <2>3. Len(idle') + Cardinality(Holders') <= Max
    BY <1>2, <1>4, HoldersFinite
  <2>4. \A i, j \in 1..Len(idle') : idle'[i] = idle'[j] => i = j
    BY <1>4 DEF PoolInv, ConnectionsBounded
  <2>5. \A i \in 1..Len(idle'), u \in Holders' : task'[u].w # idle'[i]
    BY <1>1, <1>4, <2>1 DEF PoolInv, ConnectionsBounded
  <2>6. \A u, v \in Holders' : task'[u].w = task'[v].w => u = v
    BY <1>1, <2>1 DEF PoolInv, ConnectionsBounded
  <2>7. QED
    BY <2>2, <2>3, <2>4, <2>5, <2>6 DEF ConnectionsBounded
<1>9. QED
  BY <1>3, <1>6, <1>7, <1>8 DEF PoolInv

(* A task gives its permit up and its worker to the stack or to nobody.    *)
LEMMA Releases ==
    ASSUME PoolInv, NEW t \in Holders,
           permits' = permits + 1, calls' = calls,
           idle' = idle \/ idle' = Append(idle, task[t].w),
           task' = [task EXCEPT ![t] = Idle]
    PROVE  PoolInv'
<1>1. t \in Tasks /\ task[t].w \in Workers
  BY DEF PoolInv, PoolTypes, Numbered, Holders, Workers
<1>2. Idle \in Task /\ Idle.pc = "idle"
  BY DEF Idle, Task, Ops
<1>3. task' \in [Tasks -> Task] /\ task'[t].pc = "idle"
      /\ \A u \in Tasks \ {t} : task'[u] = task[u]
  BY <1>1, <1>2 DEF PoolInv, PoolTypes
<1>4. Holders' = Holders \ {t} /\ \A u \in Holders' : task'[u] = task[u] /\ u # t
  BY <1>3 DEF Holders
<1>5. Cardinality(Holders') = Cardinality(Holders) - 1
  BY <1>4, HoldersFinite, FS_RemoveElement
<1>6. /\ idle' \in Seq(Workers) /\ Len(idle) \in Nat
      /\ Len(idle') \in {Len(idle), Len(idle) + 1}
      /\ \A i \in 1..Len(idle) : idle'[i] = idle[i]
      /\ \A i \in 1..Len(idle') : i \notin 1..Len(idle) =>
            i = Len(idle) + 1 /\ idle'[i] = task[t].w
  <2>1. idle \in Seq(Workers) /\ Len(idle) \in Nat
    BY DEF PoolInv, PoolTypes
  <2>2. CASE idle' = idle
    BY <2>1, <2>2
  <2>3. CASE idle' = Append(idle, task[t].w)
    BY <1>1, <2>1, <2>3, AppendProperties
  <2>4. QED
    BY <2>2, <2>3
<1>7. PoolTypes'
  BY <1>3, <1>6 DEF PoolInv, PoolTypes
<1>8. Numbered'
  <2>1. \A i \in 1..Len(idle') : idle'[i] <= calls
    BY <1>6 DEF PoolInv, PoolTypes, Numbered
  <2>2. QED
    BY <1>3, <1>4, <2>1 DEF PoolInv, Numbered
<1>9. FreshNames'
  BY <1>3, <1>4, <1>6 DEF PoolInv, FreshNames
<1>10. ConnectionsBounded'
  <2>1. permits' + Cardinality(Holders') = Max
    BY <1>5, HoldersFinite DEF PoolInv, PoolTypes, ConnectionsBounded
  <2>2. Len(idle') + Cardinality(Holders') <= Max
    BY <1>5, <1>6, HoldersFinite DEF PoolInv, ConnectionsBounded
  <2>3. \A i, j \in 1..Len(idle') : idle'[i] = idle'[j] => i = j
    <3>1. \A i, j \in 1..Len(idle) : idle[i] = idle[j] => i = j
      BY DEF PoolInv, ConnectionsBounded
    <3>2. \A i \in 1..Len(idle) : idle[i] # task[t].w
      BY DEF PoolInv, ConnectionsBounded
    <3>3. SUFFICES ASSUME NEW i \in 1..Len(idle'), NEW j \in 1..Len(idle'),
                          idle'[i] = idle'[j]
                   PROVE  i = j
      OBVIOUS
    <3>4. CASE i \in 1..Len(idle) /\ j \in 1..Len(idle)
      BY <1>6, <3>1, <3>3, <3>4
    <3>5. CASE i \notin 1..Len(idle) /\ j \notin 1..Len(idle)
      BY <1>6, <3>5
    <3>6. CASE i \in 1..Len(idle) /\ j \notin 1..Len(idle)
      BY <1>6, <3>2, <3>3, <3>6
    <3>7. CASE i \notin 1..Len(idle) /\ j \in 1..Len(idle)
      BY <1>6, <3>2, <3>3, <3>7
    <3>8. QED
      BY <3>4, <3>5, <3>6, <3>7
  <2>4. \A i \in 1..Len(idle'), u \in Holders' : task'[u].w # idle'[i]
    BY <1>4, <1>6 DEF PoolInv, ConnectionsBounded
  <2>5. \A u, v \in Holders' : task'[u].w = task'[v].w => u = v
    BY <1>4 DEF PoolInv, ConnectionsBounded
  <2>6. QED
    BY <2>1, <2>2, <2>3, <2>4, <2>5 DEF ConnectionsBounded
<1>11. QED
  BY <1>7, <1>8, <1>9, <1>10 DEF PoolInv

-----------------------------------------------------------------------------
(* The steps of tasks.                                                     *)

(* Every program continues with an operation.                              *)
LEMMA ProgramOps ==
    /\ \A program \in {"mutation", "rebuild", "app"} : FirstOp(program) \in Ops
    /\ \A program, op, answer : NextOp(program, op, answer) \in Ops
<1>1. \A program \in {"mutation", "rebuild", "app"} : FirstOp(program) \in Ops
  BY DEF FirstOp, Ops
<1>2. ASSUME NEW program, NEW op, NEW answer
      PROVE  NextOp(program, op, answer) \in Ops
  <2> DEFINE after == CASE program = "mutation" -> AfterMutation
                        [] program = "rebuild" -> AfterRebuild
                        [] program = "app" -> {}
  <2>1. "done" \in Ops
    BY DEF Ops
  <2>2. CASE \E o \in Ops : <<op, answer, o>> \in after
    <3>1. (CHOOSE o \in Ops : <<op, answer, o>> \in after) \in Ops
      BY <2>2, Zenon
    <3>2. NextOp(program, op, answer) = CHOOSE o \in Ops : <<op, answer, o>> \in after
      BY <2>2, Zenon DEF NextOp
    <3>3. QED
      BY <3>1, <3>2
  <2>3. CASE ~ \E o \in Ops : <<op, answer, o>> \in after
    BY <2>1, <2>3, Zenon DEF NextOp
  <2>4. QED
    BY <2>2, <2>3
<1>3. QED
  BY <1>1, <1>2

(* A task that waits for an answer is a task that holds its worker.        *)
LEMMA WaitingType ==
    ASSUME PoolInv, NEW t \in Tasks, NEW program \in {"mutation", "rebuild", "app"},
           NEW w \in Workers, NEW op \in Ops
    PROVE  /\ Waiting(t, program, w, op) \in Task
           /\ Waiting(t, program, w, op).pc = "wait"
           /\ Waiting(t, program, w, op).w = w
           /\ Waiting(t, program, w, op).by = task[t].by
<1> DEFINE g == program = "mutation"
           a == IF Accepts(w) THEN "none" ELSE "error"
<1>1. g \in BOOLEAN
  BY Zenon
<1>2. a \in {"none", "ok", "no", "error"}
  OBVIOUS
<1>3. task[t].by \in 0..MaxCalls /\ w \in 0..MaxCalls
  BY DEF PoolInv, PoolTypes, Task, Workers
<1>4. Waiting(t, program, w, op) =
        [pc |-> "wait", program |-> program, w |-> w, by |-> task[t].by, op |-> op,
         guard |-> g, answer |-> a]
  BY Zenon DEF Waiting
<1> HIDE DEF g, a
<1>5. Waiting(t, program, w, op) \in Task
  BY <1>1, <1>2, <1>3, <1>4 DEF Task
<1>6. QED
  BY <1>4, <1>5

(* The steps of the checkout: a call has a number nobody had before.       *)
LEMMA Started ==
    ASSUME PoolInv, NEW t \in Tasks, NEW program \in Programs, Start(t, program)
    PROVE  /\ task[t].pc = "idle" /\ calls + 1 \in 1..MaxCalls /\ calls \in Nat
           /\ task' \in [Tasks -> Task]
           /\ task'[t].pc = "acquire" /\ task'[t].by = calls + 1
           /\ \A u \in Tasks \ {t} : task'[u] = task[u]
<1> DEFINE named == [Idle EXCEPT !.pc = "acquire"]
           for == [named EXCEPT !.program = program]
           new == [for EXCEPT !.by = calls + 1]
<1>1. calls + 1 \in 0..MaxCalls /\ calls + 1 \in 1..MaxCalls /\ calls \in Nat
  BY DEF Start, PoolInv, PoolTypes
<1>2. program \in {"mutation", "rebuild", "app"}
  OBVIOUS
<1>3. Idle \in Task
  BY DEF Idle, Task, Ops
<1>4. named \in Task /\ named.pc = "acquire"
  BY <1>3 DEF Task
<1> HIDE DEF named
<1>5. for \in Task /\ for.pc = "acquire"
  BY <1>2, <1>4 DEF Task
<1> HIDE DEF for
<1>6. new \in Task /\ new.pc = "acquire" /\ new.by = calls + 1
  BY <1>1, <1>5 DEF Task
<1> HIDE DEF new
<1>7. task' = [task EXCEPT ![t] = new]
  BY DEF Start, named, for, new
<1>8. /\ task' \in [Tasks -> Task]
      /\ task'[t].pc = "acquire" /\ task'[t].by = calls + 1
      /\ \A u \in Tasks \ {t} : task'[u] = task[u]
  BY <1>6, <1>7 DEF PoolInv, PoolTypes
<1>9. QED
  BY <1>1, <1>8 DEF Start

LEMMA StartKeeps ==
    ASSUME PoolInv, NEW t \in Tasks, NEW program \in Programs, Start(t, program)
    PROVE  PoolInv'
<1>1. calls + 1 \in 0..MaxCalls /\ calls + 1 \in 1..MaxCalls /\ calls \in Nat
  BY DEF Start, PoolInv, PoolTypes
<1>8. /\ task' \in [Tasks -> Task]
      /\ task'[t].pc = "acquire" /\ task'[t].by = calls + 1
      /\ \A u \in Tasks \ {t} : task'[u] = task[u]
  BY Started
<1>9. calls' = calls + 1 /\ calls' \in 0..MaxCalls /\ task[t].pc = "idle"
      /\ permits' = permits /\ idle' = idle
  BY DEF Start, PoolInv, PoolTypes
<1>10. Holders' = Holders /\ \A u \in Holders : u # t
  BY <1>8, <1>9 DEF Holders
<1>11. PoolTypes'
  BY <1>8, <1>9 DEF PoolInv, PoolTypes
<1>12. \A i \in 1..Len(idle) : idle[i] \in Nat
  BY DEF PoolInv, PoolTypes, Workers
<1>13. Numbered'
  <2>1. \A u \in Tasks : task[u].pc # "idle" => task[u].by \in 1..calls
    BY DEF PoolInv, Numbered
  <2>2. \A u \in Holders : u \in Tasks /\ task'[u] = task[u]
    BY <1>8, <1>10 DEF Holders
  <2>3. \A u \in Tasks : task'[u].pc # "idle" => task'[u].by \in 1..(calls + 1)
    BY <1>1, <1>8, <2>1
  <2>4. \A u, v \in Tasks :
            (task'[u].pc # "idle" /\ task'[v].pc # "idle" /\ task'[u].by = task'[v].by)
                => u = v
    BY <1>1, <1>8, <2>1 DEF PoolInv, Numbered
  <2>5. \A u \in Holders' : task'[u].w \in 1..(calls + 1)
    BY <1>1, <1>10, <2>2 DEF PoolInv, Numbered
  <2>6. \A i \in 1..Len(idle) : idle[i] <= calls + 1
    BY <1>1, <1>12 DEF PoolInv, Numbered
  <2>7. QED
    BY <1>9, <2>3, <2>4, <2>5, <2>6 DEF Numbered
<1>14. FreshNames'
  <2>1. \A u \in Holders : u \in Tasks /\ task'[u] = task[u]
    BY <1>8, <1>10 DEF Holders
  <2>2. \A i \in 1..Len(idle) : idle[i] # calls + 1
    BY <1>1, <1>12 DEF PoolInv, Numbered
  <2>3. \A u \in Holders : task[u].w # calls + 1
    BY <1>1 DEF PoolInv, Numbered
  <2>4. QED
    BY <1>8, <1>9, <1>10, <2>1, <2>2, <2>3 DEF PoolInv, FreshNames
<1>15. ConnectionsBounded'
  <2>1. \A u \in Holders : task'[u] = task[u]
    BY <1>8, <1>10 DEF Holders
  <2>2. QED
    BY <1>9, <1>10, <2>1 DEF PoolInv, ConnectionsBounded
<1>16. QED
  BY <1>11, <1>13, <1>14, <1>15 DEF PoolInv

LEMMA TimeOutKeeps ==
    ASSUME PoolInv, NEW t \in Tasks, TimeOut(t)
    PROVE  PoolInv'
<1>1. Idle \in Task /\ Idle.pc = "idle"
  BY DEF Idle, Task, Ops
<1>2. task' \in [Tasks -> Task] /\ \A u \in Tasks : SameCheckout(u)
  BY <1>1 DEF TimeOut, SameCheckout, PoolInv, PoolTypes
<1>3. QED
  BY <1>2, SameHolders DEF TimeOut

LEMMA TakeIdleKeeps ==
    ASSUME PoolInv, NEW t \in Tasks, TakeIdle(t)
    PROVE  PoolInv'
<1> DEFINE n == Len(idle)
           op == FirstOp(task[t].program)
<1>1. /\ n \in Nat \ {0} /\ idle[n] \in Workers
      /\ idle' = SubSeq(idle, 1, n - 1)
  BY DEF TakeIdle, PoolInv, PoolTypes
<1>2. /\ idle' \in Seq(Workers) /\ Len(idle') = n - 1
      /\ \A i \in 1..(n - 1) : idle'[i] = idle[i]
  <2> HIDE DEF n
  <2>1. idle \in Seq(Workers) /\ n = Len(idle)
    BY DEF PoolInv, PoolTypes, n
  <2>2. \A i \in 1..(n - 1) : idle[i] \in Workers
    BY <1>1, <2>1, ElementOfSeq
  <2>3. QED
    BY <1>1, <2>1, <2>2, SubSeqProperties
<1>3. task[t].program \in {"mutation", "rebuild", "app"} /\ op \in Ops
  BY ProgramOps DEF PoolInv, PoolTypes, Task
<1>4. /\ task' = [task EXCEPT ![t] = Waiting(t, task[t].program, idle[n], op)]
      /\ permits' = permits - 1 /\ permits > 0 /\ calls' = calls
      /\ task[t].pc = "acquire"
  BY DEF TakeIdle
<1>5. /\ task' \in [Tasks -> Task] /\ task'[t].pc = "wait"
      /\ task'[t].w = idle[n] /\ task'[t].by = task[t].by
      /\ \A u \in Tasks \ {t} : task'[u] = task[u]
  <2> HIDE DEF op
  <2>1. QED
    BY <1>1, <1>3, <1>4, WaitingType DEF PoolInv, PoolTypes
<1>6. /\ idle[n] \in 1..calls
      /\ \A i \in 1..(n - 1) : idle[i] # idle[n]
      /\ \A u \in Holders : task[u].w # idle[n]
      /\ \A u \in Tasks : task[u].pc = "acquire" => task[u].by # idle[n]
  BY <1>1 DEF PoolInv, PoolTypes, Numbered, FreshNames, ConnectionsBounded, Workers
<1>7. Len(idle') + Cardinality(Holders) < Max
  BY <1>1, <1>2, HoldersFinite DEF PoolInv, PoolTypes, ConnectionsBounded
<1>8. QED
  <2> HIDE DEF op, n
  <2>1. \A i \in 1..Len(idle') : idle'[i] = idle[i] /\ idle'[i] # task'[t].w
    BY <1>2, <1>5, <1>6
  <2>2. Len(idle') <= Len(idle)
    BY <1>1, <1>2 DEF n
  <2>3. QED
    BY <1>2, <1>4, <1>5, <1>6, <1>7, <2>1, <2>2, Acquires

LEMMA Names ==
    ASSUME PoolInv, NEW t \in Tasks, Spawn(t)
    PROVE  /\ task[t].pc = "acquire" /\ task[t].by \in 1..calls /\ task[t].by \in 1..MaxCalls
           /\ task' \in [Tasks -> Task] /\ task'[t].pc = "spawn"
           /\ task'[t].w = task[t].by /\ task'[t].by = task[t].by
           /\ \A u \in Tasks \ {t} : task'[u] = task[u]
<1>1. task[t].pc = "acquire" /\ task[t].by \in 1..calls /\ task[t].by \in 1..MaxCalls
  BY DEF Spawn, PoolInv, PoolTypes, Numbered
<1>2. /\ permits' = permits - 1 /\ permits > 0 /\ calls' = calls
      /\ idle' = idle /\ idle = << >>
      /\ task' = [task EXCEPT ![t].pc = "spawn", ![t].w = task[t].by]
  BY DEF Spawn
<1>3. /\ task' \in [Tasks -> Task] /\ task'[t].pc = "spawn"
      /\ task'[t].w = task[t].by /\ task'[t].by = task[t].by
      /\ \A u \in Tasks \ {t} : task'[u] = task[u]
  <2> DEFINE mid == [task[t] EXCEPT !.pc = "spawn"]
             new == [mid EXCEPT !.w = task[t].by]
  <2>1. task[t] \in Task /\ task[t].by \in 0..MaxCalls
    BY DEF PoolInv, PoolTypes, Task
  <2>2. mid \in Task /\ mid.pc = "spawn" /\ mid.by = task[t].by
    BY <2>1 DEF Task
  <2> HIDE DEF mid
  <2>3. new \in Task /\ new.pc = "spawn" /\ new.w = task[t].by /\ new.by = task[t].by
    BY <2>1, <2>2 DEF Task
  <2> USE DEF mid
  <2>4. task' = [task EXCEPT ![t] = new]
    BY <1>2 DEF PoolInv, PoolTypes
  <2> HIDE DEF new, mid
  <2>5. QED
    BY <2>3, <2>4 DEF PoolInv, PoolTypes
<1>4. QED
  BY <1>1, <1>3

LEMMA SpawnKeeps ==
    ASSUME PoolInv, NEW t \in Tasks, Spawn(t)
    PROVE  PoolInv'
<1>1. task[t].pc = "acquire" /\ task[t].by \in 1..calls /\ task[t].by \in 1..MaxCalls
  BY DEF Spawn, PoolInv, PoolTypes, Numbered
<1>2. /\ permits' = permits - 1 /\ permits > 0 /\ calls' = calls
      /\ idle' = idle /\ idle = << >>
      /\ task' = [task EXCEPT ![t].pc = "spawn", ![t].w = task[t].by]
  BY DEF Spawn
<1>3. /\ task' \in [Tasks -> Task] /\ task'[t].pc = "spawn"
      /\ task'[t].w = task[t].by /\ task'[t].by = task[t].by
      /\ \A u \in Tasks \ {t} : task'[u] = task[u]
  BY Names
<1>4. \A u \in Holders : task[u].w # task[t].by
  BY <1>1 DEF PoolInv, FreshNames
<1>5. \A u \in Tasks \ {t} : task[u].pc = "acquire" => task[u].by # task[t].by
  BY <1>1 DEF PoolInv, Numbered
<1>6. Len(idle) = 0 /\ idle' \in Seq(Workers)
  BY <1>2 DEF PoolInv, PoolTypes
<1>7. Len(idle') + Cardinality(Holders) < Max
  BY <1>2, <1>6, HoldersFinite DEF PoolInv, PoolTypes, ConnectionsBounded
<1>8. QED
  BY <1>1, <1>2, <1>3, <1>4, <1>5, <1>6, <1>7, Acquires

(* A task that waits keeps its worker while it submits the next job.       *)
LEMMA StillWaits ==
    ASSUME PoolInv, NEW t \in Holders, NEW program \in {"mutation", "rebuild", "app"},
           NEW op \in Ops, UNCHANGED <<permits, idle, calls>>,
           task' = [task EXCEPT ![t] = Waiting(t, program, task[t].w, op)]
    PROVE  PoolInv'
<1>1. t \in Tasks /\ task[t].w \in Workers /\ task[t].pc \in {"spawn", "wait"}
  BY DEF PoolInv, PoolTypes, Numbered, Holders, Workers
<1> DEFINE d == Waiting(t, program, task[t].w, op)
<1>2. d \in Task /\ d.pc = "wait" /\ d.w = task[t].w /\ d.by = task[t].by
  BY <1>1, WaitingType
<1> HIDE DEF d
<1>3. task' = [task EXCEPT ![t] = d]
  BY DEF d
<1>4. task' \in [Tasks -> Task] /\ \A u \in Tasks : SameCheckout(u)
  BY <1>1, <1>2, <1>3 DEF SameCheckout, PoolInv, PoolTypes
<1>5. QED
  BY <1>4, SameHolders

LEMMA SpawnedKeeps ==
    ASSUME PoolInv, NEW t \in Tasks, Spawned(t)
    PROVE  PoolInv'
<1> DEFINE op == FirstOp(task[t].program)
<1>1. t \in Holders
  BY DEF Spawned, Holders
<1>2. task[t].program \in {"mutation", "rebuild", "app"} /\ op \in Ops
  BY ProgramOps DEF PoolInv, PoolTypes, Task
<1>3. idle' = idle /\ calls' = calls
  BY DEF Spawned
<1>4. CASE /\ task' = [task EXCEPT ![t] = Waiting(t, task[t].program, task[t].w, op)]
           /\ permits' = permits
  <2> HIDE DEF op
  <2>1. QED
    BY <1>1, <1>2, <1>3, <1>4, StillWaits
<1>5. CASE permits' = permits + 1 /\ task' = [task EXCEPT ![t] = Idle]
  BY <1>1, <1>3, <1>5, Releases
<1>6. QED
  BY <1>4, <1>5, Zenon DEF Spawned

LEMMA ContinueKeeps ==
    ASSUME PoolInv, NEW t \in Tasks, Continue(t)
    PROVE  PoolInv'
<1>1. t \in Holders /\ UNCHANGED <<permits, idle, calls>>
  BY DEF Continue, Holders
<1>2. task[t].program \in {"mutation", "rebuild", "app"}
  BY DEF PoolInv, PoolTypes, Task
<1>3. PICK program \in {"mutation", "rebuild", "app"}, op \in Ops :
        task' = [task EXCEPT ![t] = Waiting(t, program, task[t].w, op)]
  <2>1. "BEGIN" \in Ops /\ NextOp(task[t].program, task[t].op, task[t].answer) \in Ops
    BY ProgramOps, Zenon DEF Ops
  <2>2. CASE task[t].op = "ASK" /\ task[t].answer = "no"
    <3>1. task' = [task EXCEPT ![t] = Waiting(t, "mutation", task[t].w, "BEGIN")]
      BY <2>2, Zenon DEF Continue
    <3>2. QED
      BY <2>1, <3>1
  <2>3. CASE ~ (task[t].op = "ASK" /\ task[t].answer = "no")
    <3>1. task' = [task EXCEPT ![t] = Waiting(t, task[t].program, task[t].w,
                              NextOp(task[t].program, task[t].op, task[t].answer))]
      BY <2>3, Zenon DEF Continue
    <3>2. QED
      BY <1>2, <2>1, <3>1
  <2>4. QED
    BY <2>2, <2>3
<1>4. QED
  BY <1>1, <1>3, StillWaits

LEMMA FinishKeeps ==
    ASSUME PoolInv, NEW t \in Tasks, Finish(t)
    PROVE  PoolInv'
<1>1. t \in Holders
  BY DEF Finish, Holders
<1>2. QED
  BY <1>1, Releases DEF Finish, Release

LEMMA CancelKeeps ==
    ASSUME PoolInv, NEW t \in Tasks, Cancel(t)
    PROVE  PoolInv'
<1>1. task' = [task EXCEPT ![t] = Idle] /\ calls' = calls
  BY DEF Cancel
<1>2. CASE task[t].pc = "acquire" /\ UNCHANGED <<permits, idle>>
  <2>1. Idle \in Task /\ Idle.pc = "idle"
    BY DEF Idle, Task, Ops
  <2>2. task' \in [Tasks -> Task] /\ \A u \in Tasks : SameCheckout(u)
    BY <1>1, <1>2, <2>1 DEF SameCheckout, PoolInv, PoolTypes
  <2>3. QED
    BY <1>1, <1>2, <2>2, SameHolders
<1>3. CASE task[t].pc = "spawn" /\ permits' = permits + 1 /\ UNCHANGED idle
  <2>1. t \in Holders
    BY <1>3 DEF Holders
  <2>2. QED
    BY <1>1, <1>3, <2>1, Releases
<1>4. CASE task[t].pc = "wait" /\ Release(task[t])
  <2>1. t \in Holders
    BY <1>4 DEF Holders
  <2>2. QED
    BY <1>1, <1>4, <2>1, Releases DEF Release
<1>5. QED
  BY <1>2, <1>3, <1>4 DEF Cancel

-----------------------------------------------------------------------------
(* The steps of worker threads: they answer, and move no connection.       *)
LEMMA AnswerKeeps ==
    ASSUME PoolInv, UNCHANGED <<permits, idle, calls>>,
           task' = [t \in Tasks |-> task'[t]],
           \A t \in Tasks :
               \/ task'[t] = task[t]
               \/ \E a \in {"none", "ok", "no", "error"} :
                    task'[t] = [task[t] EXCEPT !.answer = a]
    PROVE  PoolInv'
<1>1. ASSUME NEW t \in Tasks PROVE task'[t] \in Task /\ SameCheckout(t)
  <2>1. task[t] \in Task
    BY DEF PoolInv, PoolTypes
  <2>2. CASE task'[t] = task[t]
    BY <2>1, <2>2 DEF SameCheckout
  <2>3. ASSUME NEW a \in {"none", "ok", "no", "error"},
               task'[t] = [task[t] EXCEPT !.answer = a]
        PROVE  task'[t] \in Task /\ SameCheckout(t)
    BY <2>1, <2>3 DEF Task, SameCheckout
  <2>4. QED
    BY <2>2, <2>3
<1>2. task' \in [Tasks -> Task]
  BY <1>1
<1>3. QED
  BY <1>1, <1>2, SameHolders

LEMMA RunJobKeeps ==
    ASSUME PoolInv, NEW w \in Workers, NEW op, NEW a \in {"none", "ok", "no", "error"},
           RunJob(w, op, a)
    PROVE  PoolInv'
<1>1. UNCHANGED <<permits, idle, calls>> /\ task' = [t \in Tasks |-> task'[t]]
  BY DEF RunJob
<1>2. \A t \in Tasks :
        task'[t] = task[t] \/ task'[t] = [task[t] EXCEPT !.answer = a]
  BY DEF RunJob
<1>3. QED
  BY <1>1, <1>2, AnswerKeeps

LEMMA WorkerKeeps ==
    ASSUME PoolInv, NEW w \in Workers, WorkerStep(w)
    PROVE  PoolInv'
<1>1. CASE Open(w)
  <2>1. /\ UNCHANGED <<permits, idle, calls>> /\ task' = [t \in Tasks |-> task'[t]]
        /\ \A t \in Tasks : task'[t] = task[t]
    BY <1>1 DEF Open, PoolInv, PoolTypes
  <2>2. QED
    BY <2>1, AnswerKeeps
<1>2. CASE Exit(w)
  <2>1. UNCHANGED <<permits, idle, calls>> /\ task' = [t \in Tasks |-> task'[t]]
    BY <1>2 DEF Exit
  <2>2. \A t \in Tasks :
            task'[t] = task[t] \/ task'[t] = [task[t] EXCEPT !.answer = "error"]
    BY <1>2 DEF Exit
  <2>3. QED
    BY <2>1, <2>2, AnswerKeeps
<1>3. CASE \E op, a : a \in {"none", "ok", "no", "error"} /\ RunJob(w, op, a)
  BY <1>3, RunJobKeeps
<1>4. JobBegin(w) \/ JobWrite(w) \/ JobCommit(w) \/ JobRollback(w) \/ JobDrop(w)
        \/ JobPragma(w) \/ JobApp(w)
      => \E op, a : a \in {"none", "ok", "no", "error"} /\ RunJob(w, op, a)
  <2>1. JobBegin(w) => RunJob(w, "BEGIN", "ok") \/ RunJob(w, "BEGIN", "error")
    BY DEF JobBegin
  <2>2. JobWrite(w) => \E op : RunJob(w, op, "ok") \/ RunJob(w, op, "error")
    BY Zenon DEF JobWrite
  <2>3. JobCommit(w) => RunJob(w, "COMMIT", "ok") \/ RunJob(w, "COMMIT", "error")
    BY DEF JobCommit
  <2>4. JobRollback(w) => \E op : RunJob(w, op, "ok") \/ RunJob(w, op, "error")
    BY Zenon DEF JobRollback
  <2>5. JobDrop(w) => RunJob(w, "DROP", "none")
    BY DEF JobDrop
  <2>6. JobPragma(w) =>
            \E op : RunJob(w, op, "ok") \/ RunJob(w, op, "no") \/ RunJob(w, op, "error")
    BY Zenon DEF JobPragma
  <2>7. JobApp(w) => RunJob(w, "APP", "ok") \/ RunJob(w, "APP", "error")
    BY DEF JobApp
  <2>8. QED
    BY <2>1, <2>2, <2>3, <2>4, <2>5, <2>6, <2>7
<1>5. QED
  BY <1>1, <1>2, <1>3, <1>4 DEF WorkerStep

-----------------------------------------------------------------------------
LEMMA PoolStep == PoolInv /\ [Next]_vars => PoolInv'
<1> SUFFICES ASSUME PoolInv, [Next]_vars PROVE PoolInv'
  OBVIOUS
<1>1. ASSUME NEW t \in Tasks, NEW program \in Programs, Start(t, program) PROVE PoolInv'
  BY <1>1, StartKeeps
<1>2. ASSUME NEW t \in Tasks, TaskStep(t) PROVE PoolInv'
  BY <1>2, TakeIdleKeeps, SpawnKeeps, TimeOutKeeps, SpawnedKeeps, ContinueKeeps,
     FinishKeeps DEF TaskStep
<1>3. ASSUME NEW t \in Tasks, Cancel(t) PROVE PoolInv'
  BY <1>3, CancelKeeps
<1>4. ASSUME NEW w \in Workers, WorkerStep(w) PROVE PoolInv'
  BY <1>4, WorkerKeeps
<1>5. ASSUME UNCHANGED vars PROVE PoolInv'
  <2>1. \A t \in Tasks : SameCheckout(t)
    BY <1>5 DEF vars, SameCheckout
  <2>2. QED
    BY <1>5, <2>1, SameHolders DEF vars, PoolInv, PoolTypes
<1>6. QED
  BY <1>1, <1>2, <1>3, <1>4, <1>5 DEF Next

(* For any number of tasks and any max_connections, whatever panics, is    *)
(* cancelled or fails to open: permits and checkouts add up to             *)
(* max_connections, the idle stack and the checkouts together do not       *)
(* exceed it, and no worker is pooled twice, checked out twice or both     *)
(* (Pool::acquire, Pooled::drop).                                          *)
THEOREM PoolBounded == Spec => []ConnectionsBounded
<1>1. PoolInv => ConnectionsBounded
  BY DEF PoolInv
<1>2. QED
  BY PoolInit, PoolStep, <1>1, PTL DEF Spec

-----------------------------------------------------------------------------
(* The second invariant: what is queued on a worker and what its           *)
(* connection holds, told from the call that holds the worker. A job runs  *)
(* long after it was submitted, possibly for a call that is gone, so the   *)
(* invariant follows the whole queue: jobs lie call by call, each call's   *)
(* last job ends its transaction or the call still holds the worker, and   *)
(* the open transaction belongs to the first job's call.                   *)

(* A rebuild is not cancelled half way: it runs in the migration command,  *)
(* which nothing drops (the run's Cancellable).                            *)
RebuildsRun == "rebuild" \notin Cancellable

(* Whether a failed statement of a rebuild leaves its transaction open.      *)
Sure == "REBUILD" \notin AutoRollback

OpsOf(program) ==
    CASE program = "mutation" -> {"BEGIN", "WRITE", "COMMIT"}
      [] program = "rebuild" -> {"ASK", "OFF", "BEGIN", "REBUILD", "CHECK", "COMMIT", "ROLLBACK",
                                 "ABANDON", "ON"}
      [] program = "app" -> {"APP"}

(* A rebuild, and nothing but a rebuild, runs these.                         *)
RebuildOps == {"ASK", "OFF", "REBUILD", "CHECK", "ROLLBACK", "ABANDON", "ON"}

(* A call's transaction is open, for sure, after and before these.           *)
Inside == {<<"BEGIN", "ok">>, <<"WRITE", "none">>, <<"WRITE", "ok">>, <<"REBUILD", "none">>,
           <<"REBUILD", "ok">>, <<"CHECK", "none">>, <<"CHECK", "ok">>, <<"CHECK", "error">>,
           <<"COMMIT", "none">>, <<"COMMIT", "error">>}
        \cup IF Sure THEN {<<"REBUILD", "error">>, <<"ROLLBACK", "none">>} ELSE {}

(* It may have been ended by the failed statement.                           *)
Perhaps == {<<"WRITE", "error">>, <<"REBUILD", "error">>, <<"ROLLBACK", "none">>,
            <<"ABANDON", "none">>}

At(t) == <<task[t].op, task[t].answer>>

(* The call's jobs may still be behind those of earlier calls.               *)
Behind(t) ==
    /\ task[t].answer = "none"
    /\ task[t].op \in {"ASK", "APP"} \/ (task[t].op = "BEGIN" /\ task[t].program = "mutation")

Ends(j) == j.op \in {"DROP", "APP"}

(* The transaction of a running thread's connection is that of the next job  *)
(* or, without one, of the call that holds the worker.                       *)
TxIsNext(w) ==
    conn[w].tx # 0 =>
        IF queue[w] # << >> THEN queue[w][1].by = conn[w].tx /\ queue[w][1].op # "APP"
        ELSE \E t \in Tasks : Holds(t, w) /\ task[t].by = conn[w].tx

(* Jobs are queued call by call; a call's last job ends it, or the call      *)
(* still holds the worker.                                                   *)
CallByCall(w) ==
    \A i \in 1..Len(queue[w]) :
        IF i = Len(queue[w])
        THEN Ends(queue[w][i]) \/ \E t \in Tasks : Holds(t, w) /\ task[t].by = queue[w][i].by
        ELSE IF Ends(queue[w][i]) THEN queue[w][i].by # queue[w][i + 1].by
             ELSE queue[w][i].by = queue[w][i + 1].by /\ queue[w][i + 1].op # "APP"

WritesInTx(w) ==
    /\ conn[w].wrote \subseteq {conn[w].tx} \ {0}
    /\ \A i \in 1..Len(queue[w]) :
          queue[w][i].op \in {"WRITE", "REBUILD"} => i = 1 /\ conn[w].tx = queue[w][i].by

KeysAsOpened(w) ==
    Sure /\ conn[w].fk # conn[w].fk0 => \E t \in Tasks : Holds(t, w) /\ task[t].program = "rebuild"

(* What the call that holds a running worker knows of the connection.        *)
Knows(t, w) ==
    /\ ~Behind(t) => (\A i \in 1..Len(queue[w]) : queue[w][i].by = task[t].by)
                     /\ conn[w].tx \in {0, task[t].by}
    /\ IF At(t) \in Inside THEN conn[w].tx = task[t].by
                           ELSE At(t) \in Perhaps \/ conn[w].tx # task[t].by
    /\ At(t) \in {<<"WRITE", "ok">>, <<"COMMIT", "none">>} /\ task[t].program = "mutation" =>
          task[t].by \in conn[w].wrote
    /\ task[t].op \in {"ASK", "OFF", "ON"} => task[t].answer # "error"
    /\ Sure => At(t) # <<"ROLLBACK", "error">>
    /\ At(t) = <<"ASK", "none">> /\ Sure => conn[w].fk = conn[w].fk0
    /\ At(t) = <<"ASK", "ok">> => conn[w].fk0 \/ ~Sure
    /\ At(t) = <<"ASK", "no">> /\ Sure => conn[w].fk = conn[w].fk0
    /\ task[t].program = "rebuild" /\ task[t].op # "ASK" /\ Sure => conn[w].fk0
    /\ At(t) = <<"ON", "ok">> => conn[w].fk

ThreadInv(w) ==
    thread[w] = "running" =>
        /\ TxIsNext(w) /\ CallByCall(w) /\ WritesInTx(w) /\ KeysAsOpened(w)
        /\ \A t \in Tasks : Holds(t, w) => Knows(t, w)

(* A job of a task that is at work is the one it waits for.                  *)
JobsAwaited ==
    \A w \in Workers : \A i \in 1..Len(queue[w]) :
        /\ queue[w][i].by <= calls
        /\ queue[w][i].op = "COMMIT" => queue[w][i].by \in asked
        /\ queue[w][i].op \in RebuildOps => \E t \in Tasks : Holds(t, w) /\ task[t].by = queue[w][i].by
        /\ \A t \in Tasks : task[t].pc # "idle" /\ task[t].by = queue[w][i].by =>
              /\ Holds(t, w) /\ i = Len(queue[w])
              /\ task[t].answer = "none" /\ task[t].op = queue[w][i].op

Threads ==
    /\ \A w \in Workers : calls < w => thread[w] = "none"
    /\ \A t \in Tasks : task[t].pc = "acquire" => thread[task[t].by] = "none"
    /\ \A w \in Workers : thread[w] \in {"none", "opening"} =>
          /\ queue[w] = << >>
          /\ \A t \in Tasks : ~Holds(t, w)
          /\ \A i \in 1..Len(idle) : idle[i] # w

Told ==
    /\ committed \subseteq asked /\ acked \subseteq committed
    /\ \A t \in Tasks : task[t].pc = "wait" =>
        /\ task[t].op \in OpsOf(task[t].program)
        /\ task[t].guard <=> task[t].program = "mutation"
        /\ At(t) = <<"COMMIT", "ok">> /\ task[t].program = "mutation" => task[t].by \in committed

Connection == [tx : 0..MaxCalls, wrote : SUBSET (1..MaxCalls), fk : BOOLEAN, fk0 : BOOLEAN]

JobTypes ==
    /\ thread \in [Workers -> {"none", "opening", "running", "unwinding", "gone"}]
    /\ queue \in [Workers -> Seq(Job)]
    /\ conn \in [Workers -> Connection]
    /\ asked \cup committed \cup acked \subseteq 1..MaxCalls

JobInv == JobTypes /\ JobsAwaited /\ Threads /\ Told /\ \A w \in Workers : ThreadInv(w)

LEMMA Emptied ==
    ASSUME NEW q \in Seq(Job)
    PROVE  Len(q) \in Nat /\ (q = << >> <=> Len(q) = 0) /\ \A i \in 1..Len(q) : q[i] \in Job
  BY EmptySeq, ElementOfSeq

LEMMA Appended ==
    ASSUME NEW q \in Seq(Job), NEW j \in Job
    PROVE  /\ Append(q, j) \in Seq(Job) /\ Append(q, j) # << >>
           /\ Len(Append(q, j)) = Len(q) + 1
           /\ \A i \in 1..Len(q) : Append(q, j)[i] = q[i]
           /\ Append(q, j)[Len(q) + 1] = j
  BY AppendProperties, Emptied

LEMMA Tailed ==
    ASSUME NEW q \in Seq(Job), q # << >>
    PROVE  /\ Tail(q) \in Seq(Job) /\ Len(q) \in Nat \ {0} /\ Len(Tail(q)) = Len(q) - 1
           /\ \A i \in 1..Len(Tail(q)) : Tail(q)[i] = q[i + 1] /\ i + 1 \in 1..Len(q)
           /\ Tail(q) = << >> <=> Len(q) = 1
           /\ q[1] \in Job
<1>1. Tail(q) \in Seq(Job) /\ Len(q) \in Nat \ {0} /\ Len(Tail(q)) = Len(q) - 1
  BY HeadTailProperties, Emptied
<1>2. \A i \in 1..Len(Tail(q)) : Tail(q)[i] = q[i + 1] /\ i + 1 \in 1..Len(q)
  BY <1>1, HeadTailProperties
<1>3. Tail(q) = << >> <=> Len(q) = 1
  <2>1. Tail(q) = << >> <=> Len(Tail(q)) = 0
    BY <1>1, EmptySeq
  <2>2. QED
    BY <1>1, <2>1
<1>4. q[1] \in Job
  BY <1>1, Emptied
<1>5. QED
  BY <1>1, <1>2, <1>3, <1>4

(* A worker nobody else holds.                                               *)
LEMMA OneHolder ==
    ASSUME PoolInv, NEW w, NEW t \in Tasks, NEW u \in Tasks, Holds(t, w), u \in Holders, task[u].w = w
    PROVE  u = t
  BY DEF PoolInv, ConnectionsBounded, Holders, Holds

LEMMA Elsewhere ==
    ASSUME NEW w \in Workers, ThreadInv(w), UNCHANGED <<thread[w], queue[w], conn[w]>>,
           \A u \in Tasks : Holds(u, w)' <=> Holds(u, w),
           \A u \in Tasks : Holds(u, w) => task'[u] = task[u]
    PROVE  ThreadInv(w)'
<1>1. \A u \in Tasks : Holds(u, w)' => Behind(u)' = Behind(u) /\ At(u)' = At(u)
  BY DEF Behind, At
<1>2. TxIsNext(w) => TxIsNext(w)'
  BY DEF TxIsNext
<1>3. CallByCall(w) => CallByCall(w)'
  BY DEF CallByCall, Ends
<1>4. WritesInTx(w) => WritesInTx(w)'
  BY DEF WritesInTx
<1>5. KeysAsOpened(w) => KeysAsOpened(w)'
  BY DEF KeysAsOpened
<1>6. \A u \in Tasks : Holds(u, w)' => (Knows(u, w) => Knows(u, w)')
  BY <1>1 DEF Knows
<1>7. QED
  BY <1>2, <1>3, <1>4, <1>5, <1>6 DEF ThreadInv

(* What an operation is followed by.                                         *)
After(program) ==
    CASE program = "mutation" -> AfterMutation
      [] program = "rebuild" -> AfterRebuild
      [] program = "app" -> {}

LEMMA NextIsAfter ==
    ASSUME NEW program \in {"mutation", "rebuild", "app"}, NEW op, NEW answer
    PROVE  /\ NextOp(program, op, answer) # "done" =>
                <<op, answer, NextOp(program, op, answer)>> \in After(program)
           /\ NextOp(program, op, answer) = "done" =>
                \A o \in Ops \ {"done"} : <<op, answer, o>> \notin After(program)
<1>1. NextOp(program, op, answer) =
        IF \E o \in Ops : <<op, answer, o>> \in After(program)
        THEN CHOOSE o \in Ops : <<op, answer, o>> \in After(program) ELSE "done"
  BY Zenon DEF NextOp, After
<1>2. \A o : <<op, answer, o>> \in After(program) => o # "done"
  BY DEF After, AfterMutation, AfterRebuild
<1>3. CASE \E o \in Ops : <<op, answer, o>> \in After(program)
  <2>1. <<op, answer, CHOOSE o \in Ops : <<op, answer, o>> \in After(program)>> \in After(program)
    BY <1>3, Zenon
  <2>2. QED
    BY <1>1, <1>2, <1>3, <2>1
<1>4. CASE ~\E o \in Ops : <<op, answer, o>> \in After(program)
  BY <1>1, <1>4
<1>5. QED
  BY <1>3, <1>4

-----------------------------------------------------------------------------
(* The next job of a running thread, and who waits for it.                   *)
LEMMA HeadJob ==
    ASSUME PoolInv, JobInv, NEW w \in Workers, thread[w] = "running", queue[w] # << >>
    PROVE  LET j == queue[w][1] IN
           /\ j \in Job /\ j.by \in 1..MaxCalls /\ conn[w].tx \in {0, j.by}
           /\ j.op = "APP" => conn[w].tx = 0
           /\ ~Ends(j) /\ Len(queue[w]) = 1 => \E t \in Tasks : Holds(t, w) /\ task[t].by = j.by
           /\ ~Ends(j) /\ Len(queue[w]) # 1 => queue[w][2].by = j.by /\ queue[w][2].op # "APP"
           /\ \A t \in Tasks : Holds(t, w) =>
                 IF task[t].by = j.by
                 THEN Len(queue[w]) = 1 /\ task[t].answer = "none" /\ task[t].op = j.op /\ j.op # "DROP"
                 ELSE Behind(t)
<1> DEFINE q == queue[w]
           j == queue[w][1]
<1>1. /\ q \in Seq(Job) /\ Len(q) \in Nat \ {0} /\ j \in Job /\ j.by \in 1..MaxCalls
      /\ 1 \in 1..Len(q)
  <2>1. q \in Seq(Job)
    BY DEF JobInv, JobTypes
  <2>2. Len(q) \in Nat \ {0} /\ j \in Job
    BY <2>1, Tailed
  <2>3. QED
    BY <2>1, <2>2 DEF Job
<1>2. TxIsNext(w) /\ CallByCall(w) /\ \A t \in Tasks : Holds(t, w) => Knows(t, w)
  BY DEF JobInv, ThreadInv
<1>3. conn[w].tx \in {0, j.by} /\ (j.op = "APP" => conn[w].tx = 0)
  BY <1>2 DEF TxIsNext
<1>4. /\ ~Ends(j) /\ Len(q) = 1 => \E t \in Tasks : Holds(t, w) /\ task[t].by = j.by
      /\ ~Ends(j) /\ Len(q) # 1 => q[2].by = j.by /\ q[2].op # "APP"
  <2>1. IF 1 = Len(q) THEN Ends(q[1]) \/ \E t \in Tasks : Holds(t, w) /\ task[t].by = q[1].by
        ELSE IF Ends(q[1]) THEN q[1].by # q[1 + 1].by
             ELSE q[1].by = q[1 + 1].by /\ q[1 + 1].op # "APP"
    BY <1>1, <1>2, Zenon DEF CallByCall
  <2>2. 1 + 1 = 2
    OBVIOUS
  <2>3. QED
    BY <2>1, <2>2
<1>5. ASSUME NEW t \in Tasks, Holds(t, w), task[t].by = j.by
      PROVE  Len(q) = 1 /\ task[t].answer = "none" /\ task[t].op = j.op /\ j.op # "DROP"
  <2>1. task[t].pc # "idle" /\ task[t].pc = "wait"
    BY <1>5 DEF Holds
  <2>2. 1 = Len(q) /\ task[t].answer = "none" /\ task[t].op = j.op
    <3>1. \A u \in Tasks : task[u].pc # "idle" /\ task[u].by = q[1].by =>
              /\ Holds(u, w) /\ 1 = Len(q)
              /\ task[u].answer = "none" /\ task[u].op = q[1].op
      BY <1>1, Zenon DEF JobInv, JobsAwaited
    <3>2. QED
      BY <1>5, <2>1, <3>1
  <2>3. task[t].op # "DROP"
    BY <2>1 DEF JobInv, Told, OpsOf, PoolInv, PoolTypes, Task, Ops
  <2>4. QED BY <2>2, <2>3
<1>6. ASSUME NEW t \in Tasks, Holds(t, w), task[t].by # j.by
      PROVE  Behind(t)
  BY <1>1, <1>2, <1>6 DEF Knows
<1>7. QED
  BY <1>1, <1>3, <1>4, <1>5, <1>6

(* What a job may do to its connection, given what the call that waits for   *)
(* it learns.                                                                *)
LEMMA RunJobInv ==
    ASSUME PoolInv, JobInv, NEW w \in Workers, NEW op, NEW a \in {"none", "ok", "no", "error"}, RunJob(w, op, a),
           thread' \in [Workers -> {"none", "opening", "running", "unwinding", "gone"}],
           thread'[w] \in {"running", "unwinding"}, \A d \in Workers \ {w} : thread'[d] = thread[d],
           conn' \in [Workers -> Connection], \A d \in Workers \ {w} : conn'[d] = conn[d],
           committed \subseteq committed', committed' \subseteq asked,
           IF op \in {"DROP", "APP"} THEN conn'[w].tx = 0
           ELSE conn'[w].tx \in {0, queue[w][1].by},
           conn'[w].wrote \subseteq {conn'[w].tx} \ {0},
           conn'[w].fk0 = conn[w].fk0, op \notin {"OFF", "ON"} => conn'[w].fk = conn[w].fk,
           \A t \in Tasks : Holds(t, w) /\ task[t].by = queue[w][1].by =>
               /\ thread'[w] = "running" => Knows(t, w)'
               /\ <<op, a>> = <<"COMMIT", "ok">> /\ task[t].program = "mutation" => task[t].by \in committed'
    PROVE  JobInv'
<1> DEFINE q == queue[w]
           j == queue[w][1]
<1>1. /\ thread[w] = "running" /\ q # << >> /\ j.op = op
      /\ queue' = [queue EXCEPT ![w] = Tail(@)]
      /\ UNCHANGED <<permits, idle, handle, opened, calls, asked, acked>>
      /\ \A t \in Tasks : task'[t] = IF Holds(t, w) /\ task[t].by = j.by /\ op # "DROP"
                                      THEN [task[t] EXCEPT !.answer = a] ELSE task[t]
  BY DEF RunJob
<1>2. /\ queue'[w] = Tail(q) /\ queue' \in [Workers -> Seq(Job)]
      /\ \A d \in Workers \ {w} : queue'[d] = queue[d]
      /\ Len(q) \in Nat \ {0} /\ Len(Tail(q)) = Len(q) - 1
      /\ \A i \in 1..Len(Tail(q)) : Tail(q)[i] = q[i + 1] /\ i + 1 \in 1..Len(q)
      /\ Tail(q) = << >> <=> Len(q) = 1
  BY <1>1, Tailed DEF JobInv, JobTypes
<1>3. \A t \in Tasks : task[t] \in Task
  BY DEF PoolInv, PoolTypes
<1>4. \A t \in Tasks : /\ task'[t].pc = task[t].pc /\ task'[t].by = task[t].by /\ task'[t].w = task[t].w
                       /\ task'[t].op = task[t].op /\ task'[t].program = task[t].program
                       /\ task'[t].guard = task[t].guard
                       /\ task'[t].answer = IF Holds(t, w) /\ task[t].by = j.by /\ op # "DROP"
                                            THEN a ELSE task[t].answer
  <2> TAKE t \in Tasks
  <2>1. CASE Holds(t, w) /\ task[t].by = j.by /\ op # "DROP"
    <3>1. task'[t] = [task[t] EXCEPT !.answer = a] /\ task[t] \in Task
      BY <1>1, <1>3, <2>1
    <3>2. QED
      BY <2>1, <3>1 DEF Task
  <2>2. CASE ~(Holds(t, w) /\ task[t].by = j.by /\ op # "DROP")
    BY <1>1, <2>2
  <2>3. QED
    BY <2>1, <2>2
<1>5. \A t \in Tasks, d \in Workers : Holds(t, d)' <=> Holds(t, d)
  BY <1>4 DEF Holds
<1>6. \A t \in Tasks : Holds(t, w) /\ task[t].by = j.by => Len(q) = 1 /\ task[t].op = op /\ op # "DROP"
  BY <1>1, HeadJob
<1>7. JobTypes'
  BY <1>1, <1>2 DEF JobInv, JobTypes, Told
<1>8. JobsAwaited'
  <2>1. SUFFICES ASSUME NEW d \in Workers, NEW i \in 1..Len(queue'[d])
                 PROVE  /\ queue'[d][i].by <= calls
                        /\ queue'[d][i].op = "COMMIT" => queue'[d][i].by \in asked
                        /\ queue'[d][i].op \in RebuildOps =>
                              \E t \in Tasks : Holds(t, d)' /\ task'[t].by = queue'[d][i].by
                        /\ \A t \in Tasks : task'[t].pc # "idle" /\ task'[t].by = queue'[d][i].by =>
                              /\ Holds(t, d)' /\ i = Len(queue'[d])
                              /\ task'[t].answer = "none" /\ task'[t].op = queue'[d][i].op
    BY <1>1 DEF JobsAwaited
  <2>2. PICK k \in 1..Len(queue[d]) : /\ queue'[d][i] = queue[d][k]
                                      /\ i = Len(queue'[d]) <=> k = Len(queue[d])
                                      /\ d = w => k # 1
    <3>1. CASE d = w
      <4>1. /\ i + 1 \in 1..Len(queue[d]) /\ queue'[d][i] = queue[d][i + 1]
            /\ i = Len(queue'[d]) <=> i + 1 = Len(queue[d])
            /\ i + 1 # 1
        <5>1. queue'[d] = Tail(q) /\ q = queue[d] /\ i \in 1..Len(Tail(q)) /\ i \in Nat
          BY <1>2, <3>1
        <5> HIDE DEF q
        <5>2. QED
          BY <1>2, <5>1
      <4>2. QED
        BY <4>1
    <3>2. CASE d # w
      BY <1>2, <3>2
    <3>3. QED BY <3>1, <3>2
  <2>3. /\ queue[d][k].by <= calls
        /\ queue[d][k].op = "COMMIT" => queue[d][k].by \in asked
        /\ queue[d][k].op \in RebuildOps => \E t \in Tasks : Holds(t, d) /\ task[t].by = queue[d][k].by
        /\ \A t \in Tasks : task[t].pc # "idle" /\ task[t].by = queue[d][k].by =>
              /\ Holds(t, d) /\ k = Len(queue[d])
              /\ task[t].answer = "none" /\ task[t].op = queue[d][k].op
    BY DEF JobInv, JobsAwaited
  <2>4. ASSUME NEW t \in Tasks, task'[t].pc # "idle", task'[t].by = queue'[d][i].by
        PROVE  /\ Holds(t, d)' /\ i = Len(queue'[d])
               /\ task'[t].answer = "none" /\ task'[t].op = queue'[d][i].op
    <3>1. /\ Holds(t, d) /\ k = Len(queue[d])
          /\ task[t].answer = "none" /\ task[t].op = queue[d][k].op
      BY <1>4, <2>2, <2>3, <2>4
    <3>2. ~(Holds(t, w) /\ task[t].by = j.by)
      BY <1>2, <1>6, <2>2, <3>1 DEF Holds
    <3>3. QED
      BY <1>4, <1>5, <2>2, <3>1, <3>2
  <2>5. QED
    BY <1>4, <1>5, <2>2, <2>3, <2>4
<1>9. Threads'
  <2>1. \A d \in Workers : thread'[d] \in {"none", "opening"} <=> thread[d] \in {"none", "opening"}
    BY <1>1
  <2>2. \A d \in Workers : thread'[d] = "none" <=> thread[d] = "none"
    BY <1>1
  <2>3. \A t \in Tasks : task[t].pc = "acquire" => task[t].by \in Workers
    BY DEF PoolInv, PoolTypes, Numbered, Workers
  <2>4. \A d \in Workers : thread'[d] \in {"none", "opening"} => d # w
    BY <1>1
  <2>5. \A d \in Workers : calls < d => thread[d] = "none"
    BY DEF JobInv, Threads
  <2>6. \A t \in Tasks : task[t].pc = "acquire" => thread[task[t].by] = "none"
    BY DEF JobInv, Threads
  <2>7. \A d \in Workers : thread[d] \in {"none", "opening"} =>
            /\ queue[d] = << >>
            /\ \A t \in Tasks : ~Holds(t, d)
            /\ \A i \in 1..Len(idle) : idle[i] # d
    BY DEF JobInv, Threads
  <2>8. \A d \in Workers : calls' < d => thread'[d] = "none"
    BY <1>1, <2>2, <2>5
  <2>9. \A t \in Tasks : task'[t].pc = "acquire" => thread'[task'[t].by] = "none"
    BY <1>4, <2>2, <2>3, <2>6
  <2>10. \A d \in Workers : thread'[d] \in {"none", "opening"} =>
            /\ queue'[d] = << >>
            /\ \A t \in Tasks : ~Holds(t, d)'
            /\ \A i \in 1..Len(idle') : idle'[i] # d
    BY <1>1, <1>2, <1>5, <2>1, <2>4, <2>7
  <2>11. QED
    BY <2>8, <2>9, <2>10 DEF Threads
<1>10. Told'
  <2>1. ASSUME NEW t \in Tasks, task'[t].pc = "wait"
        PROVE  /\ task'[t].op \in OpsOf(task'[t].program)
               /\ task'[t].guard <=> task'[t].program = "mutation"
               /\ <<task'[t].op, task'[t].answer>> = <<"COMMIT", "ok">> /\ task'[t].program = "mutation" =>
                        task'[t].by \in committed'
    <3>1. /\ task[t].op \in OpsOf(task[t].program)
          /\ task[t].guard <=> task[t].program = "mutation"
          /\ <<task[t].op, task[t].answer>> = <<"COMMIT", "ok">> /\ task[t].program = "mutation" =>
                   task[t].by \in committed
      BY <1>4, <2>1 DEF JobInv, Told, At
    <3>2. CASE Holds(t, w) /\ task[t].by = j.by
      BY <1>4, <1>6, <3>1, <3>2
    <3>3. CASE ~(Holds(t, w) /\ task[t].by = j.by)
      BY <1>4, <3>1, <3>3
    <3>4. QED BY <3>2, <3>3
  <2>2. QED
    BY <1>1, <2>1 DEF JobInv, Told, At
<1>11. ASSUME NEW d \in Workers PROVE ThreadInv(d)'
  <2>1. CASE d # w
    <3>1. \A u \in Tasks : Holds(u, d) => ~Holds(u, w)
      BY <2>1 DEF Holds
    <3>2. QED
      BY <1>1, <1>2, <1>5, <2>1, <3>1, Elsewhere DEF JobInv
  <2>2. CASE d = w /\ thread'[w] = "running"
    <3>1. /\ conn[w].tx \in {0, j.by}
          /\ ~Ends(j) /\ Len(q) = 1 => \E t \in Tasks : Holds(t, w) /\ task[t].by = j.by
          /\ ~Ends(j) /\ Len(q) # 1 => q[2].by = j.by /\ q[2].op # "APP"
          /\ \A t \in Tasks : Holds(t, w) /\ task[t].by # j.by => Behind(t)
      BY <1>1, HeadJob
    <3>2. Ends(j) <=> op \in {"DROP", "APP"}
      BY <1>1 DEF Ends
    <3>3. TxIsNext(w)'
      <4>1. CASE Len(q) = 1
        BY <1>2, <1>4, <1>5, <3>1, <3>2, <4>1 DEF TxIsNext
      <4>2. CASE Len(q) # 1
        <5>1. Tail(q) # << >> /\ Tail(q)[1] = q[2]
          BY <1>2, <4>2
        <5>2. QED
          BY <1>2, <3>1, <3>2, <4>2, <5>1 DEF TxIsNext
      <4>3. QED BY <4>1, <4>2
    <3>4. CallByCall(w)'
      <4>1. SUFFICES ASSUME NEW i \in 1..Len(Tail(q))
                     PROVE  IF i = Len(Tail(q))
                            THEN Ends(Tail(q)[i]) \/ \E t \in Tasks : Holds(t, w)' /\ task'[t].by = Tail(q)[i].by
                            ELSE IF Ends(Tail(q)[i]) THEN Tail(q)[i].by # Tail(q)[i + 1].by
                                 ELSE Tail(q)[i].by = Tail(q)[i + 1].by /\ Tail(q)[i + 1].op # "APP"
        BY <1>2 DEF CallByCall, Ends
      <4>2. i \in Nat /\ i + 1 \in 1..Len(q) /\ Tail(q)[i] = q[i + 1]
        BY <1>2
      <4>3. CallByCall(w)
        BY <1>1 DEF JobInv, ThreadInv
      <4>4. CASE i = Len(Tail(q))
        <5>1. i + 1 = Len(q)
          BY <1>2, <4>2, <4>4
        <5>2. Ends(q[i + 1]) \/ \E t \in Tasks : Holds(t, w) /\ task[t].by = q[i + 1].by
          BY <4>2, <4>3, <5>1 DEF CallByCall
        <5>3. QED
          BY <1>4, <1>5, <4>2, <4>4, <5>2
      <4>5. CASE i # Len(Tail(q))
        <5>1. i + 1 # Len(q) /\ i + 1 \in 1..Len(Tail(q))
          BY <1>2, <4>2, <4>5
        <5>2. Tail(q)[i + 1] = q[(i + 1) + 1]
          BY <1>2, <5>1
        <5>3. IF Ends(q[i + 1]) THEN q[i + 1].by # q[(i + 1) + 1].by
              ELSE q[i + 1].by = q[(i + 1) + 1].by /\ q[(i + 1) + 1].op # "APP"
          BY <4>2, <4>3, <5>1 DEF CallByCall
        <5>4. QED
          BY <4>2, <4>5, <5>2, <5>3
      <4>6. QED BY <4>4, <4>5
    <3>5. WritesInTx(w)'
      <4>1. \A i \in 1..Len(Tail(q)) : Tail(q)[i].op \notin {"WRITE", "REBUILD"}
        <5>1. \A i \in 1..Len(q) : q[i].op \in {"WRITE", "REBUILD"} => i = 1
          BY <1>1 DEF JobInv, ThreadInv, WritesInTx
        <5>2. \A i \in 1..Len(Tail(q)) : i + 1 # 1
          OBVIOUS
        <5>3. QED
          BY <1>2, <5>1, <5>2
      <4>2. QED
        BY <1>2, <4>1 DEF WritesInTx
    <3>6. KeysAsOpened(w)'
      <4>1. CASE op \in {"OFF", "ON"}
        <5>1. PICK t \in Tasks : Holds(t, w) /\ task[t].by = j.by
          <6>1. j.op \in RebuildOps
            BY <1>1, <4>1 DEF RebuildOps
          <6>2. 1 \in 1..Len(queue[w])
            BY <1>2
          <6>3. JobsAwaited
            BY DEF JobInv
          <6>4. QED
            BY <6>1, <6>2, <6>3 DEF JobsAwaited
        <5>2. task[t].op \in {"OFF", "ON"} /\ task[t].op \in OpsOf(task[t].program)
          BY <1>6, <4>1, <5>1 DEF JobInv, Told, Holds
        <5>3. task[t].program = "rebuild"
          BY <1>3, <5>2 DEF OpsOf, Task
        <5>4. QED
          BY <1>4, <1>5, <5>1, <5>3 DEF KeysAsOpened
      <4>2. CASE op \notin {"OFF", "ON"}
        BY <1>1, <1>4, <1>5, <4>2 DEF JobInv, ThreadInv, KeysAsOpened
      <4>3. QED BY <4>1, <4>2
    <3>7. ASSUME NEW t \in Tasks, Holds(t, w)' PROVE Knows(t, w)'
      <4>1. CASE task[t].by = j.by
        BY <1>5, <2>2, <3>7, <4>1
      <4>2. CASE task[t].by # j.by
        <5>1. Holds(t, w) /\ Behind(t) /\ Knows(t, w) /\ UNCHANGED task[t]
          BY <1>1, <1>5, <3>1, <3>7, <4>2 DEF JobInv, ThreadInv
        <5>2. Behind(t)' /\ At(t)' = At(t) /\ task[t].answer = "none"
          BY <5>1 DEF Behind, At
        <5>3. At(t) \notin Inside /\ conn'[w].tx # task[t].by
          <6>1. At(t) \notin Inside /\ At(t) \notin Perhaps
            BY <5>1 DEF Behind, At, Inside, Perhaps
          <6>2. conn[w].tx # task[t].by /\ task[t].by # 0
            BY <5>1, <6>1 DEF Knows, PoolInv, Numbered, Holds
          <6>3. QED BY <3>1, <4>2, <6>1, <6>2
        <5>4. op \in {"OFF", "ON"} => FALSE
          <6>1. SUFFICES ASSUME op \in {"OFF", "ON"} PROVE FALSE
            OBVIOUS
          <6>2. PICK u \in Tasks : Holds(u, w) /\ task[u].by = j.by
            BY <1>1, <1>2, <6>1 DEF JobInv, JobsAwaited, RebuildOps
          <6>3. u = t
            BY <5>1, <6>2, OneHolder DEF Holds, Holders
          <6>4. QED BY <4>2, <6>2, <6>3
        <5>5. QED
          BY <2>2, <5>1, <5>2, <5>3, <5>4 DEF Knows, Behind, At
      <4>3. QED BY <4>1, <4>2
    <3>8. QED
      BY <2>2, <3>3, <3>4, <3>5, <3>6, <3>7 DEF ThreadInv
  <2>3. QED
    BY <2>1, <2>2 DEF ThreadInv
<1>12. QED
  BY <1>7, <1>8, <1>9, <1>10, <1>11 DEF JobInv

(* What a job may do to its connection.                                      *)
Done(w, op) ==
    /\ thread' \in [Workers -> {"none", "opening", "running", "unwinding", "gone"}]
    /\ thread'[w] \in {"running", "unwinding"} /\ \A d \in Workers \ {w} : thread'[d] = thread[d]
    /\ conn' \in [Workers -> Connection] /\ \A d \in Workers \ {w} : conn'[d] = conn[d]
    /\ committed \subseteq committed' /\ committed' \subseteq asked
    /\ IF op \in {"DROP", "APP"} THEN conn'[w].tx = 0 ELSE conn'[w].tx \in {0, queue[w][1].by}
    /\ conn'[w].wrote \subseteq {conn'[w].tx} \ {0}
    /\ conn'[w].fk0 = conn[w].fk0
    /\ op \notin {"OFF", "ON"} => conn'[w].fk = conn[w].fk

(* The call that waits for it, and what it learns from the answer.           *)
Waits(t, w, op) ==
    /\ op # "DROP" /\ Holds(t, w) /\ task[t].by = queue[w][1].by
    /\ Knows(t, w) /\ At(t) = <<op, "none">> /\ op \in OpsOf(task[t].program)

Learns(t, w, op, a) ==
    /\ <<op, a>> = <<"COMMIT", "ok">> /\ task[t].program = "mutation" => task[t].by \in committed'
    /\ IF <<op, a>> \in Inside THEN conn'[w].tx = task[t].by
                               ELSE <<op, a>> \in Perhaps \/ conn'[w].tx # task[t].by
    /\ <<op, a>> = <<"WRITE", "ok">> /\ task[t].program = "mutation" =>
          task[t].by \in conn'[w].wrote
    /\ op \in {"ASK", "OFF", "ON"} => a # "error"
    /\ Sure => <<op, a>> # <<"ROLLBACK", "error">>
    /\ <<op, a>> = <<"ASK", "ok">> => conn'[w].fk0 \/ ~Sure
    /\ <<op, a>> = <<"ASK", "no">> /\ Sure => conn'[w].fk = conn'[w].fk0
    /\ <<op, a>> = <<"ON", "ok">> => conn'[w].fk

(* A job runs, and the call that waits for it learns of it.                  *)
LEMMA Answered ==
    ASSUME PoolInv, JobInv, NEW w \in Workers, NEW op, NEW a \in {"none", "ok", "no", "error"},
           RunJob(w, op, a), a = "none" <=> op = "DROP", Done(w, op),
           \A t \in Tasks : Waits(t, w, op) => Learns(t, w, op, a)
    PROVE  JobInv'
<1> DEFINE q == queue[w]
           j == queue[w][1]
<1>1. ASSUME NEW t \in Tasks, Holds(t, w), task[t].by = j.by
      PROVE  /\ thread'[w] = "running" => Knows(t, w)'
             /\ <<op, a>> = <<"COMMIT", "ok">> /\ task[t].program = "mutation" =>
                    task[t].by \in committed'
  <2>1. thread[w] = "running" /\ q # << >> /\ j.op = op /\ queue' = [queue EXCEPT ![w] = Tail(@)]
    BY DEF RunJob
  <2>2. Len(q) = 1 /\ task[t].answer = "none" /\ task[t].op = op /\ op # "DROP"
    BY <1>1, <2>1, HeadJob
  <2>3. q \in Seq(Job) /\ queue'[w] = Tail(q)
    BY <2>1 DEF JobInv, JobTypes
  <2>4. queue'[w] = << >> /\ Len(queue'[w]) = 0
    <3>1. Tail(q) = << >>
      BY <2>1, <2>2, <2>3, Tailed
    <3>2. queue'[w] = << >>
      BY <2>3, <3>1, Zenon
    <3>3. QED
      BY <3>2
  <2>5. task'[t] = [task[t] EXCEPT !.answer = a] /\ task[t] \in Task
    BY <1>1, <2>2 DEF RunJob, PoolInv, PoolTypes
  <2>6. /\ task'[t].op = op /\ task'[t].answer = a /\ task'[t].by = task[t].by
        /\ task'[t].program = task[t].program
    BY <2>2, <2>5 DEF Task
  <2>7. Knows(t, w) /\ At(t) = <<op, "none">> /\ op \in OpsOf(task[t].program)
    <3>1. Knows(t, w)
      BY <1>1, <2>1 DEF JobInv, ThreadInv
    <3>2. task[t].op \in OpsOf(task[t].program)
      BY <1>1 DEF JobInv, Told, Holds
    <3>3. QED
      BY <2>2, <3>1, <3>2 DEF At
  <2>8. Learns(t, w, op, a)
    BY <1>1, <2>2, <2>7 DEF Waits
  <2>9. At(t)' = <<op, a>> /\ ~Behind(t)' /\ a # "none"
    BY <2>2, <2>6 DEF At, Behind
  <2>10. conn'[w].tx \in {0, task[t].by}
    BY <1>1 DEF Done
  <2>11. task[t].program = "rebuild" /\ op # "ASK" /\ Sure => conn'[w].fk0
    BY <2>2, <2>7 DEF Knows, Done
  <2>12. At(t)' # <<"COMMIT", "none">> /\ At(t)' # <<"ASK", "none">>
    BY <2>9
  <2>13. Knows(t, w)'
    BY <2>4, <2>6, <2>8, <2>9, <2>10, <2>11, <2>12 DEF Knows, Learns
  <2>14. QED
    BY <2>8, <2>13 DEF Learns
<1>2. QED
  BY <1>1, RunJobInv DEF Done

(* The connection of a running thread with a job to do.                      *)
LEMMA Ready1 ==
    ASSUME PoolInv, JobInv, NEW w \in Workers, NEW op, NEW a, RunJob(w, op, a)
    PROVE  LET b == queue[w][1].by IN
           /\ b \in 1..MaxCalls /\ queue[w][1].op = op
           /\ conn[w] \in Connection /\ conn[w].tx \in {0, b} /\ conn[w].wrote \subseteq {conn[w].tx} \ {0}
           /\ op = "APP" => conn[w].tx = 0
           /\ op \in {"WRITE", "REBUILD"} => conn[w].tx = b
           /\ op = "COMMIT" => b \in asked
           /\ thread[w] = "running" /\ committed \subseteq asked
<1>1. thread[w] = "running" /\ queue[w] # << >> /\ queue[w][1].op = op
  BY DEF RunJob
<1>2. queue[w] \in Seq(Job) /\ conn[w] \in Connection
  BY DEF JobInv, JobTypes
<1>3. 1 \in 1..Len(queue[w])
  BY <1>1, <1>2, Tailed
<1>4. queue[w][1].by \in 1..MaxCalls /\ conn[w].tx \in {0, queue[w][1].by} /\ (op = "APP" => conn[w].tx = 0)
  BY <1>1, HeadJob
<1>5. WritesInTx(w)
  BY <1>1 DEF JobInv, ThreadInv
<1>6. op = "COMMIT" => queue[w][1].by \in asked
  BY <1>1, <1>3, Zenon DEF JobInv, JobsAwaited
<1>7. QED
  BY <1>1, <1>2, <1>3, <1>4, <1>5, <1>6 DEF WritesInTx, JobInv, Told

LEMMA BeginInv ==
    ASSUME PoolInv, JobInv, NEW w \in Workers, JobBegin(w)
    PROVE  JobInv'
<1> DEFINE b == queue[w][1].by
<1>1. CASE RunJob(w, "BEGIN", "ok") /\ conn[w].tx = 0 /\ conn' = [conn EXCEPT ![w].tx = b]
           /\ UNCHANGED <<thread, committed>>
  <2>1. /\ b \in 1..MaxCalls /\ conn[w] \in Connection /\ conn[w].wrote \subseteq {}
        /\ thread[w] = "running" /\ committed \subseteq asked
    BY <1>1, Ready1
  <2>2. /\ conn'[w] = [conn[w] EXCEPT !.tx = b] /\ conn' \in [Workers -> Connection]
        /\ \A d \in Workers \ {w} : conn'[d] = conn[d]
    <3>1. [conn[w] EXCEPT !.tx = b] \in Connection
      BY <2>1 DEF Connection
    <3>2. conn \in [Workers -> Connection]
      BY DEF JobInv, JobTypes
    <3>3. conn' = [conn EXCEPT ![w] = [conn[w] EXCEPT !.tx = b]]
      BY <1>1
    <3>4. QED
      BY <3>1, <3>2, <3>3
  <2>3. conn'[w].tx = b /\ conn'[w].wrote = {} /\ conn'[w].fk = conn[w].fk /\ conn'[w].fk0 = conn[w].fk0
    BY <2>1, <2>2 DEF Connection
  <2>4. <<"BEGIN", "ok">> \in Inside
    BY DEF Inside
  <2>5. QED
    <3>1. Done(w, "BEGIN")
      BY <1>1, <2>1, <2>2, <2>3 DEF Done, JobInv, JobTypes
    <3>2. \A t \in Tasks : Waits(t, w, "BEGIN") => Learns(t, w, "BEGIN", "ok")
      BY <2>3, <2>4 DEF Waits, Learns
    <3>3. QED
      BY <1>1, <3>1, <3>2, Answered
<1>2. CASE RunJob(w, "BEGIN", "error") /\ UNCHANGED <<thread, database>>
  <2>1. /\ b \in 1..MaxCalls /\ conn[w] \in Connection /\ conn[w].tx \in {0, b}
        /\ conn[w].wrote \subseteq {conn[w].tx} \ {0}
        /\ thread[w] = "running" /\ committed \subseteq asked
    BY <1>2, Ready1
  <2>2. <<"BEGIN", "error">> \notin Inside /\ <<"BEGIN", "none">> \notin Inside \cup Perhaps
    BY DEF Inside, Perhaps
  <2>3. \A t \in Tasks : Knows(t, w) /\ At(t) = <<"BEGIN", "none">> => conn[w].tx # task[t].by
    BY <2>2 DEF Knows
  <2>4. UNCHANGED <<conn, committed>>
    BY <1>2 DEF database
  <2>5. Done(w, "BEGIN")
    BY <1>2, <2>1, <2>4 DEF Done, JobInv, JobTypes
  <2>6. \A t \in Tasks : Waits(t, w, "BEGIN") => Learns(t, w, "BEGIN", "error")
    BY <2>2, <2>3, <2>4 DEF Waits, Learns
  <2>7. QED
    BY <1>2, <2>5, <2>6, Answered
<1>3. QED
  BY <1>1, <1>2 DEF JobBegin

(* A rollback, in whatever way it comes about.                               *)
LEMMA RollsBack ==
    ASSUME JobInv, NEW w \in Workers, conn' = RolledBack(w)
    PROVE  /\ conn' \in [Workers -> Connection] /\ \A d \in Workers \ {w} : conn'[d] = conn[d]
           /\ conn'[w].tx = 0 /\ conn'[w].wrote = {}
           /\ conn'[w].fk = conn[w].fk /\ conn'[w].fk0 = conn[w].fk0
<1>1. conn \in [Workers -> Connection]
  BY DEF JobInv, JobTypes
<1> DEFINE mid == [conn EXCEPT ![w].tx = 0]
<1>2. mid[w] = [conn[w] EXCEPT !.tx = 0] /\ \A d \in Workers \ {w} : mid[d] = conn[d]
  BY <1>1
<1>3. /\ mid \in [Workers -> Connection] /\ mid[w].tx = 0
      /\ mid[w].fk = conn[w].fk /\ mid[w].fk0 = conn[w].fk0
  BY <1>1, <1>2 DEF Connection
<1>4. conn' = [mid EXCEPT ![w].wrote = {}]
  BY DEF RolledBack
<1> HIDE DEF mid
<1>5. conn'[w] = [mid[w] EXCEPT !.wrote = {}] /\ \A d \in Workers \ {w} : conn'[d] = mid[d]
  BY <1>3, <1>4
<1>6. mid[w] \in Connection
  BY <1>3
<1>7. /\ conn'[w] \in Connection /\ conn'[w].tx = mid[w].tx /\ conn'[w].wrote = {}
      /\ conn'[w].fk = mid[w].fk /\ conn'[w].fk0 = mid[w].fk0
  BY <1>5, <1>6 DEF Connection
<1>8. conn' \in [Workers -> Connection]
  BY <1>3, <1>4, <1>5, <1>7
<1>9. QED
  BY <1>2, <1>3, <1>5, <1>7, <1>8

LEMMA WriteInv ==
    ASSUME PoolInv, JobInv, NEW w \in Workers, JobWrite(w)
    PROVE  JobInv'
<1> DEFINE b == queue[w][1].by
<1>1. PICK op \in {"WRITE", "REBUILD"} :
        /\ \/ /\ conn[w].tx = 0
              /\ RunJob(w, op, "ok")
           \/ /\ conn[w].tx # 0
              /\ RunJob(w, op, "ok")
              /\ conn' = [conn EXCEPT ![w].wrote = @ \cup {b}]
              /\ UNCHANGED committed
           \/ /\ RunJob(w, op, "error")
              /\ conn' = conn \/ (op \in AutoRollback /\ conn' = RolledBack(w))
              /\ UNCHANGED committed
        /\ UNCHANGED thread
  BY Zenon DEF JobWrite
<1>2. PICK a \in {"ok", "error"} : RunJob(w, op, a)
  BY <1>1
<1>3. /\ b \in 1..MaxCalls /\ conn[w] \in Connection /\ conn[w].tx = b
      /\ conn[w].wrote \subseteq {b} /\ thread[w] = "running" /\ committed \subseteq asked
      /\ conn \in [Workers -> Connection]
  BY <1>2, Ready1 DEF JobInv, JobTypes
<1>4. /\ <<op, "ok">> \in Inside /\ <<op, "error">> \in Perhaps
      /\ <<op, "error">> \in Inside <=> Sure /\ op = "REBUILD"
  BY DEF Inside, Perhaps
<1>5. CASE /\ RunJob(w, op, "ok") /\ conn' = [conn EXCEPT ![w].wrote = @ \cup {b}]
           /\ UNCHANGED committed
  <2>1. /\ conn'[w] = [conn[w] EXCEPT !.wrote = @ \cup {b}] /\ conn' \in [Workers -> Connection]
        /\ \A d \in Workers \ {w} : conn'[d] = conn[d]
    BY <1>3, <1>5 DEF Connection
  <2>2. /\ conn'[w].tx = b /\ conn'[w].wrote = conn[w].wrote \cup {b}
        /\ conn'[w].fk = conn[w].fk /\ conn'[w].fk0 = conn[w].fk0
    BY <1>3, <2>1 DEF Connection
  <2>3. Done(w, op)
    BY <1>1, <1>3, <1>5, <2>1, <2>2 DEF Done, JobInv, JobTypes
  <2>4. \A t \in Tasks : Waits(t, w, op) => Learns(t, w, op, "ok")
    BY <1>4, <2>2 DEF Waits, Learns
  <2>5. QED
    BY <1>5, <2>3, <2>4, Answered
<1>6. CASE RunJob(w, op, "error") /\ conn' = conn /\ UNCHANGED committed
  <2>1. Done(w, op)
    BY <1>1, <1>3, <1>6 DEF Done, JobInv, JobTypes
  <2>2. \A t \in Tasks : Waits(t, w, op) => Learns(t, w, op, "error")
    BY <1>3, <1>4, <1>6 DEF Waits, Learns
  <2>3. QED
    BY <1>6, <2>1, <2>2, Answered
<1>7. CASE /\ RunJob(w, op, "error") /\ op \in AutoRollback /\ conn' = RolledBack(w)
           /\ UNCHANGED committed
  <2>1. ~(Sure /\ op = "REBUILD")
    BY <1>7 DEF Sure
  <2>2. Done(w, op)
    BY <1>1, <1>3, <1>7, RollsBack DEF Done, JobInv, JobTypes
  <2>3. \A t \in Tasks : Waits(t, w, op) => Learns(t, w, op, "error")
    BY <1>4, <2>1 DEF Waits, Learns
  <2>4. QED
    BY <1>7, <2>2, <2>3, Answered
<1>8. conn[w].tx # 0
  BY <1>3
<1>9. QED
  BY <1>1, <1>5, <1>6, <1>7, <1>8, Zenon

LEMMA CommitInv ==
    ASSUME PoolInv, JobInv, NEW w \in Workers, JobCommit(w)
    PROVE  JobInv'
<1> DEFINE b == queue[w][1].by
<1>1. PICK a \in {"ok", "error"} : RunJob(w, "COMMIT", a)
  BY DEF JobCommit
<1>2. /\ b \in 1..MaxCalls /\ conn[w] \in Connection /\ conn[w].tx \in {0, b}
      /\ conn[w].wrote \subseteq {conn[w].tx} \ {0} /\ b \in asked
      /\ thread[w] = "running" /\ committed \subseteq asked /\ UNCHANGED thread
      /\ conn \in [Workers -> Connection]
      /\ thread' \in [Workers -> {"none", "opening", "running", "unwinding", "gone"}]
  BY <1>1, Ready1 DEF JobInv, JobTypes, JobCommit
<1>3. /\ <<"COMMIT", "none">> \in Inside /\ <<"COMMIT", "error">> \in Inside
      /\ <<"COMMIT", "ok">> \notin Inside
  BY DEF Inside
<1>4. \A t \in Tasks : Knows(t, w) /\ At(t) = <<"COMMIT", "none">> =>
        conn[w].tx = task[t].by /\ (task[t].program = "mutation" => task[t].by \in conn[w].wrote)
  BY <1>3 DEF Knows
<1>5. CASE RunJob(w, "COMMIT", "ok") /\ conn[w].tx # 0 /\ committed' = committed \cup conn[w].wrote
           /\ conn' = RolledBack(w)
  <2>1. Done(w, "COMMIT")
    BY <1>2, <1>5, RollsBack DEF Done
  <2>2. conn'[w].tx = 0 /\ \A t \in Tasks : Holds(t, w) => task[t].by # 0
    BY <1>5, RollsBack DEF PoolInv, Numbered, Holds, Holders
  <2>3. \A t \in Tasks : Waits(t, w, "COMMIT") => Learns(t, w, "COMMIT", "ok")
    BY <1>3, <1>4, <1>5, <2>2 DEF Waits, Learns
  <2>4. QED
    BY <1>5, <2>1, <2>3, Answered
<1>6. CASE RunJob(w, "COMMIT", "error") /\ UNCHANGED database
  <2>1. Done(w, "COMMIT") /\ UNCHANGED conn
    BY <1>2, <1>6 DEF Done, database
  <2>2. \A t \in Tasks : Waits(t, w, "COMMIT") => Learns(t, w, "COMMIT", "error")
    BY <1>3, <1>4, <2>1 DEF Waits, Learns
  <2>3. QED
    BY <1>6, <2>1, <2>2, Answered
<1>7. QED
  BY <1>5, <1>6 DEF JobCommit

LEMMA RollbackInv ==
    ASSUME PoolInv, JobInv, NEW w \in Workers, JobRollback(w)
    PROVE  JobInv'
<1> DEFINE a == IF conn[w].tx = 0 THEN "error" ELSE "ok"
<1>1. PICK op \in {"ROLLBACK", "ABANDON"} : RunJob(w, op, a)
  BY DEF JobRollback
<1>2. /\ queue[w][1].by \in 1..MaxCalls /\ thread[w] = "running" /\ committed \subseteq asked
      /\ thread' \in [Workers -> {"none", "opening", "running", "unwinding", "gone"}]
      /\ UNCHANGED <<thread, committed>> /\ conn' = RolledBack(w)
  BY <1>1, Ready1 DEF JobInv, JobTypes, JobRollback
<1>3. /\ <<op, a>> \notin Inside
      /\ Sure => <<"ROLLBACK", "none">> \in Inside
  BY DEF Inside
<1>4. \A t \in Tasks : Sure /\ Knows(t, w) /\ At(t) = <<"ROLLBACK", "none">> => conn[w].tx = task[t].by
  BY <1>3 DEF Knows
<1>5. Done(w, op)
  BY <1>2, RollsBack DEF Done
<1>6. conn'[w].tx = 0 /\ \A t \in Tasks : Holds(t, w) => task[t].by # 0
  BY <1>2, RollsBack DEF PoolInv, Numbered, Holds, Idle
<1>7. \A t \in Tasks : Waits(t, w, op) => Learns(t, w, op, a)
  BY <1>3, <1>4, <1>6 DEF Waits, Learns
<1>8. a \in {"ok", "error"}
  OBVIOUS
<1> HIDE DEF a
<1>9. QED
  BY <1>1, <1>5, <1>7, <1>8, Answered

LEMMA DropInv ==
    ASSUME PoolInv, JobInv, NEW w \in Workers, JobDrop(w)
    PROVE  JobInv'
<1>1. RunJob(w, "DROP", "none") /\ UNCHANGED <<thread, committed>> /\ conn' = RolledBack(w)
  BY DEF JobDrop
<1>2. /\ thread[w] = "running" /\ committed \subseteq asked
      /\ thread' \in [Workers -> {"none", "opening", "running", "unwinding", "gone"}]
  BY <1>1, Ready1 DEF JobInv, JobTypes
<1>3. Done(w, "DROP")
  BY <1>1, <1>2, RollsBack DEF Done
<1>4. QED
  BY <1>1, <1>3, Answered DEF Waits

LEMMA PragmaInv ==
    ASSUME PoolInv, JobInv, NEW w \in Workers, JobPragma(w)
    PROVE  JobInv'
<1> DEFINE b == queue[w][1].by
<1>1. PICK op \in {"ASK", "CHECK", "OFF", "ON"}, a \in {"ok", "no", "error"} : RunJob(w, op, a)
  BY Zenon DEF JobPragma
<1>2. /\ b \in 1..MaxCalls /\ conn[w] \in Connection /\ conn[w].tx \in {0, b}
      /\ conn[w].wrote \subseteq {conn[w].tx} \ {0}
      /\ thread[w] = "running" /\ committed \subseteq asked /\ UNCHANGED <<thread, committed>>
      /\ conn \in [Workers -> Connection]
      /\ thread' \in [Workers -> {"none", "opening", "running", "unwinding", "gone"}]
  BY <1>1, Ready1 DEF JobInv, JobTypes, JobPragma
<1>3. /\ <<"CHECK", "ok">> \in Inside /\ <<"CHECK", "error">> \in Inside /\ <<"CHECK", "none">> \in Inside
      /\ \A o \in {"ASK", "OFF", "ON"}, x \in {"none", "ok", "no"} : <<o, x>> \notin Inside \cup Perhaps
  BY DEF Inside, Perhaps
<1>4. CASE RunJob(w, "ASK", IF conn[w].fk THEN "ok" ELSE "no") /\ UNCHANGED conn
  <2>1. \A t \in Tasks : Knows(t, w) /\ At(t) = <<"ASK", "none">> =>
            conn[w].tx # task[t].by /\ (Sure => conn[w].fk = conn[w].fk0)
    BY <1>3 DEF Knows
  <2>2. CASE RunJob(w, "ASK", "ok") /\ conn[w].fk
    <3>1. \A t \in Tasks : Waits(t, w, "ASK") => Learns(t, w, "ASK", "ok")
      BY <1>3, <1>4, <2>1, <2>2 DEF Waits, Learns
    <3>2. Done(w, "ASK")
      BY <1>2, <1>4 DEF Done
    <3>3. QED
      BY <2>2, <3>1, <3>2, Answered
  <2>3. CASE RunJob(w, "ASK", "no") /\ ~conn[w].fk
    <3>1. \A t \in Tasks : Waits(t, w, "ASK") => Learns(t, w, "ASK", "no")
      BY <1>3, <1>4, <2>1, <2>3 DEF Waits, Learns
    <3>2. Done(w, "ASK")
      BY <1>2, <1>4 DEF Done
    <3>3. QED
      BY <2>3, <3>1, <3>2, Answered
  <2>4. QED
    BY <1>4, <2>2, <2>3
<1>5. ASSUME NEW x \in {"ok", "error"}, RunJob(w, "CHECK", x), UNCHANGED conn PROVE JobInv'
  <2>1. \A t \in Tasks : Knows(t, w) /\ At(t) = <<"CHECK", "none">> => conn[w].tx = task[t].by
    BY <1>3 DEF Knows
  <2>2. \A t \in Tasks : Waits(t, w, "CHECK") => Learns(t, w, "CHECK", x)
    BY <1>3, <1>5, <2>1 DEF Waits, Learns
  <2>3. Done(w, "CHECK")
    BY <1>2, <1>5 DEF Done
  <2>4. QED
    BY <1>5, <2>2, <2>3, Answered
<1>6. ASSUME NEW o \in {"OFF", "ON"}, RunJob(w, o, "ok"),
             conn' = IF conn[w].tx = 0 THEN [conn EXCEPT ![w].fk = (o = "ON")] ELSE conn
      PROVE  JobInv'
  <2>1. \A t \in Tasks : Knows(t, w) /\ At(t) = <<o, "none">> => conn[w].tx # task[t].by
    BY <1>3 DEF Knows
  <2>2. CASE conn[w].tx = 0
    <3>1. /\ conn'[w] = [conn[w] EXCEPT !.fk = (o = "ON")] /\ conn' \in [Workers -> Connection]
          /\ \A d \in Workers \ {w} : conn'[d] = conn[d]
      BY <1>2, <1>6, <2>2 DEF Connection
    <3>2. /\ conn'[w].tx = conn[w].tx /\ conn'[w].wrote = conn[w].wrote /\ conn'[w].fk0 = conn[w].fk0
          /\ o = "ON" => conn'[w].fk
      BY <1>2, <3>1 DEF Connection
    <3>3. \A t \in Tasks : Waits(t, w, o) => Learns(t, w, o, "ok")
      BY <1>3, <1>6, <2>1, <3>2 DEF Waits, Learns
    <3>4. Done(w, o)
      BY <1>2, <3>1, <3>2 DEF Done
    <3>5. QED
      BY <1>6, <3>3, <3>4, Answered
  <2>3. CASE conn[w].tx # 0
    <3>1. \A t \in Tasks : ~Waits(t, w, o)
      BY <1>2, <2>1, <2>3 DEF Waits
    <3>2. Done(w, o)
      BY <1>2, <1>6, <2>3 DEF Done
    <3>3. QED
      BY <1>6, <3>1, <3>2, Answered
  <2>4. QED
    BY <2>2, <2>3
<1>7. QED
  BY <1>4, <1>5, <1>6, Zenon DEF JobPragma

LEMMA AppInv ==
    ASSUME PoolInv, JobInv, NEW w \in Workers, JobApp(w)
    PROVE  JobInv'
<1>1. PICK a \in {"ok", "error"} : RunJob(w, "APP", a)
  BY DEF JobApp
<1>2. /\ queue[w][1].by \in 1..MaxCalls /\ conn[w].tx = 0 /\ conn[w].wrote \subseteq {}
      /\ thread[w] = "running" /\ committed \subseteq asked /\ UNCHANGED <<conn, committed>>
      /\ conn \in [Workers -> Connection]
  BY <1>1, Ready1 DEF JobInv, JobTypes, JobApp, database
<1>3. <<"APP", a>> \notin Inside
  BY DEF Inside
<1>4. \A t \in Tasks : Holds(t, w) => task[t].by # 0
  BY DEF PoolInv, Numbered, Holds, Idle
<1>5. /\ thread' \in [Workers -> {"none", "opening", "running", "unwinding", "gone"}]
      /\ thread'[w] \in {"running", "unwinding"} /\ \A d \in Workers \ {w} : thread'[d] = thread[d]
  BY <1>2 DEF JobApp, JobInv, JobTypes
<1>6. Done(w, "APP")
  BY <1>2, <1>5 DEF Done
<1>7. \A t \in Tasks : Waits(t, w, "APP") => Learns(t, w, "APP", a)
  BY <1>2, <1>3, <1>4 DEF Waits, Learns
<1>8. QED
  BY <1>1, <1>6, <1>7, Answered

-----------------------------------------------------------------------------
(* Steps that move no waiting call: a task comes, gets no connection, names  *)
(* its worker or is dropped before it waits, and a connection is opened.     *)
LEMMA NobodyWaits ==
    ASSUME PoolInv, JobInv, UNCHANGED <<queue, asked, committed, acked, idle>>, calls <= calls', calls' \in Nat,
           thread' \in [Workers -> {"none", "opening", "running", "unwinding", "gone"}],
           \A t \in Tasks : /\ task'[t].pc = "wait" <=> task[t].pc = "wait"
                            /\ task[t].pc = "wait" => task'[t] = task[t]
                            /\ task'[t].pc # "idle" =>
                                  (task[t].pc # "idle" /\ task'[t].by = task[t].by) \/ task'[t].by > calls
                            /\ task'[t].pc = "acquire" => thread'[task'[t].by] = "none",
           conn' \in [Workers -> Connection],
           \A w \in Workers :
              /\ calls' < w => thread'[w] = "none"
              /\ thread'[w] \in {"none", "opening"} => thread[w] \in {"none", "opening"}
              /\ thread'[w] = "running" =>
                    \/ thread[w] = "running" /\ conn'[w] = conn[w]
                    \/ /\ thread[w] = "opening"
                       /\ conn'[w].tx = 0 /\ conn'[w].wrote = {} /\ conn'[w].fk = conn'[w].fk0
    PROVE  JobInv'
<1>1. \A t \in Tasks, w \in Workers : Holds(t, w)' <=> Holds(t, w)
  BY DEF Holds
<1>2. JobTypes'
  BY DEF JobInv, JobTypes
<1>3. JobsAwaited'
  <2>1. SUFFICES ASSUME NEW d \in Workers, NEW i \in 1..Len(queue[d])
                 PROVE  /\ queue[d][i].by <= calls'
                        /\ queue[d][i].op = "COMMIT" => queue[d][i].by \in asked
                        /\ queue[d][i].op \in RebuildOps =>
                              \E t \in Tasks : Holds(t, d)' /\ task'[t].by = queue[d][i].by
                        /\ \A t \in Tasks : task'[t].pc # "idle" /\ task'[t].by = queue[d][i].by =>
                              /\ Holds(t, d)' /\ i = Len(queue[d])
                              /\ task'[t].answer = "none" /\ task'[t].op = queue[d][i].op
    BY DEF JobsAwaited
  <2>2. /\ queue[d][i].by <= calls
        /\ queue[d][i].op = "COMMIT" => queue[d][i].by \in asked
        /\ queue[d][i].op \in RebuildOps => \E t \in Tasks : Holds(t, d) /\ task[t].by = queue[d][i].by
        /\ \A t \in Tasks : task[t].pc # "idle" /\ task[t].by = queue[d][i].by =>
              /\ Holds(t, d) /\ i = Len(queue[d])
              /\ task[t].answer = "none" /\ task[t].op = queue[d][i].op
    BY DEF JobInv, JobsAwaited
  <2>3. queue[d][i].by \in Nat /\ calls \in Nat
    <3>1. queue[d] \in Seq(Job)
      BY DEF JobInv, JobTypes
    <3>2. queue[d][i] \in Job
      BY <3>1, Emptied
    <3>3. QED
      BY <3>2 DEF Job, PoolInv, PoolTypes
  <2>4. \A t \in Tasks : Holds(t, d) => task'[t] = task[t]
    BY DEF Holds
  <2>5. ASSUME NEW t \in Tasks, task'[t].pc # "idle", task'[t].by = queue[d][i].by
        PROVE  /\ Holds(t, d)' /\ i = Len(queue[d])
               /\ task'[t].answer = "none" /\ task'[t].op = queue[d][i].op
    <3>1. task[t].pc # "idle" /\ task[t].by = queue[d][i].by
      BY <2>2, <2>3, <2>5
    <3>2. QED
      BY <1>1, <2>2, <2>4, <3>1
  <2>6. QED
    BY <1>1, <2>2, <2>3, <2>4, <2>5
<1>4. Threads'
  <2>1. \A w \in Workers : thread[w] \in {"none", "opening"} =>
            /\ queue[w] = << >>
            /\ \A t \in Tasks : ~Holds(t, w)
            /\ \A i \in 1..Len(idle) : idle[i] # w
    BY DEF JobInv, Threads
  <2>2. QED
    BY <1>1, <2>1 DEF Threads
<1>5. Told'
  BY DEF JobInv, Told, At
<1>6. ASSUME NEW w \in Workers, thread'[w] = "running" PROVE ThreadInv(w)'
  <2>1. CASE thread[w] = "running" /\ conn'[w] = conn[w]
    <3>1. \A t \in Tasks : Holds(t, w) => task'[t] = task[t]
      BY DEF Holds
    <3>2. QED
      BY <1>1, <1>6, <2>1, <3>1, Elsewhere DEF JobInv
  <2>2. CASE /\ thread[w] = "opening"
             /\ conn'[w].tx = 0 /\ conn'[w].wrote = {} /\ conn'[w].fk = conn'[w].fk0
    <3>1. queue'[w] = << >> /\ \A t \in Tasks : ~Holds(t, w)'
      BY <1>1, <2>2 DEF JobInv, Threads
    <3>2. \A i : i \notin 1..Len(queue'[w])
      BY <3>1
    <3>3. QED
      BY <2>2, <3>1, <3>2 DEF ThreadInv, TxIsNext, CallByCall, WritesInTx, KeysAsOpened
  <2>3. QED
    BY <1>6, <2>1, <2>2
<1>7. QED
  BY <1>2, <1>3, <1>4, <1>5, <1>6 DEF JobInv, ThreadInv

LEMMA OpenInv ==
    ASSUME PoolInv, JobInv, NEW w \in Workers, Open(w)
    PROVE  JobInv'
<1>1. /\ thread[w] = "opening" /\ thread \in [Workers -> {"none", "opening", "running", "unwinding", "gone"}]
      /\ conn \in [Workers -> Connection] /\ calls \in Nat
      /\ \A d \in Workers : calls < d => thread[d] = "none"
      /\ \A t \in Tasks : task[t].pc = "acquire" => thread[task[t].by] = "none" /\ task[t].by \in Workers
  <2>1. \A t \in Tasks : task[t].pc = "acquire" => task[t].by \in Workers
    BY DEF PoolInv, PoolTypes, Numbered, Workers
  <2>2. QED
    BY <2>1 DEF Open, JobInv, JobTypes, Threads, PoolInv, PoolTypes
<1>2. \A fk \in Configured : /\ FreshConnection(fk) \in Connection
                             /\ FreshConnection(fk).tx = 0 /\ FreshConnection(fk).wrote = {}
                             /\ FreshConnection(fk).fk = FreshConnection(fk).fk0
  BY DEF FreshConnection, Connection
<1>3. PICK c \in Connection : /\ thread' \in {[thread EXCEPT ![w] = "running"], [thread EXCEPT ![w] = "gone"]}
                              /\ conn' \in {conn, [conn EXCEPT ![w] = c]}
                              /\ thread' = [thread EXCEPT ![w] = "running"] => conn' = [conn EXCEPT ![w] = c]
                              /\ c.tx = 0 /\ c.wrote = {} /\ c.fk = c.fk0
  <2>1. CASE thread' = [thread EXCEPT ![w] = "running"]
    <3>1. PICK fk \in Configured : conn' = [conn EXCEPT ![w] = FreshConnection(fk)]
      <4>1. thread'[w] = "running"
        BY <1>1, <2>1
      <4>2. thread' # [thread EXCEPT ![w] = "gone"]
        BY <1>1, <4>1
      <4>3. QED
        BY <4>2 DEF Open
    <3>2. QED
      BY <1>2, <2>1, <3>1
  <2>2. CASE thread' = [thread EXCEPT ![w] = "gone"] /\ conn' = conn
    <3>1. thread'[w] = "gone"
      BY <1>1, <2>2
    <3>2. thread' # [thread EXCEPT ![w] = "running"]
      BY <1>1, <3>1
    <3>3. Closed \in Connection /\ Closed.tx = 0 /\ Closed.wrote = {} /\ Closed.fk = Closed.fk0
      BY DEF Closed, FreshConnection, Connection
    <3>4. QED
      BY <2>2, <3>2, <3>3
  <2>3. QED
    BY <2>1, <2>2 DEF Open
<1>4. UNCHANGED <<queue, asked, committed, acked, idle, task, calls>>
  BY DEF Open
<1>5. /\ thread' \in [Workers -> {"none", "opening", "running", "unwinding", "gone"}]
      /\ conn' \in [Workers -> Connection] /\ thread'[w] \in {"running", "gone"}
      /\ \A d \in Workers \ {w} : thread'[d] = thread[d] /\ conn'[d] = conn[d]
      /\ thread'[w] = "running" => conn'[w].tx = 0 /\ conn'[w].wrote = {} /\ conn'[w].fk = conn'[w].fk0
  BY <1>1, <1>3
<1>6. \A t \in Tasks : task'[t].pc = "acquire" => thread'[task'[t].by] = "none"
  BY <1>1, <1>4, <1>5
<1>7. \A d \in Workers :
              /\ calls' < d => thread'[d] = "none"
              /\ thread'[d] \in {"none", "opening"} => thread[d] \in {"none", "opening"}
              /\ thread'[d] = "running" =>
                    \/ thread[d] = "running" /\ conn'[d] = conn[d]
                    \/ /\ thread[d] = "opening"
                       /\ conn'[d].tx = 0 /\ conn'[d].wrote = {} /\ conn'[d].fk = conn'[d].fk0
  BY <1>1, <1>4, <1>5
<1>8. \A t \in Tasks : /\ task'[t].pc = "wait" <=> task[t].pc = "wait"
                       /\ task[t].pc = "wait" => task'[t] = task[t]
                       /\ task'[t].pc # "idle" =>
                             (task[t].pc # "idle" /\ task'[t].by = task[t].by) \/ task'[t].by > calls
                       /\ task'[t].pc = "acquire" => thread'[task'[t].by] = "none"
  BY <1>4, <1>6
<1>9. calls <= calls' /\ calls' \in Nat
  BY <1>1, <1>4
<1>10. QED
  BY <1>4, <1>5, <1>7, <1>8, <1>9, NobodyWaits

(* A task that leaves before it has its connection.                          *)
LEMMA Leaves ==
    ASSUME PoolInv, JobInv, NEW t \in Tasks, task[t].pc # "wait", task' = [task EXCEPT ![t] = Idle],
           UNCHANGED <<queue, asked, committed, acked, idle, calls, thread, conn>>
    PROVE  JobInv'
<1>1. task \in [Tasks -> Task] /\ Idle.pc = "idle" /\ calls \in Nat
  BY DEF PoolInv, PoolTypes, Idle
<1>2. \A u \in Tasks : /\ task'[u].pc = "wait" <=> task[u].pc = "wait"
                       /\ task[u].pc = "wait" => task'[u] = task[u]
                       /\ task'[u].pc # "idle" =>
                             (task[u].pc # "idle" /\ task'[u].by = task[u].by) \/ task'[u].by > calls
                       /\ task'[u].pc = "acquire" => thread'[task'[u].by] = "none"
  BY <1>1 DEF JobInv, Threads
<1>3. \A w \in Workers :
              /\ calls' < w => thread'[w] = "none"
              /\ thread'[w] \in {"none", "opening"} => thread[w] \in {"none", "opening"}
              /\ thread'[w] = "running" =>
                    \/ thread[w] = "running" /\ conn'[w] = conn[w]
                    \/ /\ thread[w] = "opening"
                       /\ conn'[w].tx = 0 /\ conn'[w].wrote = {} /\ conn'[w].fk = conn'[w].fk0
  BY DEF JobInv, Threads
<1>4. calls <= calls' /\ calls' \in Nat
  BY <1>1
<1>5. QED
  BY <1>2, <1>3, <1>4, NobodyWaits DEF JobInv, JobTypes

LEMMA StartInv ==
    ASSUME PoolInv, JobInv, NEW t \in Tasks, NEW program \in Programs, Start(t, program)
    PROVE  JobInv'
<1>1. /\ task[t].pc = "idle" /\ calls + 1 \in Workers /\ calls \in Nat
      /\ task' \in [Tasks -> Task] /\ task'[t].pc = "acquire" /\ task'[t].by = calls + 1
      /\ \A u \in Tasks \ {t} : task'[u] = task[u]
  BY Started DEF Workers
<1>2. UNCHANGED <<queue, asked, committed, acked, idle, thread, conn>> /\ calls' = calls + 1
  BY DEF Start, workers, database
<1>3. thread[calls + 1] = "none"
  BY <1>1 DEF JobInv, Threads
<1>4. \A u \in Tasks : /\ task'[u].pc = "wait" <=> task[u].pc = "wait"
                       /\ task[u].pc = "wait" => task'[u] = task[u]
                       /\ task'[u].pc # "idle" =>
                             (task[u].pc # "idle" /\ task'[u].by = task[u].by) \/ task'[u].by > calls
                       /\ task'[u].pc = "acquire" => thread'[task'[u].by] = "none"
  BY <1>1, <1>2, <1>3 DEF JobInv, Threads
<1>5. \A w \in Workers :
              /\ calls' < w => thread'[w] = "none"
              /\ thread'[w] \in {"none", "opening"} => thread[w] \in {"none", "opening"}
              /\ thread'[w] = "running" =>
                    \/ thread[w] = "running" /\ conn'[w] = conn[w]
                    \/ /\ thread[w] = "opening"
                       /\ conn'[w].tx = 0 /\ conn'[w].wrote = {} /\ conn'[w].fk = conn'[w].fk0
  BY <1>1, <1>2 DEF JobInv, Threads, Workers
<1>6. calls <= calls' /\ calls' \in Nat
  BY <1>1, <1>2
<1>7. QED
  BY <1>2, <1>4, <1>5, <1>6, NobodyWaits DEF JobInv, JobTypes

LEMMA SpawnInv ==
    ASSUME PoolInv, JobInv, NEW t \in Tasks, Spawn(t)
    PROVE  JobInv'
<1> DEFINE n == task[t].by
<1>1. /\ task[t].pc = "acquire" /\ n \in 1..calls /\ n \in Workers
      /\ task'[t].pc = "spawn" /\ task'[t].by = n
      /\ \A u \in Tasks \ {t} : task'[u] = task[u]
  BY Names DEF Workers
<1>2. /\ UNCHANGED <<queue, asked, committed, acked, idle, calls, conn>>
      /\ thread' = [thread EXCEPT ![n] = "opening"] /\ calls \in Nat
  BY DEF Spawn, database, PoolInv, PoolTypes
<1>3. /\ thread[n] = "none" /\ thread'[n] = "opening" /\ \A w \in Workers \ {n} : thread'[w] = thread[w]
      /\ thread' \in [Workers -> {"none", "opening", "running", "unwinding", "gone"}]
  BY <1>1, <1>2 DEF JobInv, JobTypes, Threads
<1>4. \A u \in Tasks \ {t} : task[u].pc = "acquire" => task[u].by \in Workers \ {n}
  BY <1>1 DEF PoolInv, Numbered, Workers, PoolTypes
<1>5. \A u \in Tasks : /\ task'[u].pc = "wait" <=> task[u].pc = "wait"
                       /\ task[u].pc = "wait" => task'[u] = task[u]
                       /\ task'[u].pc # "idle" =>
                             (task[u].pc # "idle" /\ task'[u].by = task[u].by) \/ task'[u].by > calls
                       /\ task'[u].pc = "acquire" => thread'[task'[u].by] = "none"
  BY <1>1, <1>3, <1>4 DEF JobInv, Threads
<1>6. \A w \in Workers :
              /\ calls' < w => thread'[w] = "none"
              /\ thread'[w] \in {"none", "opening"} => thread[w] \in {"none", "opening"}
              /\ thread'[w] = "running" =>
                    \/ thread[w] = "running" /\ conn'[w] = conn[w]
                    \/ /\ thread[w] = "opening"
                       /\ conn'[w].tx = 0 /\ conn'[w].wrote = {} /\ conn'[w].fk = conn'[w].fk0
  BY <1>1, <1>2, <1>3 DEF JobInv, Threads
<1>7. calls <= calls' /\ calls' \in Nat
  BY <1>2
<1>8. QED
  BY <1>2, <1>3, <1>5, <1>6, <1>7, NobodyWaits DEF JobInv, JobTypes

(* A task waits for its next job, the only one of its call.                  *)
Asks(t, w, op, program) ==
    /\ op \in Ops \ {"done"} /\ program \in {"mutation", "rebuild", "app"} /\ op \in OpsOf(program)
    /\ task[t].pc # "idle" /\ \A u \in Tasks \ {t} : ~Holds(u, w)
    /\ task[t].pc # "wait" \/ (Holds(t, w) /\ task[t].answer # "none")
    /\ thread[w] \notin {"none", "opening"}
    /\ task' = [task EXCEPT ![t] = Waiting(t, program, w, op)] /\ Submit(t, w, op, task[t].by)
    /\ \A i \in 1..Len(idle') : \E k \in 1..Len(idle) : idle'[i] = idle[k]
    /\ UNCHANGED <<calls, acked, committed, thread, conn>>

LEMMA Asked ==
    ASSUME PoolInv, JobInv, NEW w \in Workers, NEW t \in Tasks, NEW op, NEW program,
           Asks(t, w, op, program)
    PROVE  LET b == task[t].by IN
           /\ calls \in Nat /\ b \in 1..calls /\ b \in 1..MaxCalls
           /\ \A u \in Tasks \ {t} : task'[u] = task[u] /\ (task[u].pc # "idle" => task[u].by # b)
           /\ task'[t].pc = "wait" /\ task'[t].program = program /\ task'[t].w = w /\ task'[t].by = b
           /\ task'[t].op = op /\ (task'[t].guard <=> program = "mutation")
           /\ task'[t].answer = IF Accepts(w) THEN "none" ELSE "error"
           /\ Holds(t, w)'
           /\ \A u \in Tasks \ {t}, d \in Workers : Holds(u, d)' <=> Holds(u, d)
           /\ \A u \in Tasks, d \in Workers \ {w} : (Holds(u, d)' <=> Holds(u, d)) /\ (Holds(u, d) => u # t)
           /\ queue[w] \in Seq(Job) /\ Len(queue[w]) \in Nat
           /\ \A d \in Workers \ {w} : queue'[d] = queue[d]
           /\ ~Accepts(w) => queue'[w] = queue[w]
           /\ Accepts(w) =>
                 /\ queue'[w] # << >> /\ Len(queue'[w]) = Len(queue[w]) + 1
                 /\ \A i \in 1..Len(queue[w]) : queue'[w][i] = queue[w][i]
                 /\ queue'[w][Len(queue[w]) + 1].op = op /\ queue'[w][Len(queue[w]) + 1].by = b
           /\ queue' \in [Workers -> Seq(Job)]
           /\ asked' = IF op = "COMMIT" THEN asked \cup {b} ELSE asked
           /\ \A d \in Workers : \A i \in 1..Len(queue[d]) : queue[d][i].by # b
<1> DEFINE q == queue[w]
           b == task[t].by
           j == [op |-> op, by |-> b]
           answer == IF Accepts(w) THEN "none" ELSE "error"
<1>1. /\ task \in [Tasks -> Task] /\ task[t] \in Task /\ calls \in Nat /\ b \in 1..calls /\ b \in 1..MaxCalls
      /\ \A u \in Tasks \ {t} : task[u].pc # "idle" => task[u].by # b
  BY DEF Asks, PoolInv, PoolTypes, Numbered
<1>2. /\ \A u \in Tasks \ {t} : task'[u] = task[u]
      /\ task'[t] = [pc |-> "wait", program |-> program, w |-> w, by |-> b, op |-> op,
                     guard |-> program = "mutation", answer |-> answer]
  BY <1>1 DEF Waiting, Asks
<1>3. /\ task'[t].pc = "wait" /\ task'[t].program = program /\ task'[t].w = w /\ task'[t].by = b
      /\ task'[t].op = op /\ (task'[t].guard <=> program = "mutation") /\ task'[t].answer = answer
  <2> HIDE DEF answer
  <2>1. /\ task'[t].pc = "wait" /\ task'[t].program = program /\ task'[t].w = w /\ task'[t].by = b
        /\ task'[t].op = op /\ task'[t].answer = answer
    BY <1>2
  <2>2. task'[t].guard = (program = "mutation")
    BY <1>2
  <2>3. QED
    BY <2>1, <2>2
<1>4. /\ Holds(t, w)'
      /\ \A u \in Tasks \ {t}, d \in Workers : Holds(u, d)' <=> Holds(u, d)
      /\ \A u \in Tasks, d \in Workers \ {w} : (Holds(u, d)' <=> Holds(u, d)) /\ (Holds(u, d) => u # t)
  BY <1>2, <1>3 DEF Holds, Asks
<1>5. j \in Job /\ j.op = op /\ j.by = b
  BY <1>1 DEF Job, Asks
<1> HIDE DEF j
<1>6. q \in Seq(Job) /\ queue \in [Workers -> Seq(Job)]
  BY DEF JobInv, JobTypes
<1>7. /\ \A d \in Workers \ {w} : queue'[d] = queue[d]
      /\ queue'[w] = IF Accepts(w) THEN Append(q, j) ELSE q
      /\ queue' \in [Workers -> Seq(Job)]
  BY <1>5, <1>6, Appended DEF Asks, Submit, j
<1>8. asked' = IF op = "COMMIT" THEN asked \cup {b} ELSE asked
  BY DEF Asks, Submit
<1>9. \A d \in Workers : \A i \in 1..Len(queue[d]) : queue[d][i].by # b
  BY DEF Asks, JobInv, JobsAwaited, Holds
<1>10. Accepts(w) =>
        /\ queue'[w] # << >> /\ Len(queue'[w]) = Len(q) + 1
        /\ \A i \in 1..Len(q) : queue'[w][i] = q[i]
        /\ queue'[w][Len(q) + 1] = j
  <2>1. SUFFICES ASSUME Accepts(w)
                 PROVE  /\ queue'[w] # << >> /\ Len(queue'[w]) = Len(q) + 1
                        /\ \A i \in 1..Len(q) : queue'[w][i] = q[i]
                        /\ queue'[w][Len(q) + 1] = j
    OBVIOUS
  <2>2. queue'[w] = Append(q, j)
    BY <1>7, <2>1
  <2>3. /\ Append(q, j) # << >> /\ Len(Append(q, j)) = Len(q) + 1
        /\ \A i \in 1..Len(q) : Append(q, j)[i] = q[i]
        /\ Append(q, j)[Len(q) + 1] = j
    BY <1>5, <1>6, Appended
  <2> HIDE DEF q
  <2>4. QED
    BY <2>2, <2>3
<1>11. Len(q) \in Nat
  BY <1>6
<1> HIDE DEF q
<1>12. QED
  BY <1>1, <1>2, <1>3, <1>4, <1>5, <1>6, <1>7, <1>8, <1>9, <1>10, <1>11 DEF q

LEMMA Submitted ==
    ASSUME PoolInv, JobInv, NEW w \in Workers, NEW t \in Tasks, NEW op, NEW program,
           Asks(t, w, op, program), thread[w] = "running" => ThreadInv(w)'
    PROVE  JobInv'
<1> DEFINE q == queue[w]
           b == task[t].by
<1>0. /\ UNCHANGED <<calls, acked, committed, thread, conn>> /\ thread[w] \notin {"none", "opening"}
      /\ op \in OpsOf(program) /\ \A i \in 1..Len(idle') : \E k \in 1..Len(idle) : idle'[i] = idle[k]
  BY DEF Asks
<1>1. /\ calls \in Nat /\ b \in 1..calls /\ b \in 1..MaxCalls
      /\ \A u \in Tasks \ {t} : task[u].pc # "idle" => task[u].by # b
  BY Asked
<1>2. \A u \in Tasks \ {t} : task'[u] = task[u]
  BY Asked
<1>3. /\ task'[t].pc = "wait" /\ task'[t].program = program /\ task'[t].w = w /\ task'[t].by = b
      /\ task'[t].op = op /\ (task'[t].guard <=> program = "mutation")
      /\ task'[t].answer = IF Accepts(w) THEN "none" ELSE "error"
  BY Asked
<1>4. /\ Holds(t, w)'
      /\ \A u \in Tasks \ {t}, d \in Workers : Holds(u, d)' <=> Holds(u, d)
      /\ \A u \in Tasks, d \in Workers \ {w} : (Holds(u, d)' <=> Holds(u, d)) /\ (Holds(u, d) => u # t)
  BY Asked
<1>5. Accepts(w) => /\ Len(queue'[w]) = Len(q) + 1
                    /\ \A i \in 1..Len(q) : queue'[w][i] = q[i]
                    /\ queue'[w][Len(q) + 1].op = op /\ queue'[w][Len(q) + 1].by = b
  BY Asked
<1>6. Len(q) \in Nat
  BY Asked
<1>7. /\ \A d \in Workers \ {w} : queue'[d] = queue[d]
      /\ ~Accepts(w) => queue'[w] = queue[w]
      /\ queue' \in [Workers -> Seq(Job)]
  BY Asked
<1>8. asked' = IF op = "COMMIT" THEN asked \cup {b} ELSE asked
  BY Asked
<1>9. \A d \in Workers : \A i \in 1..Len(queue[d]) : queue[d][i].by # b
  BY Asked
<1>10. JobTypes'
  BY <1>1, <1>7, <1>8 DEF Asks, JobInv, JobTypes
<1>11. JobsAwaited'
  <2>1. SUFFICES ASSUME NEW d \in Workers, NEW i \in 1..Len(queue'[d])
                 PROVE  /\ queue'[d][i].by <= calls'
                        /\ queue'[d][i].op = "COMMIT" => queue'[d][i].by \in asked'
                        /\ queue'[d][i].op \in RebuildOps =>
                              \E u \in Tasks : Holds(u, d)' /\ task'[u].by = queue'[d][i].by
                        /\ \A u \in Tasks : task'[u].pc # "idle" /\ task'[u].by = queue'[d][i].by =>
                              /\ Holds(u, d)' /\ i = Len(queue'[d])
                              /\ task'[u].answer = "none" /\ task'[u].op = queue'[d][i].op
    BY DEF JobsAwaited
  <2>2. CASE i \in 1..Len(queue[d]) /\ queue'[d][i] = queue[d][i]
    <3>1. /\ queue[d][i].by <= calls
          /\ queue[d][i].op = "COMMIT" => queue[d][i].by \in asked
          /\ queue[d][i].op \in RebuildOps => \E u \in Tasks : Holds(u, d) /\ task[u].by = queue[d][i].by
          /\ \A u \in Tasks : task[u].pc # "idle" /\ task[u].by = queue[d][i].by =>
                /\ Holds(u, d) /\ i = Len(queue[d])
                /\ task[u].answer = "none" /\ task[u].op = queue[d][i].op
      BY <2>2 DEF JobInv, JobsAwaited
    <3>2. queue[d][i].by # b
      BY <1>9, <2>2
    <3>3. \A u \in Tasks : Holds(u, d) => d # w \/ u = t
      BY DEF Asks
    <3>4. ASSUME NEW u \in Tasks, task'[u].pc # "idle", task'[u].by = queue[d][i].by
          PROVE  /\ Holds(u, d)' /\ i = Len(queue'[d])
                 /\ task'[u].answer = "none" /\ task'[u].op = queue[d][i].op
      <4>1. u # t
        BY <1>3, <3>2, <3>4
      <4>2. Holds(u, d) /\ i = Len(queue[d]) /\ task[u].answer = "none" /\ task[u].op = queue[d][i].op
        BY <1>2, <3>1, <3>4, <4>1
      <4>3. d # w
        BY <3>3, <4>1, <4>2
      <4>4. QED
        BY <1>2, <1>4, <1>7, <4>1, <4>2, <4>3
    <3>5. queue[d][i].op \in RebuildOps => \E u \in Tasks : Holds(u, d)' /\ task'[u].by = queue[d][i].by
      <4>1. \A u \in Tasks : Holds(u, d) => Holds(u, d)'
        BY <1>4
      <4>2. \A u \in Tasks : task'[u].by = task[u].by
        BY <1>2, <1>3
      <4>3. QED
        BY <3>1, <4>1, <4>2
    <3>6. queue[d][i].op = "COMMIT" => queue[d][i].by \in asked'
      BY <1>8, <3>1
    <3>7. QED
      BY <1>0, <2>2, <3>1, <3>4, <3>5, <3>6
  <2>3. CASE d = w /\ Accepts(w) /\ i = Len(q) + 1
    <3>1. queue'[d][i].op = op /\ queue'[d][i].by = b /\ i = Len(queue'[d])
      BY <1>5, <2>3
    <3>2. b <= calls
      BY <1>1
    <3>3. QED
      <4>1. \A u \in Tasks : task'[u].pc # "idle" /\ task'[u].by = b => u = t
        BY <1>1, <1>2
      <4>2. op = "COMMIT" => b \in asked'
        BY <1>8
      <4>3. task'[t].answer = "none"
        BY <1>3, <2>3
      <4>4. QED
        BY <1>0, <1>3, <1>4, <2>3, <3>1, <3>2, <4>1, <4>2, <4>3
  <2>4. QED
    <3>1. CASE d = w /\ Accepts(w)
      <4>1. Len(q) \in Nat /\ Len(queue'[d]) = Len(q) + 1 /\ \A k \in 1..Len(q) : queue'[d][k] = q[k]
        BY <1>5, <1>6, <3>1
      <4>2. CASE i = Len(q) + 1
        BY <2>3, <3>1, <4>2
      <4>3. CASE i # Len(q) + 1
        <5>1. i \in 1..Len(q)
          BY <4>1, <4>3
        <5>2. QED
          BY <2>2, <3>1, <4>1, <5>1
      <4>4. QED
        BY <4>2, <4>3
    <3>2. CASE d # w \/ ~Accepts(w)
      BY <1>7, <2>2, <3>2
    <3>3. QED
      BY <3>1, <3>2
<1>12. Threads'
  <2>1. \A d \in Workers : thread[d] \in {"none", "opening"} => d # w /\ queue'[d] = queue[d]
    BY <1>0, <1>7
  <2>2. \A u \in Tasks : task'[u].pc = "acquire" => task'[u] = task[u]
    BY <1>2, <1>3
  <2>3. \A d \in Workers : calls < d => thread[d] = "none"
    BY DEF JobInv, Threads
  <2>4. \A d \in Workers : thread[d] \in {"none", "opening"} =>
            /\ queue[d] = << >>
            /\ \A u \in Tasks : ~Holds(u, d)
            /\ \A i \in 1..Len(idle) : idle[i] # d
    BY DEF JobInv, Threads
  <2>5. \A d \in Workers : thread[d] \in {"none", "opening"} =>
            /\ queue'[d] = << >>
            /\ \A u \in Tasks : ~Holds(u, d)'
            /\ \A i \in 1..Len(idle') : idle'[i] # d
    BY <1>0, <1>4, <2>1, <2>4
  <2>6. \A u \in Tasks : task'[u].pc = "acquire" => thread[task'[u].by] = "none"
    BY <2>2 DEF JobInv, Threads
  <2>7. QED
    BY <1>0, <2>3, <2>5, <2>6 DEF Threads
<1>13. Told'
  <2>1. task'[t].answer # "ok"
    BY <1>3
  <2>2. QED
    BY <1>0, <1>2, <1>3, <1>8, <2>1 DEF JobInv, Told, At
<1>14. ASSUME NEW d \in Workers PROVE ThreadInv(d)'
  <2>1. CASE d = w
    BY <1>0, <2>1 DEF ThreadInv
  <2>2. CASE d # w
    BY <1>0, <1>2, <1>4, <1>7, <2>2, Elsewhere DEF JobInv
  <2>3. QED
    BY <2>1, <2>2
<1>15. QED
  BY <1>10, <1>11, <1>12, <1>13, <1>14 DEF JobInv

(* A call's first job, on a connection nobody holds.                         *)
LEMMA First ==
    ASSUME PoolInv, JobInv, NEW w \in Workers, NEW t \in Tasks, NEW op, NEW program,
           Asks(t, w, op, program), task[t].pc # "wait", op = FirstOp(program),
           thread[w] = "running"
    PROVE  ThreadInv(w)'
<1> DEFINE q == queue[w]
           b == task[t].by
           n == Len(queue[w])
<1>1. /\ TxIsNext(w) /\ CallByCall(w) /\ WritesInTx(w) /\ KeysAsOpened(w)
      /\ \A u \in Tasks : ~Holds(u, w)
      /\ UNCHANGED <<thread, conn>> /\ Accepts(w) /\ program \in {"mutation", "rebuild", "app"}
  BY DEF JobInv, ThreadInv, Asks, Holds, Accepts
<1>2. op = FirstOp(program) /\ op \in {"BEGIN", "ASK", "APP"} /\ (op = "BEGIN" <=> program = "mutation")
      /\ (op = "APP" <=> program = "app")
  BY <1>1 DEF FirstOp
<1>3. /\ task'[t].pc = "wait" /\ task'[t].program = program /\ task'[t].by = b
      /\ task'[t].op = op /\ task'[t].answer = "none" /\ Holds(t, w)' /\ b \in Nat \ {0}
      /\ \A u \in Tasks : Holds(u, w)' => u = t
  BY <1>1, Asked
<1>4. /\ q \in Seq(Job) /\ n \in Nat /\ queue'[w] # << >> /\ Len(queue'[w]) = n + 1
      /\ \A i \in 1..n : queue'[w][i] = q[i] /\ q[i].by # b
      /\ queue'[w][n + 1].op = op /\ queue'[w][n + 1].by = b
  BY <1>1, Asked
<1>5. n = 0 <=> q = << >>
  BY <1>4, Emptied
<1> HIDE DEF n
<1>6. /\ n = 0 => conn[w].tx = 0
      /\ conn[w].tx # 0 => 1 \in 1..n /\ queue'[w][1] = q[1] /\ q[1].by = conn[w].tx /\ q[1].op # "APP"
  BY <1>1, <1>4, <1>5 DEF TxIsNext
<1>7. TxIsNext(w)'
  BY <1>1, <1>4, <1>6 DEF TxIsNext
<1>8. CallByCall(w)'
  <2>1. SUFFICES ASSUME NEW i \in 1..(n + 1)
                 PROVE  IF i = n + 1
                        THEN Ends(queue'[w][i]) \/ \E u \in Tasks : Holds(u, w)' /\ task'[u].by = queue'[w][i].by
                        ELSE IF Ends(queue'[w][i]) THEN queue'[w][i].by # queue'[w][i + 1].by
                             ELSE queue'[w][i].by = queue'[w][i + 1].by /\ queue'[w][i + 1].op # "APP"
    BY <1>4 DEF CallByCall, Ends
  <2>2. CASE i = n + 1
    BY <1>3, <1>4, <2>2
  <2>3. CASE i # n + 1
    <3>1. i \in 1..n /\ queue'[w][i] = q[i] /\ q[i].by # b
      BY <1>4, <2>3
    <3>2. IF i = n
          THEN Ends(q[i]) \/ \E u \in Tasks : Holds(u, w) /\ task[u].by = q[i].by
          ELSE IF Ends(q[i]) THEN q[i].by # q[i + 1].by
               ELSE q[i].by = q[i + 1].by /\ q[i + 1].op # "APP"
      BY <1>1, <3>1 DEF CallByCall, n
    <3>3. CASE i = n
      BY <1>1, <1>4, <2>3, <3>1, <3>2, <3>3
    <3>4. CASE i # n
      <4>1. queue'[w][i + 1] = q[i + 1]
        <5>1. i + 1 \in 1..n
          BY <1>4, <3>1, <3>4
        <5>2. QED
          BY <1>4, <5>1
      <4>2. QED
        BY <2>3, <3>1, <3>2, <3>4, <4>1
    <3>5. QED
      BY <3>3, <3>4
  <2>4. QED
    BY <2>2, <2>3
<1>9. WritesInTx(w)'
  <2>1. \A i \in 1..n : q[i].op \in {"WRITE", "REBUILD"} => i = 1 /\ conn[w].tx = q[i].by
    BY <1>1 DEF WritesInTx, n
  <2>2. \A i \in 1..(n + 1) : queue'[w][i].op \in {"WRITE", "REBUILD"} => i = 1 /\ conn[w].tx = queue'[w][i].by
    BY <1>2, <1>4, <2>1
  <2>3. QED
    BY <1>1, <1>4, <2>2 DEF WritesInTx
<1>10. KeysAsOpened(w)' /\ (Sure => conn[w].fk = conn[w].fk0)
  BY <1>1 DEF KeysAsOpened
<1>11. Knows(t, w)'
  <2>1. Behind(t)' /\ At(t)' = <<op, "none">>
    BY <1>2, <1>3 DEF Behind, At
  <2>2. At(t)' \notin Inside
    BY <1>2, <2>1 DEF Inside
  <2>3. conn[w].tx # b
    BY <1>3, <1>4, <1>6
  <2>4. QED
    BY <1>1, <1>2, <1>3, <1>10, <2>1, <2>2, <2>3 DEF Knows
<1>12. QED
  BY <1>1, <1>3, <1>7, <1>8, <1>9, <1>10, <1>11 DEF ThreadInv

(* A task that waits is the only holder of a worker that has started.        *)
LEMMA Holding ==
    ASSUME PoolInv, JobInv, NEW t \in Tasks, task[t].pc = "wait"
    PROVE  LET w == task[t].w IN
           /\ w \in Workers /\ Holds(t, w) /\ thread[w] \notin {"none", "opening"}
           /\ \A u \in Tasks \ {t} : ~Holds(u, w)
           /\ task[t].program \in {"mutation", "rebuild", "app"} /\ task[t].op \in OpsOf(task[t].program)
           /\ task[t].answer \in {"none", "ok", "no", "error"}
           /\ task[t].by \in 1..calls /\ task[t].by \in 1..MaxCalls
           /\ task[t].guard <=> task[t].program = "mutation"
<1> DEFINE w == task[t].w
<1>1. t \in Holders /\ w \in Workers /\ Holds(t, w) /\ task[t].by \in 1..calls /\ task[t].by \in 1..MaxCalls
  BY DEF Holders, Holds, Workers, PoolInv, PoolTypes, Numbered
<1>2. thread[w] \notin {"none", "opening"}
  BY <1>1 DEF JobInv, Threads
<1>3. \A u \in Tasks \ {t} : ~Holds(u, w)
  BY <1>1, OneHolder DEF Holds, Holders
<1>4. task[t].op \in OpsOf(task[t].program) /\ (task[t].guard <=> task[t].program = "mutation")
  BY DEF JobInv, Told
<1>5. task[t].program \in {"mutation", "rebuild", "app"} /\ task[t].answer \in {"none", "ok", "no", "error"}
  BY DEF PoolInv, PoolTypes, Task
<1>6. QED
  BY <1>1, <1>2, <1>3, <1>4, <1>5

(* What a call knows that has its answer: nothing else is queued.            *)
LEMMA Replied ==
    ASSUME PoolInv, JobInv, NEW t \in Tasks, task[t].pc = "wait", task[t].answer # "none",
           thread[task[t].w] = "running"
    PROVE  LET w == task[t].w IN
           /\ queue[w] = << >> /\ conn[w].tx \in {0, task[t].by} /\ task[t].by # 0
           /\ Knows(t, w) /\ WritesInTx(w) /\ KeysAsOpened(w)
<1> DEFINE w == task[t].w
<1>1. w \in Workers /\ Holds(t, w) /\ task[t].by \in 1..MaxCalls
  BY Holding
<1>2. Knows(t, w) /\ WritesInTx(w) /\ KeysAsOpened(w)
  BY <1>1 DEF JobInv, ThreadInv
<1>3. ~Behind(t)
  BY DEF Behind
<1>4. conn[w].tx \in {0, task[t].by} /\ \A i \in 1..Len(queue[w]) : queue[w][i].by = task[t].by
  BY <1>2, <1>3 DEF Knows
<1>5. \A i \in 1..Len(queue[w]) : queue[w][i].by # task[t].by
  BY <1>1 DEF JobInv, JobsAwaited
<1>6. queue[w] = << >>
  <2>1. queue[w] \in Seq(Job)
    BY <1>1 DEF JobInv, JobTypes
  <2>2. Len(queue[w]) \in Nat /\ (queue[w] = << >> <=> Len(queue[w]) = 0)
    BY <2>1, Emptied
  <2>3. Len(queue[w]) # 0 => 1 \in 1..Len(queue[w])
    BY <2>2
  <2>4. QED
    BY <1>4, <1>5, <2>2, <2>3
<1>7. QED
  BY <1>1, <1>2, <1>4, <1>6

(* What a job may follow, and what is known of the transaction between them. *)
LEMMA Follows ==
    ASSUME NEW op, NEW a, NEW o, <<op, a, o>> \in AfterMutation \cup AfterRebuild
    PROVE  /\ IF <<o, "none">> \in Inside THEN <<op, a>> \in Inside
                                          ELSE <<o, "none">> \in Perhaps \/ <<op, a>> \notin Inside \cup Perhaps
           /\ o \in {"WRITE", "REBUILD"} => <<op, a>> \in Inside
           /\ o \notin {"APP", "ASK"} /\ (op = "ASK" => a = "ok") /\ a # "none"
           /\ <<op, a, o>> \in AfterMutation =>
                 o # "BEGIN" /\ (o = "COMMIT" => <<op, a>> = <<"WRITE", "ok">>)
<1>1. CASE <<op, a, o>> \in AfterMutation
  <2>1. (op = "BEGIN" /\ a = "ok" /\ o = "WRITE") \/ (op = "WRITE" /\ a = "ok" /\ o = "COMMIT")
    BY <1>1 DEF AfterMutation
  <2>2. QED
    BY <2>1 DEF Inside, Perhaps
<1>2. CASE <<op, a, o>> \in AfterRebuild
  <2>1. \/ op = "ASK" /\ a = "ok" /\ o = "OFF"
        \/ op = "OFF" /\ a = "ok" /\ o = "BEGIN"
        \/ op = "BEGIN" /\ a = "ok" /\ o = "REBUILD"
        \/ op = "BEGIN" /\ a = "error" /\ o = "ON"
        \/ op = "REBUILD" /\ a = "ok" /\ o = "CHECK"
        \/ op = "REBUILD" /\ a = "error" /\ o = "ROLLBACK"
        \/ op = "CHECK" /\ a = "ok" /\ o = "COMMIT"
        \/ op = "CHECK" /\ a = "error" /\ o = "ABANDON"
        \/ op = "COMMIT" /\ a = "ok" /\ o = "ON"
        \/ op = "COMMIT" /\ a = "error" /\ o = "ABANDON"
        \/ op = "ROLLBACK" /\ a = "ok" /\ o = "ON"
        \/ op = "ABANDON" /\ a \in {"ok", "error"} /\ o = "ON"
    BY <1>2 DEF AfterRebuild
  <2>2. <<op, a, o>> \notin AfterMutation
    BY <2>1 DEF AfterMutation
  <2>3. QED
    BY <2>1, <2>2 DEF Inside, Perhaps
<1>3. QED
  BY <1>1, <1>2

(* A call's further jobs, one at a time.                                     *)
LEMMA Further ==
    ASSUME PoolInv, JobInv, NEW t \in Tasks, task[t].pc = "wait", NEW op, NEW program,
           NEW w, w = task[t].w, Asks(t, w, op, program), thread[w] = "running",
           \/ program = "mutation" /\ op = "BEGIN" /\ At(t) = <<"ASK", "no">>
           \/ /\ program = task[t].program /\ program \in {"mutation", "rebuild"}
              /\ <<task[t].op, task[t].answer, op>> \in After(program)
    PROVE  ThreadInv(w)'
<1> DEFINE b == task[t].by
<1>1. /\ w \in Workers /\ Holds(t, w) /\ \A u \in Tasks \ {t} : ~Holds(u, w)
      /\ task[t].answer # "none" /\ UNCHANGED <<thread, conn>> /\ Accepts(w)
  BY Holding DEF Asks, Accepts
<1>2. /\ queue[w] = << >> /\ conn[w].tx \in {0, b} /\ b # 0
      /\ Knows(t, w) /\ WritesInTx(w) /\ KeysAsOpened(w)
  BY <1>1, Replied
<1>3. /\ task'[t].pc = "wait" /\ task'[t].program = program /\ task'[t].by = b
      /\ task'[t].op = op /\ task'[t].answer = "none" /\ Holds(t, w)'
      /\ \A u \in Tasks : Holds(u, w)' => u = t
  BY <1>1, Asked
<1>4. Len(queue'[w]) = 1 /\ queue'[w] # << >> /\ queue'[w][1].op = op /\ queue'[w][1].by = b
  <2>1. /\ Len(queue'[w]) = Len(queue[w]) + 1 /\ queue'[w] # << >>
        /\ queue'[w][Len(queue[w]) + 1].op = op /\ queue'[w][Len(queue[w]) + 1].by = b
    BY <1>1, Asked
  <2>2. Len(queue[w]) = 0
    BY <1>2
  <2>3. QED
    BY <2>1, <2>2
<1>5. \A i \in 1..Len(queue'[w]) : i = 1
  BY <1>4
<1>6. /\ IF <<op, "none">> \in Inside THEN conn[w].tx = b
         ELSE <<op, "none">> \in Perhaps \/ conn[w].tx # b
      /\ op \in {"WRITE", "REBUILD"} => conn[w].tx = b
      /\ op \notin {"APP", "ASK"}
      /\ op = "COMMIT" /\ program = "mutation" => b \in conn[w].wrote
      /\ program = "rebuild" /\ Sure => conn[w].fk0
      /\ Sure /\ conn[w].fk # conn[w].fk0 => program = "rebuild"
  <2>1. Sure /\ conn[w].fk # conn[w].fk0 => task[t].program = "rebuild"
    BY <1>1, <1>2 DEF KeysAsOpened
  <2>2. CASE program = "mutation" /\ op = "BEGIN" /\ At(t) = <<"ASK", "no">>
    <3>1. <<op, "none">> \notin Inside /\ At(t) \notin Inside \cup Perhaps
      BY <2>2 DEF Inside, Perhaps
    <3>2. QED
      BY <1>2, <2>2, <3>1 DEF Knows
  <2>3. CASE /\ program = task[t].program /\ program \in {"mutation", "rebuild"}
             /\ <<task[t].op, task[t].answer, op>> \in After(program)
    <3>1. /\ <<task[t].op, task[t].answer, op>> \in AfterMutation \cup AfterRebuild
          /\ program = "mutation" => <<task[t].op, task[t].answer, op>> \in AfterMutation
      BY <2>3 DEF After
    <3>2. /\ IF <<op, "none">> \in Inside THEN At(t) \in Inside
                                          ELSE <<op, "none">> \in Perhaps \/ At(t) \notin Inside \cup Perhaps
          /\ op \in {"WRITE", "REBUILD"} => At(t) \in Inside
          /\ op \notin {"APP", "ASK"} /\ (task[t].op = "ASK" => task[t].answer = "ok")
          /\ program = "mutation" => op # "BEGIN" /\ (op = "COMMIT" => At(t) = <<"WRITE", "ok">>)
      BY <3>1, Follows DEF At
    <3>3. At(t) \in Inside => conn[w].tx = b
      BY <1>2 DEF Knows
    <3>4. At(t) \notin Inside \cup Perhaps => conn[w].tx # b
      BY <1>2 DEF Knows
    <3>5. At(t) = <<"WRITE", "ok">> /\ program = "mutation" => b \in conn[w].wrote
      BY <1>2, <2>3 DEF Knows
    <3>6. program = "rebuild" /\ Sure => conn[w].fk0
      BY <1>2, <2>3, <3>2 DEF Knows, At
    <3>7. QED
      BY <2>1, <2>3, <3>2, <3>3, <3>4, <3>5, <3>6
  <2>4. QED
    BY <2>2, <2>3
<1>7. TxIsNext(w)'
  BY <1>1, <1>2, <1>4, <1>6 DEF TxIsNext
<1>8. CallByCall(w)'
  BY <1>3, <1>4, <1>5 DEF CallByCall
<1>9. WritesInTx(w)'
  BY <1>1, <1>2, <1>4, <1>5, <1>6 DEF WritesInTx
<1>10. KeysAsOpened(w)'
  BY <1>1, <1>3, <1>6 DEF KeysAsOpened
<1>11. Knows(t, w)'
  <2>1. At(t)' = <<op, "none">> /\ op # "ASK"
    BY <1>3, <1>6 DEF At
  <2>2. \A i \in 1..Len(queue'[w]) : queue'[w][i].by = b
    BY <1>4, <1>5
  <2>3. QED
    BY <1>1, <1>2, <1>3, <1>6, <2>1, <2>2 DEF Knows
<1>12. QED
  BY <1>1, <1>3, <1>7, <1>8, <1>9, <1>10, <1>11 DEF ThreadInv

LEMMA FollowerOps ==
    ASSUME NEW p \in {"mutation", "rebuild", "app"}, NEW op, NEW a, NEW o, <<op, a, o>> \in After(p)
    PROVE  p \in {"mutation", "rebuild"} /\ o \in Ops \ {"done"} /\ o \in OpsOf(p)
<1>1. CASE p = "mutation"
  <2>1. o \in {"WRITE", "COMMIT"}
    BY <1>1 DEF After, AfterMutation
  <2>2. QED
    BY <1>1, <2>1 DEF Ops, OpsOf
<1>2. CASE p = "rebuild"
  <2>1. o \in {"OFF", "BEGIN", "REBUILD", "ON", "CHECK", "ROLLBACK", "COMMIT", "ABANDON"}
    BY <1>2 DEF After, AfterRebuild
  <2>2. QED
    BY <1>2, <2>1 DEF Ops, OpsOf
<1>3. CASE p = "app"
  BY <1>3 DEF After
<1>4. QED
  BY <1>1, <1>2, <1>3

LEMMA TakeIdleInv ==
    ASSUME PoolInv, JobInv, NEW t \in Tasks, TakeIdle(t)
    PROVE  JobInv'
<1>0. PICK w, program, op : w = idle[Len(idle)] /\ program = task[t].program /\ op = FirstOp(program)
  OBVIOUS
<1> DEFINE n == Len(idle)
<1>1. /\ n \in Nat \ {0} /\ w \in Workers /\ idle \in Seq(Workers) /\ idle' = SubSeq(idle, 1, n - 1)
      /\ program \in {"mutation", "rebuild", "app"} /\ task[t].pc = "acquire"
      /\ task' = [task EXCEPT ![t] = Waiting(t, program, w, op)] /\ Submit(t, w, op, task[t].by)
      /\ UNCHANGED <<calls, acked, committed, thread, conn>>
  BY <1>0 DEF TakeIdle, PoolInv, PoolTypes, Task, database
<1>2. op \in Ops \ {"done"} /\ op \in OpsOf(program)
  BY <1>0, <1>1 DEF FirstOp, Ops, OpsOf
<1>3. \A u \in Tasks : ~Holds(u, w)
  <2>1. n \in 1..Len(idle)
    BY <1>1
  <2>2. QED
    BY <1>0, <2>1 DEF PoolInv, ConnectionsBounded, Holders, Holds
<1>4. thread[w] \notin {"none", "opening"}
  <2>1. n \in 1..Len(idle)
    BY <1>1
  <2>2. QED
    BY <1>0, <1>1, <2>1 DEF JobInv, Threads
<1>5. \A i \in 1..Len(idle') : \E k \in 1..Len(idle) : idle'[i] = idle[k]
  <2> HIDE DEF n
  <2>1. idle \in Seq(Workers) /\ n = Len(idle)
    BY <1>1 DEF n
  <2>2. \A i \in 1..(n - 1) : idle[i] \in Workers
    BY <1>1, <2>1, ElementOfSeq
  <2>3. Len(idle') = n - 1 /\ \A i \in 1..(n - 1) : idle'[i] = idle[i]
    BY <1>1, <2>1, <2>2, SubSeqProperties
  <2>4. QED
    BY <1>1, <2>1, <2>3
<1>6. Asks(t, w, op, program)
  BY <1>1, <1>2, <1>3, <1>4, <1>5 DEF Asks
<1>7. thread[w] = "running" => ThreadInv(w)'
  <2>1. task[t].pc # "wait"
    BY <1>1
  <2>2. QED
    BY <1>0, <1>1, <1>6, <2>1, First
<1>8. QED
  BY <1>1, <1>6, <1>7, Submitted

LEMMA SpawnedInv ==
    ASSUME PoolInv, JobInv, NEW t \in Tasks, Spawned(t)
    PROVE  JobInv'
<1>0. PICK w, program, op : w = task[t].w /\ program = task[t].program /\ op = FirstOp(program)
  OBVIOUS
<1>1. /\ t \in Holders /\ w \in Workers /\ program \in {"mutation", "rebuild", "app"}
      /\ task[t].pc = "spawn" /\ UNCHANGED <<idle, calls, acked, committed, thread, conn>>
  BY <1>0 DEF Spawned, Holders, PoolInv, PoolTypes, Numbered, Task, Workers, database
<1>2. CASE /\ thread[w] = "running" /\ Submit(t, w, op, task[t].by)
           /\ task' = [task EXCEPT ![t] = Waiting(t, program, w, op)]
  <2>1. op \in Ops \ {"done"} /\ op \in OpsOf(program)
    BY <1>0, <1>1 DEF FirstOp, Ops, OpsOf
  <2>2. \A u \in Tasks \ {t} : ~Holds(u, w)
    BY <1>0, <1>1 DEF PoolInv, ConnectionsBounded, Holders, Holds
  <2>3. Asks(t, w, op, program)
    BY <1>1, <1>2, <2>1, <2>2 DEF Asks
  <2>4. ThreadInv(w)'
    <3>1. task[t].pc # "wait"
      BY <1>1
    <3>2. QED
      BY <1>0, <1>1, <1>2, <2>3, <3>1, First
  <2>5. QED
    BY <1>1, <2>3, <2>4, Submitted
<1>3. CASE task' = [task EXCEPT ![t] = Idle] /\ UNCHANGED <<queue, asked>>
  BY <1>1, <1>3, Leaves
<1>4. QED
  BY <1>0, <1>2, <1>3, Zenon DEF Spawned

LEMMA ContinueInv ==
    ASSUME PoolInv, JobInv, NEW t \in Tasks, Continue(t)
    PROVE  JobInv'
<1>0. PICK w : w = task[t].w
  OBVIOUS
<1> DEFINE p == task[t].program
           after == NextOp(p, task[t].op, task[t].answer)
<1>1. /\ task[t].pc = "wait" /\ task[t].answer # "none"
      /\ UNCHANGED <<idle, calls, acked, committed, thread, conn>>
  BY DEF Continue, database
<1>2. /\ w \in Workers /\ Holds(t, w) /\ thread[w] \notin {"none", "opening"}
      /\ p \in {"mutation", "rebuild", "app"} /\ task[t].op \in OpsOf(p)
      /\ \A u \in Tasks \ {t} : ~Holds(u, w)
  BY <1>0, <1>1, Holding
<1>3. PICK program, op :
        /\ op \in Ops \ {"done"} /\ program \in {"mutation", "rebuild", "app"} /\ op \in OpsOf(program)
        /\ task' = [task EXCEPT ![t] = Waiting(t, program, w, op)] /\ Submit(t, w, op, task[t].by)
        /\ \/ program = "mutation" /\ op = "BEGIN" /\ At(t) = <<"ASK", "no">>
           \/ /\ program = p /\ program \in {"mutation", "rebuild"}
              /\ <<task[t].op, task[t].answer, op>> \in After(program)
  <2>1. CASE task[t].op = "ASK" /\ task[t].answer = "no"
    <3>1. task' = [task EXCEPT ![t] = Waiting(t, "mutation", w, "BEGIN")] /\ Submit(t, w, "BEGIN", task[t].by)
      BY <1>0, <2>1, Zenon DEF Continue
    <3>2. "BEGIN" \in Ops \ {"done"} /\ "BEGIN" \in OpsOf("mutation") /\ At(t) = <<"ASK", "no">>
      BY <2>1 DEF Ops, OpsOf, At
    <3>3. QED
      BY <3>1, <3>2
  <2>2. CASE ~ (task[t].op = "ASK" /\ task[t].answer = "no")
    <3>1. /\ task' = [task EXCEPT ![t] = Waiting(t, p, w, after)] /\ Submit(t, w, after, task[t].by)
          /\ after # "done"
      BY <1>0, <2>2, Zenon DEF Continue
    <3> HIDE DEF after
    <3>2. <<task[t].op, task[t].answer, after>> \in After(p)
      BY <1>2, <3>1, NextIsAfter DEF after
    <3>3. p \in {"mutation", "rebuild"} /\ after \in Ops \ {"done"} /\ after \in OpsOf(p)
      BY <1>2, <3>2, FollowerOps
    <3>4. QED
      BY <1>2, <3>1, <3>2, <3>3
  <2>3. QED
    BY <2>1, <2>2
<1>4. Asks(t, w, op, program)
  BY <1>1, <1>2, <1>3 DEF Asks
<1>5. thread[w] = "running" => ThreadInv(w)'
  BY <1>0, <1>1, <1>3, <1>4, Further
<1>6. QED
  BY <1>2, <1>4, <1>5, Submitted

(* A call gives its worker up: a dropped transaction leaves its rollback.    *)
LEMMA Released ==
    ASSUME PoolInv, JobInv, NEW t \in Tasks, task[t].pc = "wait", NEW w, w = task[t].w,
           task' = [task EXCEPT ![t] = Idle], Release(task[t]),
           UNCHANGED <<calls, asked, committed, thread, conn>>, acked' \subseteq committed,
           \A i \in 1..Len(queue[w]) : queue[w][i].by = task[t].by => queue[w][i].op \notin RebuildOps,
           thread[w] = "running" /\ task[t].program = "rebuild" =>
                queue[w] = << >> /\ conn[w].tx = 0 /\ (Sure => conn[w].fk = conn[w].fk0)
    PROVE  JobInv'
<1> DEFINE q == queue[w]
           n == Len(queue[w])
           b == task[t].by
           j == [op |-> "DROP", by |-> task[t].by]
           drops == task[t].program = "mutation" /\ Accepts(w)
<1>1. /\ w \in Workers /\ Holds(t, w) /\ thread[w] \notin {"none", "opening"}
      /\ \A u \in Tasks \ {t} : ~Holds(u, w)
      /\ task[t].program \in {"mutation", "rebuild", "app"} /\ task[t].op \in OpsOf(task[t].program)
      /\ b \in 1..calls /\ b \in 1..MaxCalls /\ (task[t].guard <=> task[t].program = "mutation")
  BY Holding
<1>2. /\ task'[t] = Idle /\ Idle.pc = "idle" /\ \A u \in Tasks \ {t} : task'[u] = task[u]
      /\ \A u \in Tasks \ {t} : task[u].pc # "idle" => task[u].by # b
      /\ calls \in Nat
  BY DEF PoolInv, PoolTypes, Numbered, Idle
<1>3. \A u \in Tasks, d \in Workers : Holds(u, d)' <=> u # t /\ Holds(u, d)
  BY <1>2 DEF Holds
<1>4. j \in Job /\ j.op = "DROP" /\ j.by = b
  BY <1>1 DEF Job
<1> HIDE DEF j
<1>5. q \in Seq(Job) /\ n \in Nat /\ queue \in [Workers -> Seq(Job)] /\ (n = 0 <=> q = << >>)
  <2>1. q \in Seq(Job) /\ queue \in [Workers -> Seq(Job)]
    BY <1>1 DEF JobInv, JobTypes
  <2>2. QED
    BY <2>1, Emptied
<1>6. queue' = IF drops THEN [queue EXCEPT ![w] = Append(@, j)] ELSE queue
  BY <1>1 DEF Release, DropJobs, j
<1>7. /\ \A d \in Workers \ {w} : queue'[d] = queue[d]
      /\ queue'[w] = IF drops THEN Append(q, j) ELSE q
      /\ queue' \in [Workers -> Seq(Job)]
  BY <1>1, <1>4, <1>5, <1>6, Appended
<1>8. drops =>
        /\ queue'[w] # << >> /\ Len(queue'[w]) = n + 1
        /\ \A i \in 1..n : queue'[w][i] = q[i]
        /\ queue'[w][n + 1] = j
  <2>1. SUFFICES ASSUME drops
                 PROVE  /\ queue'[w] # << >> /\ Len(queue'[w]) = n + 1
                        /\ \A i \in 1..n : queue'[w][i] = q[i]
                        /\ queue'[w][n + 1] = j
    OBVIOUS
  <2>2. queue'[w] = Append(q, j)
    BY <1>7, <2>1
  <2>3. /\ Append(q, j) # << >> /\ Len(Append(q, j)) = Len(q) + 1
        /\ \A i \in 1..Len(q) : Append(q, j)[i] = q[i]
        /\ Append(q, j)[Len(q) + 1] = j
    BY <1>4, <1>5, Appended
  <2> HIDE DEF q
  <2>4. n = Len(q)
    BY DEF q
  <2> HIDE DEF n
  <2>5. QED
    BY <2>2, <2>3, <2>4
<1>9. \A d \in Workers : thread[d] \in {"none", "opening"} => \A i \in 1..Len(idle') : idle'[i] # d
  <2>1. \A d \in Workers : thread[d] \in {"none", "opening"} => \A i \in 1..Len(idle) : idle[i] # d
    BY DEF JobInv, Threads
  <2>2. idle \in Seq(Workers)
    BY DEF PoolInv, PoolTypes
  <2>3. CASE IsAlive(w) /\ idle' = Append(idle, w)
    <3>1. \A i \in 1..Len(idle') : idle'[i] = w \/ (i \in 1..Len(idle) /\ idle'[i] = idle[i])
      <4>1. Len(Append(idle, w)) = Len(idle) + 1 /\ Append(idle, w)[Len(idle) + 1] = w
            /\ \A i \in 1..Len(idle) : Append(idle, w)[i] = idle[i]
        BY <1>1, <2>2, AppendProperties
      <4>2. Len(idle) \in Nat
        BY <2>2
      <4>3. QED
        BY <2>3, <4>1, <4>2
    <3>2. QED
      BY <1>1, <2>1, <3>1
  <2>4. CASE idle' = idle
    BY <2>1, <2>4
  <2>5. QED
    BY <2>3, <2>4 DEF Release
<1>10. JobTypes'
  BY <1>7 DEF JobInv, JobTypes
<1>11. JobsAwaited'
  <2>1. SUFFICES ASSUME NEW d \in Workers, NEW i \in 1..Len(queue'[d])
                 PROVE  /\ queue'[d][i].by <= calls
                        /\ queue'[d][i].op = "COMMIT" => queue'[d][i].by \in asked
                        /\ queue'[d][i].op \in RebuildOps =>
                              \E u \in Tasks : Holds(u, d)' /\ task'[u].by = queue'[d][i].by
                        /\ \A u \in Tasks : task'[u].pc # "idle" /\ task'[u].by = queue'[d][i].by =>
                              /\ Holds(u, d)' /\ i = Len(queue'[d])
                              /\ task'[u].answer = "none" /\ task'[u].op = queue'[d][i].op
    BY DEF JobsAwaited
  <2>2. CASE i \in 1..Len(queue[d]) /\ queue'[d][i] = queue[d][i]
    <3>1. /\ queue[d][i].by <= calls
          /\ queue[d][i].op = "COMMIT" => queue[d][i].by \in asked
          /\ queue[d][i].op \in RebuildOps => \E u \in Tasks : Holds(u, d) /\ task[u].by = queue[d][i].by
          /\ \A u \in Tasks : task[u].pc # "idle" /\ task[u].by = queue[d][i].by =>
                /\ Holds(u, d) /\ i = Len(queue[d])
                /\ task[u].answer = "none" /\ task[u].op = queue[d][i].op
      BY <2>2 DEF JobInv, JobsAwaited
    <3>2. ASSUME NEW u \in Tasks, task'[u].pc # "idle", task'[u].by = queue[d][i].by
          PROVE  /\ Holds(u, d)' /\ i = Len(queue'[d])
                 /\ task'[u].answer = "none" /\ task'[u].op = queue[d][i].op
      <4>1. u # t /\ task'[u] = task[u]
        BY <1>2, <3>2
      <4>2. Holds(u, d) /\ i = Len(queue[d]) /\ task[u].answer = "none" /\ task[u].op = queue[d][i].op
        BY <3>1, <3>2, <4>1
      <4>3. d # w
        BY <1>1, <4>1, <4>2
      <4>4. QED
        BY <1>3, <1>7, <4>1, <4>2, <4>3
    <3>3. ASSUME queue[d][i].op \in RebuildOps
          PROVE  \E u \in Tasks : Holds(u, d)' /\ task'[u].by = queue[d][i].by
      <4>1. PICK u \in Tasks : Holds(u, d) /\ task[u].by = queue[d][i].by
        BY <3>1, <3>3
      <4>2. u # t
        <5>1. SUFFICES ASSUME u = t PROVE FALSE
          OBVIOUS
        <5>2. d = w
          BY <4>1, <5>1 DEF Holds
        <5>3. QED
          BY <2>2, <3>3, <4>1, <5>1, <5>2
      <4>3. QED
        BY <1>2, <1>3, <4>1, <4>2
    <3>4. QED
      BY <2>2, <3>1, <3>2, <3>3
  <2>3. CASE d = w /\ drops /\ i = n + 1
    <3>1. queue'[d][i].op = "DROP" /\ queue'[d][i].by = b
      BY <1>4, <1>8, <2>3
    <3>2. b <= calls
      BY <1>1
    <3>3. \A u \in Tasks : task'[u].pc # "idle" => task'[u].by # b
      BY <1>2
    <3>4. QED
      BY <3>1, <3>2, <3>3 DEF RebuildOps
  <2>4. QED
    <3>1. CASE d = w /\ drops
      <4>1. CASE i = n + 1
        BY <2>3, <3>1, <4>1
      <4>2. CASE i # n + 1
        <5>1. i \in 1..n
          BY <1>5, <1>8, <3>1, <4>2
        <5>2. QED
          BY <1>8, <2>2, <3>1, <5>1
      <4>3. QED
        BY <4>1, <4>2
    <3>2. CASE d # w \/ ~drops
      BY <1>7, <2>2, <3>2
    <3>3. QED
      BY <3>1, <3>2
<1>12. Threads'
  <2>1. \A d \in Workers : thread[d] \in {"none", "opening"} => d # w /\ queue'[d] = queue[d]
    BY <1>1, <1>7
  <2>2. \A d \in Workers : calls < d => thread[d] = "none"
    BY DEF JobInv, Threads
  <2>3. \A d \in Workers : thread[d] \in {"none", "opening"} =>
            queue[d] = << >> /\ \A u \in Tasks : ~Holds(u, d)
    BY DEF JobInv, Threads
  <2>4. \A d \in Workers : thread[d] \in {"none", "opening"} =>
            /\ queue'[d] = << >>
            /\ \A u \in Tasks : ~Holds(u, d)'
            /\ \A i \in 1..Len(idle') : idle'[i] # d
    BY <1>3, <1>9, <2>1, <2>3
  <2>5. \A u \in Tasks : task'[u].pc = "acquire" => thread[task'[u].by] = "none"
    BY <1>2 DEF JobInv, Threads
  <2>6. QED
    BY <2>2, <2>4, <2>5 DEF Threads
<1>13. Told'
  BY <1>2 DEF JobInv, Told, At
<1>14. ASSUME NEW d \in Workers PROVE ThreadInv(d)'
  <2>1. CASE d # w
    <3>1. \A u \in Tasks : Holds(u, d) => u # t
      BY <1>1, <2>1 DEF Holds
    <3>2. QED
      BY <1>2, <1>3, <1>7, <2>1, <3>1, Elsewhere DEF JobInv
  <2>2. CASE d = w /\ thread[w] = "running"
    <3>1. /\ TxIsNext(w) /\ CallByCall(w) /\ WritesInTx(w) /\ KeysAsOpened(w) /\ Knows(t, w)
          /\ Accepts(w) /\ \A u \in Tasks : ~Holds(u, w)'
      BY <1>1, <1>3, <2>2 DEF JobInv, ThreadInv, Accepts
    <3>2. KeysAsOpened(w)'
      <4>1. Sure /\ conn[w].fk # conn[w].fk0 => task[t].program = "rebuild"
        BY <1>1, <3>1 DEF KeysAsOpened
      <4>2. QED
        BY <2>2, <4>1 DEF KeysAsOpened
    <3>3. \A i \in 1..n : q[i].by = b => task[t].op = q[i].op
      BY <1>1 DEF JobInv, JobsAwaited
    <3>4. /\ task[t].program = "mutation" => task[t].op \notin {"DROP", "APP"}
          /\ task[t].program = "app" => task[t].op = "APP" /\ At(t) \notin Inside \cup Perhaps
      BY <1>1 DEF OpsOf, At, Inside, Perhaps
    <3>5. n # 0 => n \in 1..n /\ (Ends(q[n]) \/ q[n].by = b)
      <4>1. n # 0 => n \in 1..n
        BY <1>5
      <4>2. n # 0 => Ends(q[n]) \/ \E u \in Tasks : Holds(u, w) /\ task[u].by = q[n].by
        BY <3>1, <4>1 DEF CallByCall
      <4>3. QED
        BY <1>1, <4>1, <4>2
    <3>6. n = 0 => conn[w].tx \in {0, b}
      BY <1>1, <1>5, <3>1 DEF TxIsNext
    <3>7. task[t].program = "app" => conn[w].tx # b
      BY <3>1, <3>4 DEF Knows
    <3>8. \A i \in 1..n :
            IF i = n THEN TRUE
            ELSE IF Ends(q[i]) THEN q[i].by # q[i + 1].by
                 ELSE q[i].by = q[i + 1].by /\ q[i + 1].op # "APP"
      BY <3>1 DEF CallByCall
    <3>9. \A i \in 1..n : q[i].op \in {"WRITE", "REBUILD"} => i = 1 /\ conn[w].tx = q[i].by
      BY <3>1 DEF WritesInTx
    <3>10. conn[w].tx # 0 /\ n # 0 => q[1].by = conn[w].tx /\ q[1].op # "APP"
      BY <1>5, <3>1 DEF TxIsNext
    <3>11. CASE drops
      <4>1. TxIsNext(w)'
        <5>1. CASE n = 0
          BY <1>4, <1>8, <3>6, <3>11, <5>1 DEF TxIsNext
        <5>2. CASE n # 0
          <6>1. 1 \in 1..n /\ queue'[w][1] = q[1]
            BY <1>5, <1>8, <3>11, <5>2
          <6>2. QED
            BY <1>8, <3>10, <3>11, <5>2, <6>1 DEF TxIsNext
        <5>3. QED
          BY <5>1, <5>2
      <4> HIDE DEF n, q
      <4>2. CallByCall(w)'
        <5>1. SUFFICES ASSUME NEW i \in 1..(n + 1)
                       PROVE  IF i = n + 1 THEN Ends(queue'[w][i])
                              ELSE IF Ends(queue'[w][i]) THEN queue'[w][i].by # queue'[w][i + 1].by
                                   ELSE queue'[w][i].by = queue'[w][i + 1].by /\ queue'[w][i + 1].op # "APP"
          BY <1>8, <3>11 DEF CallByCall, Ends
        <5>2. CASE i = n + 1
          BY <1>4, <1>8, <3>11, <5>2 DEF Ends
        <5>3. CASE i = n
          <6>1. n # 0 /\ n # n + 1 /\ n \in 1..n
            BY <1>5, <5>3
          <6>2. queue'[w][n] = q[n] /\ queue'[w][n + 1] = j
            BY <1>8, <3>11, <6>1
          <6>3. Ends(q[n]) => q[n].by # b
            BY <3>3, <3>4, <3>11, <6>1 DEF Ends
          <6>4. QED
            BY <1>4, <3>5, <5>3, <6>1, <6>2, <6>3
        <5>4. CASE i # n /\ i # n + 1
          <6>1. i \in 1..n /\ i + 1 \in 1..n
            BY <1>5, <5>4
          <6>2. queue'[w][i] = q[i] /\ queue'[w][i + 1] = q[i + 1]
            BY <1>8, <3>11, <6>1
          <6>3. QED
            BY <3>8, <5>4, <6>1, <6>2
        <5>5. QED
          BY <5>2, <5>3, <5>4
      <4>3. WritesInTx(w)'
        <5>1. \A i \in 1..(n + 1) : queue'[w][i].op \in {"WRITE", "REBUILD"} => i = 1 /\ conn[w].tx = queue'[w][i].by
          <6> TAKE i \in 1..(n + 1)
          <6>1. CASE i = n + 1
            BY <1>4, <1>8, <3>11, <6>1
          <6>2. CASE i # n + 1
            <7>1. i \in 1..n
              BY <1>5, <6>2
            <7>2. QED
              BY <1>8, <3>9, <3>11, <7>1
          <6>3. QED
            BY <6>1, <6>2
        <5>2. QED
          BY <1>8, <3>1, <3>11, <5>1 DEF WritesInTx
      <4>4. QED
        BY <2>2, <3>1, <3>2, <4>1, <4>2, <4>3 DEF ThreadInv
    <3>12. CASE ~drops
      <4>1. queue'[w] = q /\ task[t].program \in {"rebuild", "app"}
        BY <1>1, <1>7, <3>1, <3>12
      <4>2. n = 0 => conn[w].tx = 0
        BY <2>2, <3>6, <3>7, <4>1
      <4>3. n # 0 => Ends(q[n])
        <5>1. n # 0 => task[t].program = "app"
          BY <1>5, <2>2, <4>1
        <5>2. QED
          BY <3>3, <3>4, <3>5, <5>1 DEF Ends
      <4>4. TxIsNext(w)'
        BY <1>5, <3>10, <4>1, <4>2 DEF TxIsNext
      <4>5. CallByCall(w)'
        BY <1>5, <3>8, <4>1, <4>3 DEF CallByCall, Ends
      <4>6. WritesInTx(w)'
        BY <3>1, <4>1 DEF WritesInTx
      <4>7. QED
        BY <2>2, <3>1, <3>2, <4>4, <4>5, <4>6 DEF ThreadInv
    <3>13. QED
      BY <3>11, <3>12
  <2>3. QED
    BY <2>1, <2>2 DEF ThreadInv
<1>15. QED
  BY <1>10, <1>11, <1>12, <1>13, <1>14 DEF JobInv

LEMMA FinishInv ==
    ASSUME PoolInv, JobInv, NEW t \in Tasks, Finish(t)
    PROVE  JobInv'
<1>0. PICK w : w = task[t].w
  OBVIOUS
<1> DEFINE p == task[t].program
           b == task[t].by
<1>1. /\ task[t].pc = "wait" /\ task[t].answer \in {"ok", "error"} /\ Release(task[t])
      /\ NextOp(p, task[t].op, task[t].answer) = "done"
      /\ task' = [task EXCEPT ![t] = Idle] /\ UNCHANGED <<calls, asked, committed, thread, conn>>
      /\ acked' = IF task[t].op = "COMMIT" /\ task[t].answer = "ok" THEN acked \cup {b} ELSE acked
  BY DEF Finish, database
<1>2. /\ w \in Workers /\ Holds(t, w) /\ task[t].op \in OpsOf(p) /\ p \in {"mutation", "rebuild", "app"}
      /\ b # 0
  BY <1>0, <1>1, Holding
<1>3. \A o \in Ops \ {"done"} : <<task[t].op, task[t].answer, o>> \notin After(p)
  BY <1>1, <1>2, NextIsAfter
<1>4. p = "rebuild" =>
        \/ task[t].op \in {"ASK", "OFF", "ON"} /\ task[t].answer = "error"
        \/ At(t) \in {<<"ON", "ok">>, <<"ROLLBACK", "error">>}
  <2>1. SUFFICES ASSUME p = "rebuild",
                        ~(task[t].op \in {"ASK", "OFF", "ON"} /\ task[t].answer = "error"),
                        At(t) \notin {<<"ON", "ok">>, <<"ROLLBACK", "error">>}
                 PROVE  FALSE
    OBVIOUS
  <2>2. \A o \in Ops \ {"done"} : <<task[t].op, task[t].answer, o>> \notin AfterRebuild
    BY <1>3, <2>1 DEF After
  <2>3. {"OFF", "BEGIN", "REBUILD", "CHECK", "COMMIT", "ROLLBACK", "ABANDON", "ON"} \subseteq Ops \ {"done"}
    BY DEF Ops
  <2>4. /\ <<task[t].op, task[t].answer, "OFF">> \notin AfterRebuild
        /\ <<task[t].op, task[t].answer, "BEGIN">> \notin AfterRebuild
        /\ <<task[t].op, task[t].answer, "REBUILD">> \notin AfterRebuild
        /\ <<task[t].op, task[t].answer, "CHECK">> \notin AfterRebuild
        /\ <<task[t].op, task[t].answer, "COMMIT">> \notin AfterRebuild
        /\ <<task[t].op, task[t].answer, "ROLLBACK">> \notin AfterRebuild
        /\ <<task[t].op, task[t].answer, "ABANDON">> \notin AfterRebuild
        /\ <<task[t].op, task[t].answer, "ON">> \notin AfterRebuild
    BY <2>2, <2>3
  <2>5. task[t].op \in {"ASK", "OFF", "BEGIN", "REBUILD", "CHECK", "COMMIT", "ROLLBACK", "ABANDON", "ON"}
    BY <1>2, <2>1 DEF OpsOf
  <2>6. task[t].answer = "ok" => FALSE
    BY <2>1, <2>4, <2>5 DEF AfterRebuild, At
  <2>7. task[t].answer = "error" => FALSE
    BY <2>1, <2>4, <2>5 DEF AfterRebuild, At
  <2>8. QED
    BY <1>1, <2>6, <2>7
<1>5. thread[w] = "running" /\ p = "rebuild" =>
        queue[w] = << >> /\ conn[w].tx = 0 /\ (Sure => conn[w].fk = conn[w].fk0)
  <2>1. SUFFICES ASSUME thread[w] = "running", p = "rebuild"
                 PROVE  queue[w] = << >> /\ conn[w].tx = 0 /\ (Sure => conn[w].fk = conn[w].fk0)
    OBVIOUS
  <2>2. queue[w] = << >> /\ conn[w].tx \in {0, b} /\ Knows(t, w)
    BY <1>0, <1>1, <2>1, Replied
  <2>3. At(t) \in {<<"ON", "ok">>, <<"ROLLBACK", "error">>} /\ (Sure => At(t) = <<"ON", "ok">>)
    BY <1>4, <2>1, <2>2 DEF Knows
  <2>4. At(t) \notin Inside \cup Perhaps
    BY <2>3 DEF Inside, Perhaps
  <2>5. conn[w].tx # b
    BY <2>2, <2>4 DEF Knows
  <2>6. Sure => conn[w].fk /\ conn[w].fk0
    BY <2>1, <2>2, <2>3 DEF Knows, At
  <2>7. conn[w] \in Connection
    BY <1>2 DEF JobInv, JobTypes
  <2>8. QED
    BY <2>2, <2>5, <2>6, <2>7 DEF Connection
<1>6. acked' \subseteq committed
  <2>1. task[t].op = "COMMIT" /\ task[t].answer = "ok" => p = "mutation"
    <3>1. <<"COMMIT", "ok", "ON">> \in AfterRebuild /\ "ON" \in Ops \ {"done"}
      BY DEF AfterRebuild, Ops
    <3>2. task[t].op = "COMMIT" => p # "app"
      BY <1>2 DEF OpsOf
    <3>3. task[t].op = "COMMIT" /\ task[t].answer = "ok" => p # "rebuild"
      BY <1>3, <3>1 DEF After
    <3>4. QED
      BY <1>2, <3>2, <3>3
  <2>2. task[t].op = "COMMIT" /\ task[t].answer = "ok" => b \in committed
    BY <1>1, <2>1 DEF JobInv, Told, At
  <2>3. QED
    BY <1>1, <2>2 DEF JobInv, Told
<1>7. \A i \in 1..Len(queue[w]) : queue[w][i].by = b => queue[w][i].op \notin RebuildOps
  BY <1>1, <1>2 DEF JobInv, JobsAwaited
<1>8. QED
  BY <1>0, <1>1, <1>5, <1>6, <1>7, Released

LEMMA CancelInv ==
    ASSUME PoolInv, JobInv, RebuildsRun, NEW t \in Tasks, Cancel(t)
    PROVE  JobInv'
<1>0. PICK w : w = task[t].w
  OBVIOUS
<1>1. /\ task[t].program # "rebuild" /\ task' = [task EXCEPT ![t] = Idle]
      /\ UNCHANGED <<calls, asked, committed, acked, thread, conn>>
  BY DEF Cancel, RebuildsRun, database
<1>2. CASE task[t].pc \in {"acquire", "spawn"} /\ UNCHANGED <<idle, queue>>
  BY <1>1, <1>2, Leaves
<1>3. CASE task[t].pc = "wait" /\ Release(task[t])
  <2>1. w \in Workers /\ task[t].op \in OpsOf(task[t].program) /\ task[t].program \in {"mutation", "app"}
    BY <1>0, <1>1, <1>3, Holding
  <2>2. task[t].op \notin RebuildOps
    BY <2>1 DEF OpsOf, RebuildOps
  <2>3. \A i \in 1..Len(queue[w]) : queue[w][i].by = task[t].by => queue[w][i].op = task[t].op
    BY <1>3, <2>1 DEF JobInv, JobsAwaited
  <2>4. acked' \subseteq committed
    BY <1>1 DEF JobInv, Told
  <2>5. \A i \in 1..Len(queue[w]) : queue[w][i].by = task[t].by => queue[w][i].op \notin RebuildOps
    BY <2>2, <2>3
  <2>6. QED
    BY <1>0, <1>1, <1>3, <2>4, <2>5, Released
<1>4. QED
  BY <1>2, <1>3 DEF Cancel

LEMMA ExitInv ==
    ASSUME PoolInv, JobInv, NEW w \in Workers, Exit(w)
    PROVE  JobInv'
<1>1. /\ thread[w] \notin {"none", "opening"}
      /\ UNCHANGED <<idle, calls, asked, committed, acked>>
      /\ thread' = [thread EXCEPT ![w] = "gone"] /\ conn' = [conn EXCEPT ![w] = Closed]
      /\ queue' = [queue EXCEPT ![w] = << >>]
      /\ \A t \in Tasks : task'[t] = IF Holds(t, w) /\ task[t].answer = "none"
                                     THEN [task[t] EXCEPT !.answer = "error"] ELSE task[t]
  BY DEF Exit
<1>2. Closed \in Connection /\ << >> \in Seq(Job)
  BY DEF Closed, FreshConnection, Connection
<1>3. /\ thread'[w] = "gone" /\ queue'[w] = << >>
      /\ \A d \in Workers \ {w} : thread'[d] = thread[d] /\ conn'[d] = conn[d] /\ queue'[d] = queue[d]
      /\ JobTypes'
  BY <1>1, <1>2 DEF JobInv, JobTypes
<1>4. \A t \in Tasks : /\ task'[t].pc = task[t].pc /\ task'[t].by = task[t].by /\ task'[t].w = task[t].w
                       /\ task'[t].op = task[t].op /\ task'[t].program = task[t].program
                       /\ task'[t].guard = task[t].guard
                       /\ ~Holds(t, w) => task'[t] = task[t]
                       /\ task'[t].answer \in {task[t].answer, "error"}
  <2> TAKE t \in Tasks
  <2>1. task[t] \in Task
    BY DEF PoolInv, PoolTypes
  <2>2. CASE Holds(t, w) /\ task[t].answer = "none"
    <3>1. task'[t] = [task[t] EXCEPT !.answer = "error"]
      BY <1>1, <2>2
    <3>2. QED
      BY <2>1, <2>2, <3>1 DEF Task
  <2>3. CASE ~(Holds(t, w) /\ task[t].answer = "none")
    BY <1>1, <2>3
  <2>4. QED
    BY <2>2, <2>3
<1>5. \A t \in Tasks, d \in Workers : Holds(t, d)' <=> Holds(t, d)
  BY <1>4 DEF Holds
<1>6. JobsAwaited'
  <2>1. SUFFICES ASSUME NEW d \in Workers, NEW i \in 1..Len(queue'[d])
                 PROVE  /\ queue'[d][i].by <= calls
                        /\ queue'[d][i].op = "COMMIT" => queue'[d][i].by \in asked
                        /\ queue'[d][i].op \in RebuildOps =>
                              \E u \in Tasks : Holds(u, d)' /\ task'[u].by = queue'[d][i].by
                        /\ \A u \in Tasks : task'[u].pc # "idle" /\ task'[u].by = queue'[d][i].by =>
                              /\ Holds(u, d)' /\ i = Len(queue'[d])
                              /\ task'[u].answer = "none" /\ task'[u].op = queue'[d][i].op
    BY <1>1 DEF JobsAwaited
  <2>2. d # w /\ queue'[d] = queue[d]
    <3>1. d # w
      <4>1. SUFFICES ASSUME d = w PROVE FALSE
        OBVIOUS
      <4>2. Len(queue'[d]) = 0
        BY <1>3, <4>1
      <4>3. QED
        BY <4>2
    <3>2. QED
      BY <1>3, <3>1
  <2>3. /\ queue[d][i].by <= calls
        /\ queue[d][i].op = "COMMIT" => queue[d][i].by \in asked
        /\ queue[d][i].op \in RebuildOps => \E u \in Tasks : Holds(u, d) /\ task[u].by = queue[d][i].by
        /\ \A u \in Tasks : task[u].pc # "idle" /\ task[u].by = queue[d][i].by =>
              /\ Holds(u, d) /\ i = Len(queue[d])
              /\ task[u].answer = "none" /\ task[u].op = queue[d][i].op
    BY <2>2 DEF JobInv, JobsAwaited
  <2>4. \A u \in Tasks : Holds(u, d) => task'[u] = task[u]
    BY <1>4, <2>2 DEF Holds
  <2>5. QED
    BY <1>4, <1>5, <2>2, <2>3, <2>4
<1>7. Threads'
  <2>1. \A d \in Workers : thread[d] \in {"none", "opening"} => d # w
    BY <1>1
  <2>2. \A t \in Tasks : task[t].pc = "acquire" => thread[task[t].by] = "none" /\ task[t].by \in Workers
    <3>1. \A t \in Tasks : task[t].pc = "acquire" => task[t].by \in Workers
      BY DEF PoolInv, PoolTypes, Numbered, Workers
    <3>2. QED
      BY <3>1 DEF JobInv, Threads
  <2>3. \A t \in Tasks : task'[t].pc = "acquire" => thread'[task'[t].by] = "none"
    BY <1>3, <1>4, <2>1, <2>2
  <2>4. \A d \in Workers : calls < d => thread[d] = "none"
    BY DEF JobInv, Threads
  <2>5. \A d \in Workers : calls' < d => thread'[d] = "none"
    BY <1>1, <1>3, <2>1, <2>4
  <2>6. \A d \in Workers : thread[d] \in {"none", "opening"} =>
            /\ queue[d] = << >>
            /\ \A u \in Tasks : ~Holds(u, d)
            /\ \A i \in 1..Len(idle) : idle[i] # d
    BY DEF JobInv, Threads
  <2>7. \A d \in Workers : thread'[d] \in {"none", "opening"} =>
            /\ queue'[d] = << >>
            /\ \A u \in Tasks : ~Holds(u, d)'
            /\ \A i \in 1..Len(idle') : idle'[i] # d
    BY <1>1, <1>3, <1>5, <2>6
  <2>8. QED
    BY <2>3, <2>5, <2>7 DEF Threads
<1>8. Told'
  BY <1>1, <1>4 DEF JobInv, Told, At
<1>9. ASSUME NEW d \in Workers, thread'[d] = "running" PROVE ThreadInv(d)'
  <2>1. d # w
    BY <1>3, <1>9
  <2>2. \A u \in Tasks : Holds(u, d) => task'[u] = task[u]
    BY <1>4, <2>1 DEF Holds
  <2>3. QED
    BY <1>3, <1>5, <2>1, <2>2, Elsewhere DEF JobInv
<1>10. QED
  BY <1>3, <1>6, <1>7, <1>8, <1>9 DEF JobInv, ThreadInv

-----------------------------------------------------------------------------
LEMMA JobInit == Init => JobInv
<1> SUFFICES ASSUME Init PROVE JobInv
  OBVIOUS
<1>1. Closed \in Connection /\ << >> \in Seq(Job)
  BY DEF Closed, FreshConnection, Connection
<1>2. /\ \A w \in Workers : queue[w] = << >> /\ thread[w] = "none"
      /\ \A t \in Tasks : task[t].pc = "idle"
      /\ idle = << >> /\ JobTypes
  BY <1>1 DEF Init, JobTypes, Idle
<1>3. \A w \in Workers : \A i : i \notin 1..Len(queue[w])
  BY <1>2
<1>4. JobsAwaited
  BY <1>3 DEF JobsAwaited
<1>5. Threads
  <2>1. \A i : i \notin 1..Len(idle)
    BY <1>2
  <2>2. QED
    BY <1>2, <2>1 DEF Threads, Holds
<1>6. Told
  BY <1>2 DEF Init, Told
<1>7. \A w \in Workers : ThreadInv(w)
  BY <1>2 DEF ThreadInv
<1>8. QED
  BY <1>2, <1>4, <1>5, <1>6, <1>7 DEF JobInv

LEMMA JobStep == RebuildsRun /\ PoolInv /\ JobInv /\ [Next]_vars => JobInv'
<1> SUFFICES ASSUME RebuildsRun, PoolInv, JobInv, [Next]_vars PROVE JobInv'
  OBVIOUS
<1>1. ASSUME NEW t \in Tasks, NEW program \in Programs, Start(t, program) PROVE JobInv'
  BY <1>1, StartInv
<1>2. ASSUME NEW t \in Tasks, TaskStep(t) PROVE JobInv'
  <2>1. CASE TimeOut(t)
    BY <2>1, Leaves DEF TimeOut, workers, database
  <2>2. QED
    BY <1>2, <2>1, TakeIdleInv, SpawnInv, SpawnedInv, ContinueInv, FinishInv DEF TaskStep
<1>3. ASSUME NEW t \in Tasks, Cancel(t) PROVE JobInv'
  BY <1>3, CancelInv
<1>4. ASSUME NEW w \in Workers, WorkerStep(w) PROVE JobInv'
  BY <1>4, OpenInv, BeginInv, WriteInv, CommitInv, RollbackInv, DropInv, PragmaInv, AppInv,
     ExitInv DEF WorkerStep
<1>5. ASSUME UNCHANGED vars PROVE JobInv'
  <2>1. \A w \in Workers : ThreadInv(w)'
    BY <1>5, Elsewhere DEF vars, Holds, JobInv
  <2>2. JobTypes' /\ JobsAwaited' /\ Threads' /\ Told'
    BY <1>5 DEF vars, JobInv, JobTypes, JobsAwaited, Threads, Told, Holds, At
  <2>3. QED
    BY <2>1, <2>2 DEF JobInv
<1>6. QED
  BY <1>1, <1>2, <1>3, <1>4, <1>5 DEF Next

LEMMA Always ==
    ASSUME RebuildsRun
    PROVE  Spec => [](PoolInv /\ JobInv)
<1>1. (PoolInv /\ JobInv) /\ [Next]_vars => (PoolInv /\ JobInv)'
  BY PoolStep, JobStep
<1>2. QED
  BY PoolInit, JobInit, <1>1, PTL DEF Spec

(* Whatever was cancelled or failed before it, a job finds no transaction    *)
(* but its own call's: the rollback that dropping a transaction queues is    *)
(* ahead of the next checkout's first job (RusqliteTx::drop, Pooled::drop).  *)
THEOREM JobsKeepApart ==
    ASSUME RebuildsRun
    PROVE  Spec => []JobsMeetNoForeignTx
<1>1. PoolInv /\ JobInv => JobsMeetNoForeignTx
  BY HeadJob DEF JobsMeetNoForeignTx, Ready
<1>2. QED
  BY Always, <1>1, PTL

(* What is durable was committed by its own call, and a call that was told   *)
(* so has committed (RusqliteTx::commit, its jobs still queued or not).      *)
THEOREM CommitIsDecisive ==
    ASSUME RebuildsRun
    PROVE  Spec => []CommitDecides
<1>1. JobInv => CommitDecides
  BY DEF JobInv, Told, CommitDecides
<1>2. QED
  BY Always, <1>1, PTL

(* A connection nobody holds and with nothing left to do.                    *)
LEMMA Pooled ==
    ASSUME PoolInv, JobInv
    PROVE  NeverPooledWithOpenTx /\ (Sure => PooledAsOpened)
<1>1. ASSUME NEW i \in 1..Len(idle), thread[idle[i]] = "running", queue[idle[i]] = << >>
      PROVE  conn[idle[i]].tx = 0 /\ (Sure => conn[idle[i]].fk = conn[idle[i]].fk0)
  <2>1. idle[i] \in Workers
    BY DEF PoolInv, PoolTypes
  <2>2. \A t \in Tasks : ~Holds(t, idle[i])
    BY DEF PoolInv, ConnectionsBounded, Holders, Holds
  <2>3. TxIsNext(idle[i]) /\ KeysAsOpened(idle[i])
    BY <1>1, <2>1 DEF JobInv, ThreadInv
  <2>4. QED
    BY <1>1, <2>2, <2>3 DEF TxIsNext, KeysAsOpened
<1>2. QED
  BY <1>1 DEF NeverPooledWithOpenTx, PooledAsOpened

(* It has no open transaction, however its last call ended (Pooled::drop).   *)
THEOREM PoolIsClean ==
    ASSUME RebuildsRun
    PROVE  Spec => []NeverPooledWithOpenTx
<1>1. PoolInv /\ JobInv => NeverPooledWithOpenTx
  BY Pooled
<1>2. QED
  BY Always, <1>1, PTL

(* And it enforces foreign keys as when it was opened, where a rebuild's     *)
(* failed statement leaves the rebuild's transaction open                    *)
(* (ForeignKeysOff::commit, rollback, abandon).                              *)
THEOREM PoolIsAsOpened ==
    ASSUME RebuildsRun, Sure
    PROVE  Spec => []PooledAsOpened
<1>1. PoolInv /\ JobInv => PooledAsOpened
  BY Pooled
<1>2. QED
  BY Always, <1>1, PTL

-----------------------------------------------------------------------------
(* Nobody waits for an answer that cannot come. A call that waits has its  *)
(* job in the inbox of a thread that still reads it or still has to leave, *)
(* and a call that waits for its worker to start has a thread that was     *)
(* started: whatever is cancelled, panics or is closed meanwhile.          *)
Inboxes ==
    /\ queue \in [Workers -> Seq(Job)]
    /\ thread \in [Workers -> {"none", "opening", "running", "unwinding", "gone"}]

Request(t) == [op |-> task[t].op, by |-> task[t].by]

Lies(j, w) == \E i \in 1..Len(queue[w]) : queue[w][i] = j

Attended(t) ==
    /\ task[t].pc = "spawn" => thread[task[t].w] # "none"
    /\ (task[t].pc = "wait" /\ task[t].answer = "none") =>
            Accepts(task[t].w) /\ Lies(Request(t), task[t].w)

AttendInv == Inboxes /\ \A t \in Tasks : Attended(t)

(* What holds of a call's worker and its job.                              *)
LEMMA Checkouts ==
    ASSUME PoolInv, NEW t \in Tasks, task[t].pc \in {"spawn", "wait"}
    PROVE  /\ task[t].w \in Workers /\ task[t].by \in 1..MaxCalls
           /\ task[t].program \in {"mutation", "rebuild", "app"}
           /\ task[t].op \in Ops /\ task[t].op # "DROP"
<1>1. t \in Holders /\ task[t] \in Task
  BY DEF Holders, PoolInv, PoolTypes
<1>2. task[t].w \in 1..calls /\ task[t].by \in 1..calls /\ calls \in 0..MaxCalls
  BY <1>1 DEF PoolInv, PoolTypes, Numbered
<1>3. task[t].w \in Workers /\ task[t].by \in 1..MaxCalls
  BY <1>2 DEF Workers
<1>4. QED
  BY <1>1, <1>3 DEF Task, Ops

(* A job stays in an inbox while others are queued behind it.              *)
LEMMA StaysQueued ==
    ASSUME Inboxes, NEW w \in Workers, NEW j \in Job,
           queue' = [queue EXCEPT ![w] = Append(@, j)]
    PROVE  /\ queue' \in [Workers -> Seq(Job)] /\ Lies(j, w)'
           /\ \A v \in Workers : \A k : Lies(k, v) => Lies(k, v)'
<1>1. queue[w] \in Seq(Job)
  BY DEF Inboxes
<1>2. /\ Append(queue[w], j) \in Seq(Job)
      /\ Len(Append(queue[w], j)) = Len(queue[w]) + 1
      /\ \A i \in 1..Len(queue[w]) : Append(queue[w], j)[i] = queue[w][i]
      /\ Append(queue[w], j)[Len(queue[w]) + 1] = j
  BY <1>1, Appended
<1>3. Len(queue[w]) \in Nat
  BY <1>1, Emptied
<1> DEFINE q == Append(queue[w], j)
<1>4. q \in Seq(Job) /\ Len(q) = Len(queue[w]) + 1
      /\ (\A i \in 1..Len(queue[w]) : q[i] = queue[w][i]) /\ q[Len(queue[w]) + 1] = j
  BY <1>2
<1>5. queue' = [queue EXCEPT ![w] = q]
  OBVIOUS
<1> HIDE DEF q
<1>6. queue' \in [Workers -> Seq(Job)] /\ queue'[w] = q
      /\ \A v \in Workers \ {w} : queue'[v] = queue[v]
  BY <1>4, <1>5 DEF Inboxes
<1>7. Lies(j, w)'
  <2>1. Len(queue[w]) + 1 \in 1..Len(q)
    BY <1>3, <1>4
  <2>2. QED
    BY <1>4, <1>6, <2>1 DEF Lies
<1>8. ASSUME NEW v \in Workers, NEW k, Lies(k, v) PROVE Lies(k, v)'
  <2>1. CASE v # w
    BY <1>6, <1>8, <2>1 DEF Lies
  <2>2. CASE v = w
    <3>1. PICK i \in 1..Len(queue[w]) : queue[w][i] = k
      BY <1>8, <2>2 DEF Lies
    <3>2. i \in 1..Len(q) /\ q[i] = k
      BY <1>3, <1>4, <3>1
    <3>3. QED
      BY <1>6, <2>2, <3>2 DEF Lies
  <2>3. QED
    BY <2>1, <2>2
<1>9. QED
  BY <1>6, <1>7, <1>8

(* A call that is left alone stays attended while its inbox only grows.    *)
LEMMA StaysAttended ==
    ASSUME PoolInv, NEW t \in Tasks, Attended(t), task'[t] = task[t],
           \A v \in Workers : \A k : Lies(k, v) => Lies(k, v)',
           \A v \in Workers : /\ thread[v] # "none" => thread'[v] # "none"
                              /\ Accepts(v) => Accepts(v)'
    PROVE  Attended(t)'
<1>1. CASE task[t].pc = "spawn"
  <2>1. task[t].w \in Workers
    BY <1>1, Checkouts
  <2>2. QED
    BY <1>1, <2>1 DEF Attended
<1>2. CASE task[t].pc = "wait" /\ task[t].answer = "none"
  <2>1. task[t].w \in Workers
    BY <1>2, Checkouts
  <2>2. Accepts(task[t].w) /\ Lies(Request(t), task[t].w)
    BY <1>2 DEF Attended
  <2>3. Accepts(task[t].w)' /\ Lies(Request(t), task[t].w)'
    <3> DEFINE w == task[t].w
               k == Request(t)
    <3>1. w' = w /\ k' = k
      BY DEF Request
    <3>2. w \in Workers /\ Accepts(w) /\ Lies(k, w)
      BY <2>1, <2>2
    <3> HIDE DEF w, k
    <3>3. PICK v \in Workers : v = w /\ Accepts(v) /\ Lies(k, v)
      BY <3>2
    <3>4. PICK r : r = k /\ Lies(r, v) /\ Accepts(v)
      BY <3>3
    <3>5. Accepts(v)' /\ Lies(r, v)'
      BY <3>4
    <3>6. w' = v /\ k' = r
      BY <3>1, <3>3, <3>4
    <3>7. QED
      BY <3>5, <3>6 DEF Accepts, Lies, w, k
  <2>4. QED
    BY <1>2, <2>3 DEF Attended
<1>3. CASE task[t].pc # "spawn" /\ ~ (task[t].pc = "wait" /\ task[t].answer = "none")
  BY <1>3 DEF Attended
<1>4. QED
  BY <1>1, <1>2, <1>3

(* A call that submits an operation is attended: the job is queued, or the *)
(* call has an error at once.                                              *)
LEMMA SubmitsAttended ==
    ASSUME PoolInv, AttendInv, NEW t \in Tasks, NEW w \in Workers, NEW op \in Ops,
           NEW program \in {"mutation", "rebuild", "app"},
           task[t].by \in 1..MaxCalls, Submit(t, w, op, task[t].by), thread' = thread,
           task' = [task EXCEPT ![t] = Waiting(t, program, w, op)]
    PROVE  AttendInv'
<1> DEFINE d == Waiting(t, program, w, op)
<1>0. PICK j : j = [op |-> op, by |-> task[t].by]
  OBVIOUS
<1>1. j \in Job
  BY <1>0 DEF Job
<1>2. d.pc = "wait" /\ d.w = w /\ d.by = task[t].by /\ d.op = op
      /\ d.answer = IF Accepts(w) THEN "none" ELSE "error"
  BY DEF Waiting
<1>3. task' = [task EXCEPT ![t] = d]
  OBVIOUS
<1> HIDE DEF d
<1>4. task'[t] = d /\ \A u \in Tasks \ {t} : task'[u] = task[u]
  BY <1>3 DEF PoolInv, PoolTypes
<1>5. CASE Accepts(w)
  <2>1. queue' = [queue EXCEPT ![w] = Append(@, j)]
    BY <1>0, <1>5 DEF Submit
  <2>2. /\ queue' \in [Workers -> Seq(Job)] /\ Lies(j, w)'
        /\ \A v \in Workers : \A k : Lies(k, v) => Lies(k, v)'
    BY <1>1, <2>1, StaysQueued DEF AttendInv
  <2>3. \A v \in Workers : /\ thread[v] # "none" => thread'[v] # "none"
                           /\ Accepts(v) => Accepts(v)'
    BY DEF Accepts
  <2>4. \A u \in Tasks \ {t} : Attended(u)'
    BY <1>4, <2>2, <2>3, StaysAttended DEF AttendInv
  <2>5. Request(t)' = j /\ task'[t].w = w
    BY <1>0, <1>2, <1>4 DEF Request
  <2>6. Accepts(task[t].w)' /\ Lies(Request(t), task[t].w)'
    BY <1>5, <2>2, <2>3, <2>5 DEF Lies, Accepts
  <2>7. Attended(t)'
    BY <1>2, <1>4, <2>6 DEF Attended, Accepts
  <2>8. QED
    BY <2>2, <2>4, <2>7 DEF AttendInv, Inboxes
<1>6. CASE ~ Accepts(w)
  <2>1. queue' = queue
    BY <1>6 DEF Submit
  <2>2. \A v \in Workers : \A k : Lies(k, v) => Lies(k, v)'
    BY <2>1 DEF Lies
  <2>3. \A v \in Workers : /\ thread[v] # "none" => thread'[v] # "none"
                           /\ Accepts(v) => Accepts(v)'
    BY DEF Accepts
  <2>4. \A u \in Tasks \ {t} : Attended(u)'
    BY <1>4, <2>2, <2>3, StaysAttended DEF AttendInv
  <2>5. Attended(t)'
    BY <1>2, <1>4, <1>6 DEF Attended
  <2>6. QED
    BY <2>1, <2>4, <2>5 DEF AttendInv, Inboxes
<1>7. QED
  BY <1>5, <1>6

(* A call that leaves, or does not check out yet, disturbs nobody.         *)
LEMMA LeavesAttended ==
    ASSUME PoolInv, AttendInv, NEW t \in Tasks, thread' = thread,
           task'[t].pc \in {"idle", "acquire"},
           \A u \in Tasks \ {t} : task'[u] = task[u],
           queue' = queue \/ (task[t].pc = "wait" /\ queue' = DropJobs(task[t]))
    PROVE  AttendInv'
<1>1. /\ queue' \in [Workers -> Seq(Job)]
      /\ \A v \in Workers : \A k : Lies(k, v) => Lies(k, v)'
  <2>1. CASE queue' = queue
    BY <2>1 DEF AttendInv, Inboxes, Lies
  <2>2. CASE task[t].pc = "wait" /\ queue' = DropJobs(task[t])
    <3>0. PICK w \in Workers, j \in Job :
            w = task[t].w /\ j = [op |-> "DROP", by |-> task[t].by]
      BY <2>2, Checkouts DEF Job
    <3>2. queue' = queue \/ queue' = [queue EXCEPT ![w] = Append(@, j)]
      BY <2>2, <3>0 DEF DropJobs
    <3>3. QED
      BY <2>1, <3>2, StaysQueued DEF AttendInv
  <2>3. QED
    BY <2>1, <2>2
<1>2. \A v \in Workers : /\ thread[v] # "none" => thread'[v] # "none"
                         /\ Accepts(v) => Accepts(v)'
  BY DEF Accepts
<1>3. \A u \in Tasks \ {t} : Attended(u)'
  BY <1>1, <1>2, StaysAttended DEF AttendInv
<1>4. Attended(t)'
  BY DEF Attended
<1>5. QED
  BY <1>1, <1>3, <1>4 DEF AttendInv, Inboxes

(* The answer of the first job: its call has it, the others' jobs are      *)
(* nearer the front. A panic's answer leaves a thread that has still to    *)
(* leave.                                                                  *)
LEMMA AnswersAttended ==
    ASSUME PoolInv, AttendInv, NEW w \in Workers, NEW op,
           NEW a \in {"none", "ok", "no", "error"}, RunJob(w, op, a),
           op = "DROP" \/ a # "none",
           thread' = thread \/ thread' = [thread EXCEPT ![w] = "unwinding"]
    PROVE  AttendInv'
<1>1. queue[w] \in Seq(Job) /\ queue[w] # << >> /\ thread[w] = "running"
      /\ queue[w][1].op = op /\ queue' = [queue EXCEPT ![w] = Tail(queue[w])]
  BY DEF RunJob, AttendInv, Inboxes
<1>2. PICK q : q = Tail(queue[w])
  OBVIOUS
<1>3. /\ q \in Seq(Job) /\ Len(queue[w]) \in Nat \ {0} /\ Len(q) = Len(queue[w]) - 1
      /\ \A i \in 1..Len(q) : q[i] = queue[w][i + 1] /\ i + 1 \in 1..Len(queue[w])
  BY <1>1, <1>2, Tailed
<1>4. /\ queue' \in [Workers -> Seq(Job)] /\ queue'[w] = q
      /\ \A v \in Workers \ {w} : queue'[v] = queue[v]
  BY <1>1, <1>2, <1>3 DEF AttendInv, Inboxes
<1>5. thread' \in [Workers -> {"none", "opening", "running", "unwinding", "gone"}]
  BY DEF AttendInv, Inboxes
<1>6. \A v \in Workers : /\ thread[v] # "none" => thread'[v] # "none"
                         /\ Accepts(v) => Accepts(v)'
  BY <1>1 DEF Accepts, AttendInv, Inboxes
<1>7. ASSUME NEW v \in Workers, NEW k, Lies(k, v), v # w \/ queue[w][1] # k
      PROVE  Lies(k, v)'
  <2>1. CASE v # w
    BY <1>4, <1>7, <2>1 DEF Lies
  <2>2. CASE v = w
    <3>1. PICK i \in 1..Len(queue[w]) : queue[w][i] = k
      BY <1>7, <2>2 DEF Lies
    <3>2. i # 1
      BY <1>7, <2>2, <3>1
    <3>3. i - 1 \in 1..Len(q) /\ (i - 1) + 1 = i
      BY <1>3, <3>1, <3>2
    <3>4. q[i - 1] = k
      BY <1>3, <3>1, <3>3
    <3>5. QED
      BY <1>4, <2>2, <3>3, <3>4 DEF Lies
  <2>3. QED
    BY <2>1, <2>2
<1>8. ASSUME NEW t \in Tasks PROVE Attended(t)'
  <2>1. task'[t] = IF Holds(t, w) /\ task[t].by = queue[w][1].by /\ op # "DROP"
                   THEN [task[t] EXCEPT !.answer = a] ELSE task[t]
    BY DEF RunJob
  <2>2. task[t] \in Task
    BY DEF PoolInv, PoolTypes
  <2>3. CASE Holds(t, w) /\ task[t].by = queue[w][1].by /\ op # "DROP"
    <3>1. task'[t] = [task[t] EXCEPT !.answer = a] /\ a # "none"
      BY <2>1, <2>3
    <3>2. task'[t].pc = "wait" /\ task'[t].answer # "none"
      BY <2>2, <2>3, <3>1 DEF Task, Holds
    <3>3. QED
      BY <3>2 DEF Attended
  <2>4. CASE ~ (Holds(t, w) /\ task[t].by = queue[w][1].by /\ op # "DROP")
    <3>1. task'[t] = task[t]
      BY <2>1, <2>4
    <3>2. CASE task[t].pc = "spawn"
      <4>1. task[t].w \in Workers /\ thread[task[t].w] # "none"
        BY <3>2, Checkouts DEF AttendInv, Attended
      <4>2. QED
        BY <1>6, <3>1, <3>2, <4>1 DEF Attended
    <3>3. CASE task[t].pc = "wait" /\ task[t].answer = "none"
      <4>1. PICK v, k : v \in Workers /\ v = task[t].w /\ k = Request(t)
        BY <3>3, Checkouts
      <4>2. Accepts(v) /\ Lies(k, v) /\ k.by = task[t].by /\ k.op # "DROP"
        BY <3>3, <4>1, Checkouts DEF AttendInv, Attended, Request
      <4>3. v # w \/ queue[w][1] # k
        BY <1>1, <2>4, <3>3, <4>1, <4>2 DEF Holds
      <4>4. Accepts(v)' /\ Lies(k, v)'
        BY <1>6, <1>7, <4>1, <4>2, <4>3
      <4>5. Request(t)' = k /\ task'[t].w = v
        BY <3>1, <4>1 DEF Request
      <4>6. Accepts(task[t].w)' /\ Lies(Request(t), task[t].w)'
        BY <4>4, <4>5 DEF Accepts, Lies
      <4>7. QED
        BY <3>1, <3>3, <4>6 DEF Attended
    <3>4. CASE task[t].pc # "spawn" /\ ~ (task[t].pc = "wait" /\ task[t].answer = "none")
      BY <3>1, <3>4 DEF Attended
    <3>5. QED
      BY <3>2, <3>3, <3>4
  <2>5. QED
    BY <2>3, <2>4
<1>9. QED
  BY <1>4, <1>5, <1>8 DEF AttendInv, Inboxes

(* A thread that leaves answers everybody who waits for it.                *)
LEMMA ExitAttended ==
    ASSUME PoolInv, AttendInv, NEW w \in Workers, Exit(w)
    PROVE  AttendInv'
<1>1. /\ queue' \in [Workers -> Seq(Job)]
      /\ \A v \in Workers \ {w} : queue'[v] = queue[v] /\ thread'[v] = thread[v]
      /\ thread' \in [Workers -> {"none", "opening", "running", "unwinding", "gone"}]
      /\ thread'[w] = "gone"
  <2>1. << >> \in Seq(Job)
    BY EmptySeq
  <2>2. queue' = [queue EXCEPT ![w] = << >>] /\ thread' = [thread EXCEPT ![w] = "gone"]
    BY DEF Exit
  <2>3. QED
    BY <2>1, <2>2 DEF AttendInv, Inboxes
<1>2. ASSUME NEW t \in Tasks PROVE Attended(t)'
  <2>1. task'[t] = IF Holds(t, w) /\ task[t].answer = "none"
                   THEN [task[t] EXCEPT !.answer = "error"] ELSE task[t]
    BY DEF Exit
  <2>2. task[t] \in Task
    BY DEF PoolInv, PoolTypes
  <2>3. CASE Holds(t, w) /\ task[t].answer = "none"
    <3>1. task'[t].pc = "wait" /\ task'[t].answer = "error"
      BY <2>1, <2>2, <2>3 DEF Task, Holds
    <3>2. QED
      BY <3>1 DEF Attended
  <2>4. CASE ~ (Holds(t, w) /\ task[t].answer = "none")
    <3>1. task'[t] = task[t]
      BY <2>1, <2>4
    <3>2. CASE task[t].pc = "spawn"
      <4>1. task[t].w \in Workers /\ thread[task[t].w] # "none"
        BY <3>2, Checkouts DEF AttendInv, Attended
      <4>2. QED
        BY <1>1, <3>1, <3>2, <4>1 DEF Attended
    <3>3. CASE task[t].pc = "wait" /\ task[t].answer = "none"
      <4>1. PICK v, k : v \in Workers /\ v = task[t].w /\ k = Request(t)
        BY <3>3, Checkouts
      <4>2. Accepts(v) /\ Lies(k, v) /\ v # w
        BY <2>4, <3>3, <4>1 DEF AttendInv, Attended, Holds
      <4>3. Request(t)' = k /\ task'[t].w = v
        BY <3>1, <4>1 DEF Request
      <4>4. queue'[v] = queue[v] /\ thread'[v] = thread[v]
        BY <1>1, <4>1, <4>2
      <4>5. Accepts(task[t].w)' /\ Lies(Request(t), task[t].w)'
        BY <4>2, <4>3, <4>4 DEF Accepts, Lies
      <4>6. QED
        BY <3>1, <3>3, <4>5 DEF Attended
    <3>4. CASE task[t].pc # "spawn" /\ ~ (task[t].pc = "wait" /\ task[t].answer = "none")
      BY <3>1, <3>4 DEF Attended
    <3>5. QED
      BY <3>2, <3>3, <3>4
  <2>5. QED
    BY <2>3, <2>4
<1>3. QED
  BY <1>1, <1>2 DEF AttendInv, Inboxes

(* Opening a connection, or failing to.                                    *)
LEMMA OpenAttended ==
    ASSUME PoolInv, AttendInv, NEW w \in Workers, Open(w)
    PROVE  AttendInv'
<1>1. /\ queue' = queue /\ task' = task /\ thread[w] = "opening"
      /\ \/ thread' = [thread EXCEPT ![w] = "running"]
         \/ thread' = [thread EXCEPT ![w] = "gone"]
  BY DEF Open
<1>2. \A v \in Workers : /\ thread[v] # "none" => thread'[v] # "none"
                         /\ Accepts(v) => Accepts(v)'
  BY <1>1 DEF Accepts, AttendInv, Inboxes
<1>3. \A v \in Workers : \A k : Lies(k, v) => Lies(k, v)'
  BY <1>1 DEF Lies
<1>4. Inboxes'
  BY <1>1 DEF AttendInv, Inboxes
<1>5. \A t \in Tasks : Attended(t)'
  BY <1>1, <1>2, <1>3, StaysAttended DEF AttendInv
<1>6. QED
  BY <1>4, <1>5 DEF AttendInv

LEMMA WorkerAttends ==
    ASSUME PoolInv, AttendInv, NEW w \in Workers, WorkerStep(w)
    PROVE  AttendInv'
<1>1. CASE \E op, a : /\ a \in {"none", "ok", "no", "error"} /\ RunJob(w, op, a)
                      /\ op = "DROP" \/ a # "none"
                      /\ \/ thread' = thread
                         \/ thread' = [thread EXCEPT ![w] = "unwinding"]
  BY <1>1, AnswersAttended
<1>2. JobBegin(w) \/ JobWrite(w) \/ JobCommit(w) \/ JobRollback(w) \/ JobDrop(w)
        \/ JobPragma(w)
      => /\ thread' = thread
         /\ \E op, a : /\ a \in {"none", "ok", "no", "error"} /\ RunJob(w, op, a)
                       /\ op = "DROP" \/ a # "none"
  <2>1. JobBegin(w) => thread' = thread
                       /\ (RunJob(w, "BEGIN", "ok") \/ RunJob(w, "BEGIN", "error"))
    BY DEF JobBegin
  <2>2. JobWrite(w) => thread' = thread
                       /\ \E op : RunJob(w, op, "ok") \/ RunJob(w, op, "error")
    BY Zenon DEF JobWrite
  <2>3. JobCommit(w) => thread' = thread
                        /\ (RunJob(w, "COMMIT", "ok") \/ RunJob(w, "COMMIT", "error"))
    BY DEF JobCommit
  <2>4. JobRollback(w) => thread' = thread
                          /\ \E op : RunJob(w, op, "ok") \/ RunJob(w, op, "error")
    BY Zenon DEF JobRollback
  <2>5. JobDrop(w) => thread' = thread /\ RunJob(w, "DROP", "none")
    BY DEF JobDrop
  <2>6. JobPragma(w) => thread' = thread /\
            \E op : RunJob(w, op, "ok") \/ RunJob(w, op, "no") \/ RunJob(w, op, "error")
    BY Zenon DEF JobPragma
  <2>7. QED
    BY <2>1, <2>2, <2>3, <2>4, <2>5, <2>6
<1>3. JobApp(w) => \/ RunJob(w, "APP", "ok") /\ thread' = thread
                   \/ RunJob(w, "APP", "error")
                      /\ thread' = [thread EXCEPT ![w] = "unwinding"]
  BY DEF JobApp
<1>4. QED
  BY <1>1, <1>2, <1>3, ExitAttended, OpenAttended DEF WorkerStep

(* The steps of tasks.                                                     *)
LEMMA TaskAttends ==
    ASSUME PoolInv, AttendInv, NEW t \in Tasks,
           (\E program \in Programs : Start(t, program)) \/ TaskStep(t) \/ Cancel(t)
    PROVE  AttendInv'
<1>1. task[t] \in Task /\ Idle.pc = "idle"
  BY DEF PoolInv, PoolTypes, Idle
<1>2. ASSUME task' = [task EXCEPT ![t] = Idle], thread' = thread,
             queue' = queue \/ (task[t].pc = "wait" /\ queue' = DropJobs(task[t]))
      PROVE  AttendInv'
  <2>1. task'[t].pc = "idle" /\ \A u \in Tasks \ {t} : task'[u] = task[u]
    BY <1>1, <1>2 DEF PoolInv, PoolTypes
  <2>2. QED
    BY <1>2, <2>1, LeavesAttended
<1>3. ASSUME NEW program \in Programs, Start(t, program) PROVE AttendInv'
  <2>1. task'[t].pc = "acquire" /\ \A u \in Tasks \ {t} : task'[u] = task[u]
    BY <1>3, Started
  <2>2. thread' = thread /\ queue' = queue
    BY <1>3 DEF Start, workers
  <2>3. QED
    BY <2>1, <2>2, LeavesAttended
<1>4. CASE TimeOut(t)
  BY <1>2, <1>4 DEF TimeOut, workers
<1>5. CASE Finish(t)
  BY <1>2, <1>5 DEF Finish, Release
<1>6. CASE Cancel(t)
  BY <1>2, <1>6 DEF Cancel, Release
<1>7. CASE Spawn(t)
  <2>1. /\ task[t].pc = "acquire" /\ task[t].by \in 1..MaxCalls
        /\ task'[t].pc = "spawn" /\ task'[t].w = task[t].by
        /\ \A u \in Tasks \ {t} : task'[u] = task[u]
    BY <1>7, Names
  <2>2. PICK w \in Workers : w = task[t].by
    BY <2>1 DEF Workers
  <2>3. thread' = [thread EXCEPT ![w] = "opening"] /\ queue' = queue
    BY <1>7, <2>2 DEF Spawn
  <2>4. Inboxes'
    BY <2>3 DEF AttendInv, Inboxes
  <2>5. ASSUME NEW u \in Tasks \ {t} PROVE Attended(u)'
    <3>1. CASE task[u].pc = "spawn"
      <4>1. task[u].w \in Workers /\ thread[task[u].w] # "none"
        BY <3>1, Checkouts DEF AttendInv, Attended
      <4>2. QED
        BY <2>1, <2>3, <3>1, <4>1 DEF Attended, AttendInv, Inboxes
    <3>2. CASE task[u].pc = "wait" /\ task[u].answer = "none"
      <4>1. PICK v, k : v \in Workers /\ v = task[u].w /\ k = Request(u)
        BY <3>2, Checkouts
      <4>2. v # w
        BY <2>1, <2>2, <3>2, <4>1 DEF Holders, PoolInv, FreshNames
      <4>3. Accepts(v) /\ Lies(k, v)
        BY <3>2, <4>1 DEF AttendInv, Attended
      <4>4. thread'[v] = thread[v] /\ queue'[v] = queue[v]
        BY <2>3, <4>2 DEF AttendInv, Inboxes
      <4>5. Request(u)' = k /\ task'[u].w = v
        BY <2>1, <4>1 DEF Request
      <4>6. Accepts(task[u].w)' /\ Lies(Request(u), task[u].w)'
        BY <4>3, <4>4, <4>5 DEF Accepts, Lies
      <4>7. QED
        BY <2>1, <3>2, <4>6 DEF Attended
    <3>3. CASE task[u].pc # "spawn" /\ ~ (task[u].pc = "wait" /\ task[u].answer = "none")
      BY <2>1, <3>3 DEF Attended
    <3>4. QED
      BY <3>1, <3>2, <3>3
  <2>6. Attended(t)'
    BY <2>1, <2>2, <2>3 DEF Attended, AttendInv, Inboxes
  <2>7. QED
    BY <2>4, <2>5, <2>6 DEF AttendInv
<1>8. CASE TakeIdle(t)
  <2>1. PICK w, op : w = idle[Len(idle)] /\ op = FirstOp(task[t].program)
    OBVIOUS
  <2>2. /\ idle # << >> /\ task[t].pc = "acquire" /\ thread' = thread
        /\ Submit(t, w, op, task[t].by)
        /\ task' = [task EXCEPT ![t] = Waiting(t, task[t].program, w, op)]
    BY <1>8, <2>1 DEF TakeIdle
  <2>3. w \in Workers
    <3>1. idle \in Seq(Workers)
      BY DEF PoolInv, PoolTypes
    <3>2. Len(idle) \in 1..Len(idle)
      BY <2>2, <3>1, EmptySeq
    <3>3. QED
      BY <2>1, <3>1, <3>2, ElementOfSeq
  <2>4. task[t].by \in 1..MaxCalls
    BY <2>2 DEF PoolInv, PoolTypes, Numbered
  <2>5. task[t].program \in {"mutation", "rebuild", "app"} /\ op \in Ops
    BY <1>1, <2>1, ProgramOps DEF Task
  <2>6. QED
    BY <2>2, <2>3, <2>4, <2>5, SubmitsAttended
<1>9. CASE Spawned(t)
  <2>1. task[t].pc = "spawn"
    BY <1>9 DEF Spawned
  <2>2. PICK w, op : w \in Workers /\ w = task[t].w /\ op = FirstOp(task[t].program)
    BY <2>1, Checkouts
  <2>3. thread' = thread
    BY <1>9 DEF Spawned
  <2>4. CASE /\ Submit(t, w, op, task[t].by)
             /\ task' = [task EXCEPT ![t] = Waiting(t, task[t].program, w, op)]
    <3>1. /\ task[t].by \in 1..MaxCalls /\ op \in Ops
          /\ task[t].program \in {"mutation", "rebuild", "app"}
      BY <2>1, <2>2, Checkouts, ProgramOps
    <3>2. QED
      BY <2>2, <2>3, <2>4, <3>1, SubmitsAttended
  <2>5. CASE task' = [task EXCEPT ![t] = Idle] /\ queue' = queue
    BY <1>2, <2>3, <2>5
  <2>6. QED
    BY <1>9, <2>2, <2>4, <2>5, Zenon DEF Spawned
<1>10. CASE Continue(t)
  <2>1. task[t].pc = "wait" /\ thread' = thread
    BY <1>10 DEF Continue
  <2>2. PICK w \in Workers : w = task[t].w
    BY <2>1, Checkouts
  <2>3. PICK program \in {"mutation", "rebuild", "app"}, op \in Ops :
            /\ Submit(t, w, op, task[t].by)
            /\ task' = [task EXCEPT ![t] = Waiting(t, program, w, op)]
    <3>1. "BEGIN" \in Ops /\ NextOp(task[t].program, task[t].op, task[t].answer) \in Ops
      BY ProgramOps, Zenon DEF Ops
    <3>2. CASE task[t].op = "ASK" /\ task[t].answer = "no"
      <4>1. /\ Submit(t, w, "BEGIN", task[t].by)
            /\ task' = [task EXCEPT ![t] = Waiting(t, "mutation", w, "BEGIN")]
        BY <1>10, <2>2, <3>2, Zenon DEF Continue
      <4>2. QED
        BY <3>1, <4>1
    <3>3. CASE ~ (task[t].op = "ASK" /\ task[t].answer = "no")
      <4>1. /\ Submit(t, w, NextOp(task[t].program, task[t].op, task[t].answer), task[t].by)
            /\ task' = [task EXCEPT ![t] = Waiting(t, task[t].program, w,
                              NextOp(task[t].program, task[t].op, task[t].answer))]
        BY <1>10, <2>2, <3>3, Zenon DEF Continue
      <4>2. QED
        BY <2>1, <3>1, <4>1, Checkouts
    <3>4. QED
      BY <3>2, <3>3
  <2>4. QED
    BY <2>1, <2>3, Checkouts, SubmitsAttended
<1>11. QED
  BY <1>3, <1>4, <1>5, <1>6, <1>7, <1>8, <1>9, <1>10 DEF TaskStep

LEMMA AttendInit == Init => AttendInv
<1> SUFFICES ASSUME Init PROVE AttendInv
  OBVIOUS
<1>1. << >> \in Seq(Job)
  BY EmptySeq
<1>2. Inboxes
  BY <1>1 DEF Init, Inboxes
<1>3. \A t \in Tasks : task[t].pc = "idle"
  BY DEF Init, Idle
<1>4. QED
  BY <1>2, <1>3 DEF AttendInv, Attended

LEMMA AttendStep == PoolInv /\ AttendInv /\ [Next]_vars => AttendInv'
<1> SUFFICES ASSUME PoolInv, AttendInv, [Next]_vars PROVE AttendInv'
  OBVIOUS
<1>1. CASE UNCHANGED vars
  <2>1. Inboxes'
    BY <1>1 DEF vars, workers, AttendInv, Inboxes
  <2>2. \A v \in Workers : /\ \A k : Lies(k, v) => Lies(k, v)'
                           /\ thread[v] # "none" => thread'[v] # "none"
                           /\ Accepts(v) => Accepts(v)'
    BY <1>1 DEF vars, workers, Lies, Accepts
  <2>3. task' = task
    BY <1>1 DEF vars
  <2>4. \A t \in Tasks : Attended(t)'
    BY <2>2, <2>3, StaysAttended DEF AttendInv
  <2>5. QED
    BY <2>1, <2>4 DEF AttendInv
<1>2. CASE Next
  BY <1>2, TaskAttends, WorkerAttends DEF Next
<1>3. QED
  BY <1>1, <1>2

(* What a call that is under way waits for: a permit, or the 30 seconds;   *)
(* its worker, which was started; its answer, which is in, or whose job    *)
(* lies with a thread that runs it or drops it with its inbox.             *)
WaitsForSomeone(t) ==
    \/ task[t].pc = "acquire"
    \/ task[t].pc = "spawn" /\ (IsAlive(task[t].w) \/ thread[task[t].w] = "gone")
    \/ task[t].pc = "wait" /\ task[t].answer # "none"
    \/ task[t].pc = "wait" /\ Ready(task[t].w) /\ Lies(Request(t), task[t].w)
    \/ task[t].pc = "wait" /\ thread[task[t].w] = "unwinding"

(* No call waits for an answer nobody will give, whichever callers are     *)
(* dropped (every program may be cancelled here), callbacks panic or       *)
(* connections fail to open: the panicking job's waiter and those queued   *)
(* behind it get their errors from the dropped channels (Worker's thread   *)
(* and Worker::submit). With the fairness of the runtime this is why       *)
(* EveryCallReturns holds of the instances.                                *)
THEOREM NoCallIsStranded ==
    Spec => [](\A t \in Tasks : task[t].pc # "idle" => WaitsForSomeone(t))
<1>1. ASSUME PoolInv, AttendInv, NEW t \in Tasks, task[t].pc # "idle"
      PROVE  WaitsForSomeone(t)
  <2>1. task[t].pc \in {"idle", "acquire", "spawn", "wait"}
    BY <1>1 DEF PoolInv, PoolTypes, Task
  <2>2. CASE task[t].pc = "spawn"
    <3>1. task[t].w \in Workers /\ thread[task[t].w] # "none"
      BY <1>1, <2>2, Checkouts DEF AttendInv, Attended
    <3>2. QED
      BY <1>1, <2>2, <3>1 DEF WaitsForSomeone, IsAlive, AttendInv, Inboxes
  <2>3. CASE task[t].pc = "wait" /\ task[t].answer = "none"
    <3>1. PICK w, k : w \in Workers /\ w = task[t].w /\ k = Request(t)
      BY <1>1, <2>3, Checkouts
    <3>2. Accepts(w) /\ Lies(k, w)
      BY <1>1, <2>3, <3>1 DEF AttendInv, Attended
    <3>3. queue[w] # << >>
      BY <1>1, <3>2, Emptied DEF Lies, AttendInv, Inboxes
    <3>4. QED
      BY <2>3, <3>1, <3>2, <3>3 DEF WaitsForSomeone, Ready, Accepts
  <2>4. QED
    BY <1>1, <2>1, <2>2, <2>3 DEF WaitsForSomeone
<1>2. PoolInv /\ AttendInv
        => \A t \in Tasks : task[t].pc # "idle" => WaitsForSomeone(t)
  BY <1>1
<1>3. QED
  BY PoolInit, PoolStep, AttendInit, AttendStep, <1>2, PTL DEF Spec
================================================================================
