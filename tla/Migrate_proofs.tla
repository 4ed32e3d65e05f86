---------------------------- MODULE Migrate_proofs ----------------------------
(***************************************************************************)
(* What Migrate promises of the ledger, the progress rows and the work of  *)
(* one process that applies, is cut short and applies again, proved for    *)
(* every sequence of migrations and every script.                          *)
(***************************************************************************)
EXTENDS Migrate, FiniteSetTheorems, SequenceTheorems, WellFoundedInduction, TLAPS

USE ConstantsAssumption

-----------------------------------------------------------------------------
(* What the theorems assume of a deployment.                               *)

(* One process applies at a time, as deployments do; apply takes no lock.  *)
OneApplies == \A p, q \in Procs : p = q

(* A down.mig is not edited: its edits are not covered by the stored hash. *)
DownsStand == "down" \notin EditWays

(* An edited script keeps its kind: every version of it has a chunked unit *)
(* or none has.                                                            *)
KindsStand ==
    \A m \in Migrations, v, w \in Versions : Chunked(UpScript[m][v]) <=> Chunked(UpScript[m][w])

-----------------------------------------------------------------------------
(* The types.                                                              *)

Writes == [work : SUBSET Work, row : Row \cup {KeepRow}, entry : {Keep, 0} \cup Versions]

Typed ==
    /\ transactional \in BOOLEAN
    /\ disk \in [Migrations -> Files]
    /\ ledger \in [Migrations -> {0} \cup Versions]
    /\ progress \in [Migrations -> [Ways -> Row]]
    /\ done \in [Migrations -> [Ways -> SUBSET Work]]
    /\ repeats \subseteq Migrations \X Ways \X Work
    /\ pc \in [Procs -> {"idle", "next", "run", "close", "entry", "commit"}]
    /\ job \in [Procs -> Jobs]
    /\ tx \in [Procs -> Writes]
    /\ edits \in 0..MaxEdits /\ failures \in 0..MaxFailures

-----------------------------------------------------------------------------
(* Where a run is.                                                         *)

(* The run has written its ledger row outside a transaction.               *)
Entered(p) == pc[p] = "commit" /\ job[p].auto /\ LastSegment(p)

(* apply's plan, and what is left of it: the migrations up to the last of  *)
(* the target are to be applied, the others rolled back.                   *)
Planned(p) ==
    \E last, k \in 0..N :
        /\ job[p].target = 1..last
        /\ Applied = 1..k
        /\ pc[p] = "next" => job[p].down = (last + 1)..k /\ job[p].up = (k + 1)..last
        /\ pc[p] # "next" =>
              /\ job[p].way = "up" =>
                    /\ job[p].m \in 1..last /\ job[p].down = {} /\ job[p].up = (job[p].m + 1)..last
                    /\ job[p].m = (IF Entered(p) THEN k ELSE k + 1)
              /\ job[p].way = "down" =>
                    /\ job[p].m \in (last + 1)..N /\ job[p].down = (last + 1)..(job[p].m - 1) /\ job[p].up = {}
                    /\ job[p].m = (IF Entered(p) THEN k + 1 ELSE k)

(* A progress row of script u points at a segment of it.                   *)
Points(u, row) ==
    row # NoRow => \E i \in DOMAIN u : SegmentOf(u, i) = row.segment /\ (row.cursor # 0 => u[i] = "chunk")

RowsPoint ==
    \A m \in Migrations :
        /\ progress[m]["up"] # NoRow =>
              progress[m]["up"].hash \in Versions /\ Points(UpScript[m][progress[m]["up"].hash], progress[m]["up"])
        /\ Points(DownScript[m][1], progress[m]["down"])

(* The row p has written for the next segment.                             *)
NextSegment(p) ==
    [hash |-> job[p].files[job[p].m].up, segment |-> SegmentOf(Current(p), job[p].at) + 1, cursor |-> 0]

AtEnd(p) ==
    LET u == Current(p) IN
    \/ u = << >> /\ job[p].at = 1
    \/ job[p].at \in DOMAIN u /\ EndsSegment(u, job[p].at)

(* A batch's transaction, one that ends a segment, one that ends a script. *)
InBatch(p) ==
    /\ job[p].at \in DOMAIN Current(p) /\ Current(p)[job[p].at] = "chunk"
    /\ job[p].cursor \in 1..Batches /\ tx[p] = BatchWrites(p, job[p].cursor)
InMove(p) ==
    /\ AtEnd(p) /\ ~LastSegment(p) /\ tx[p].entry = Keep
    /\ ~job[p].auto => tx[p].row = NextSegment(p)
InEntry(p) ==
    /\ AtEnd(p) /\ LastSegment(p) /\ tx[p].row \in {KeepRow, NoRow}
    /\ tx[p].entry = (IF job[p].auto THEN Keep
                      ELSE IF job[p].way = "up" THEN job[p].files[job[p].m].up ELSE 0)

Running(p) ==
    LET u == Current(p)
        i == job[p].at
    IN
    /\ job[p].m \in Migrations
    /\ job[p].auto => tx[p] = Nothing
    /\ pc[p] = "run" =>
          /\ i \in DOMAIN u /\ tx[p].entry = Keep /\ tx[p].row = KeepRow
          /\ u[i] = "chunk" => tx[p] = Nothing /\ ~job[p].auto
    /\ pc[p] = "close" => AtEnd(p) /\ Chunked(u) /\ tx[p].entry = Keep /\ tx[p].row = KeepRow
    /\ pc[p] = "entry" => AtEnd(p) /\ tx[p].entry = Keep /\ tx[p].row \in {KeepRow, NoRow}
    /\ pc[p] = "commit" => (InBatch(p) /\ ~job[p].auto) \/ InMove(p) \/ InEntry(p)

Contiguous == \E k \in 0..N : Applied = 1..k

RunFits(p) ==
    /\ pc[p] \in {"idle", "next"} => tx[p] = Nothing
    /\ pc[p] # "idle" => Planned(p) /\ \A m \in Migrations : job[p].files[m].down = 1
    /\ pc[p] \in {"run", "close", "entry", "commit"} => Running(p)

PlanInv ==
    /\ Typed /\ Contiguous /\ RowsPoint
    /\ \A m \in Migrations : disk[m].down = 1
    /\ \A p \in Procs : RunFits(p)

-----------------------------------------------------------------------------
(* What has been done.                                                     *)

(* The work of version v of u before its unit i, and batches 1..c of it.   *)
Behind(u, v, i, c) ==
    {w \in WorkOf(u, v) : w[2] < i \/ (w[2] = i /\ u[i] = "chunk" /\ w[3] <= c)}

(* `did` holds the work `wanted`, and no more where DDL is transactional.  *)
Holds(did, wanted) == wanted \subseteq did /\ (transactional => did \subseteq wanted)

(* A progress row is of a script with a chunked unit and stands at the     *)
(* work its run has done.                                                  *)
RowHolds(u, v, row, did) == Chunked(u) /\ Holds(did, WorkBefore(u, v, row.segment, row.cursor))

DoneFits(m) ==
    /\ m \in Applied =>
          /\ progress[m]["up"] = NoRow
          /\ Holds(done[m]["up"], WorkOf(UpScript[m][ledger[m]], ledger[m]))
          /\ IF progress[m]["down"] = NoRow THEN transactional => done[m]["down"] = {}
             ELSE RowHolds(DownScript[m][1], 1, progress[m]["down"], done[m]["down"])
    /\ m \notin Applied =>
          /\ progress[m]["down"] = NoRow
          /\ done[m]["down"] = {} \/ Holds(done[m]["down"], WorkOf(DownScript[m][1], 1))
          /\ IF progress[m]["up"] = NoRow THEN transactional => done[m]["up"] = {}
             ELSE LET v == progress[m]["up"].hash
                  IN RowHolds(UpScript[m][v], v, progress[m]["up"], done[m]["up"])

(* What p's run has done, what it will have done with its transaction, its *)
(* progress row, and the row as its transaction would leave it.            *)
Did(p) == done[job[p].m][job[p].way]
All(p) == Did(p) \cup tx[p].work
RowNow(p) == progress[job[p].m][job[p].way]
RowToBe(p) == IF tx[p].row = KeepRow THEN RowNow(p) ELSE tx[p].row

(* The progress row fits the run.                                          *)
RowFits(p, row) ==
    /\ row = NoRow \/ job[p].way = "down" \/ row.hash = Version(p)
    /\ ~Chunked(Current(p)) => row = NoRow

(* A run has done, or will have with its transaction, what is behind it,   *)
(* and its transaction does nothing that has been done.                    *)
RunHolds(p) ==
    LET u == Current(p)
        i == job[p].at
    IN
    /\ job[p].auto => ~transactional
    /\ RowFits(p, RowNow(p))
    /\ ~Entered(p) =>
        /\ transactional => Did(p) \cap tx[p].work = {}
        /\ pc[p] = "run" =>
              /\ Holds(All(p), Behind(u, Version(p), i, job[p].cursor))
              /\ RowNow(p).segment = SegmentOf(u, i)
              /\ RowNow(p).cursor = (IF u[i] = "chunk" THEN job[p].cursor ELSE 0)
        /\ pc[p] \in {"close", "entry"} => Holds(All(p), Behind(u, Version(p), i + 1, 0))
        /\ pc[p] = "entry" => RowToBe(p) = NoRow
        /\ pc[p] = "commit" =>
              IF tx[p].row.cursor > 0
              THEN Holds(All(p), Behind(u, Version(p), i, job[p].cursor))
              ELSE /\ Holds(All(p), Behind(u, Version(p), i + 1, 0))
                   /\ RowToBe(p) = IF LastSegment(p) THEN NoRow ELSE NextSegment(p)

WorkInv ==
    /\ PlanInv
    /\ transactional => repeats = {}
    /\ \A m \in Migrations : DoneFits(m)
    /\ \A p \in Procs : pc[p] \in {"run", "close", "entry", "commit"} => RunHolds(p)
-----------------------------------------------------------------------------
(* Scripts and their segments.                                             *)

(* A set of numbers that is not empty has its least member, as Min says.   *)
LEMMA LeastIsThere ==
    ASSUME NEW S \in SUBSET Nat, S # {}
    PROVE  Min(S) \in S /\ \A x \in S : Min(S) <= x
<1> DEFINE Less == {ss \in Nat \X Nat : ss[1] < ss[2]}
<1>1. IsWellFoundedOn(Less, Nat)
  BY NatLessThanWellFounded DEF OpToRel
<1>2. PICK x \in S : \A y \in S : ~(<<y, x>> \in Less)
  BY <1>1, WFMin, ZenonT(30)
<1>3. ASSUME NEW y \in S PROVE x <= y
  <2>1. x \in Nat /\ y \in Nat
    OBVIOUS
  <2>2. CASE y < x
    <3>1. <<y, x>> \in Less
      BY <2>1, <2>2
    <3>2. QED
      BY <3>1, <1>2
  <2>3. QED
    BY <2>1, <2>2
<1>4. QED
  BY <1>3 DEF Min

LEMMA EndsOfInterval ==
    ASSUME NEW a \in Int, NEW b \in Int, a <= b
    PROVE  Min(a..b) = a /\ Max(a..b) = b
<1>1. a \in a..b /\ b \in a..b
  OBVIOUS
<1>2. \A x \in a..b : (\A y \in a..b : x <= y) => x = a
  <2>1. ASSUME NEW x \in a..b, \A y \in a..b : x <= y PROVE x = a
    <3>1. x <= a /\ x \in Int /\ a <= x
      BY <1>1, <2>1
    <3>2. QED
      BY <3>1
  <2>2. QED
    BY <2>1
<1>3. \A x \in a..b : (\A y \in a..b : x >= y) => x = b
  <2>1. ASSUME NEW x \in a..b, \A y \in a..b : x >= y PROVE x = b
    <3>1. x >= b /\ x \in Int /\ x <= b
      BY <1>1, <2>1
    <3>2. QED
      BY <3>1
  <2>2. QED
    BY <2>1
<1>4. (\A y \in a..b : a <= y) /\ \A y \in a..b : b >= y
  OBVIOUS
<1>5. QED
  BY <1>1, <1>2, <1>3, <1>4 DEF Min, Max

(* The boundaries between segments before unit i.                          *)
Cuts(u, i) == {j \in 2..i : "chunk" \in {u[j - 1], u[j]}}

LEMMA CutsAreFinite ==
    ASSUME NEW u, NEW i \in Nat
    PROVE  IsFiniteSet(Cuts(u, i)) /\ SegmentOf(u, i) = Cardinality(Cuts(u, i)) /\ SegmentOf(u, i) \in Nat
<1>1. IsFiniteSet(2..i)
  BY FS_Interval
<1>2. IsFiniteSet(Cuts(u, i))
  BY <1>1, FS_Subset DEF Cuts
<1>3. QED
  BY <1>2, FS_CardinalityType DEF SegmentOf, Cuts

LEMMA FirstSegmentIsZero ==
    ASSUME NEW u
    PROVE  SegmentOf(u, 1) = 0
<1>1. Cuts(u, 1) = {}
  BY DEF Cuts
<1>2. QED
  BY <1>1, CutsAreFinite, FS_EmptySet

LEMMA NextUnitsSegment ==
    ASSUME NEW u, NEW i \in Nat \ {0}
    PROVE  SegmentOf(u, i + 1) = IF "chunk" \in {u[i], u[i + 1]} THEN SegmentOf(u, i) + 1 ELSE SegmentOf(u, i)
<1>1. IsFiniteSet(Cuts(u, i)) /\ SegmentOf(u, i) = Cardinality(Cuts(u, i))
      /\ SegmentOf(u, i + 1) = Cardinality(Cuts(u, i + 1))
  BY CutsAreFinite
<1>2. 2..(i + 1) = 2..i \cup {i + 1} /\ i + 1 \notin 2..i /\ (i + 1) - 1 = i
  OBVIOUS
<1>3. i + 1 \notin Cuts(u, i)
  BY <1>2 DEF Cuts
<1>4. CASE "chunk" \in {u[i], u[i + 1]}
  <2>1. Cuts(u, i + 1) = Cuts(u, i) \cup {i + 1}
    BY <1>2, <1>4 DEF Cuts
  <2>2. QED
    BY <2>1, <1>1, <1>3, <1>4, FS_AddElement
<1>5. CASE "chunk" \notin {u[i], u[i + 1]}
  <2>1. Cuts(u, i + 1) = Cuts(u, i)
    BY <1>2, <1>5 DEF Cuts
  <2>2. QED
    BY <2>1, <1>1, <1>5
<1>6. QED
  BY <1>4, <1>5

LEMMA SegmentsGrow ==
    ASSUME NEW u, NEW i \in Nat, NEW j \in Nat, i <= j
    PROVE  SegmentOf(u, i) <= SegmentOf(u, j)
<1>1. Cuts(u, i) \subseteq Cuts(u, j)
  BY DEF Cuts
<1>2. QED
  BY <1>1, CutsAreFinite, FS_Subset

(* A chunked unit is a segment of its own.                                 *)
LEMMA ChunkIsAlone ==
    ASSUME NEW u, NEW i \in Nat \ {0}, NEW j \in Nat \ {0}, u[i] = "chunk", SegmentOf(u, j) = SegmentOf(u, i)
    PROVE  j = i
<1>1. SegmentOf(u, i) \in Nat /\ SegmentOf(u, j) \in Nat
  BY CutsAreFinite
<1>2. CASE j < i
  <2>1. i - 1 \in Nat \ {0} /\ j <= i - 1 /\ (i - 1) + 1 = i
    BY <1>2
  <2>2. SegmentOf(u, j) <= SegmentOf(u, i - 1)
    BY <2>1, SegmentsGrow
  <2>3. SegmentOf(u, (i - 1) + 1) = SegmentOf(u, i - 1) + 1
    BY <2>1, NextUnitsSegment
  <2>4. SegmentOf(u, i - 1) \in Nat /\ SegmentOf(u, i) = SegmentOf(u, i - 1) + 1
    BY <2>1, <2>3, CutsAreFinite
  <2>5. QED
    BY <1>1, <2>2, <2>4
<1>3. CASE i < j
  <2>1. i + 1 \in Nat /\ i + 1 <= j
    BY <1>3
  <2>2. SegmentOf(u, i + 1) <= SegmentOf(u, j)
    BY <2>1, SegmentsGrow
  <2>3. SegmentOf(u, i + 1) = SegmentOf(u, i) + 1
    BY NextUnitsSegment
  <2>4. QED
    BY <1>1, <2>2, <2>3
<1>4. QED
  BY <1>2, <1>3

LEMMA PlainIsOneSegment ==
    ASSUME NEW u \in Seq(UnitKinds), ~Chunked(u), NEW i \in 1..Len(u)
    PROVE  SegmentOf(u, i) = 0
<1>1. Cuts(u, i) = {}
  <2>1. ASSUME NEW j \in 2..i PROVE "chunk" \notin {u[j - 1], u[j]}
    <3>1. j - 1 \in DOMAIN u /\ j \in DOMAIN u
      OBVIOUS
    <3>2. QED
      BY <3>1 DEF Chunked
  <2>2. QED
    BY <2>1 DEF Cuts
<1>2. QED
  BY <1>1, CutsAreFinite, FS_EmptySet

LEMMA SegmentEnds ==
    ASSUME NEW u \in Seq(UnitKinds), NEW i \in 1..Len(u)
    PROVE  /\ EndsSegment(u, i) /\ i # Len(u) => SegmentOf(u, i + 1) = SegmentOf(u, i) + 1
           /\ u[i] = "chunk" => EndsSegment(u, i)
           /\ ~EndsSegment(u, i) =>
                 /\ i + 1 \in 1..Len(u) /\ u[i] # "chunk" /\ u[i + 1] # "chunk"
                 /\ SegmentOf(u, i + 1) = SegmentOf(u, i)
<1>1. SegmentOf(u, i) \in Nat /\ SegmentOf(u, i + 1) \in Nat
  BY CutsAreFinite
<1>2. SegmentOf(u, i + 1) = IF "chunk" \in {u[i], u[i + 1]} THEN SegmentOf(u, i) + 1 ELSE SegmentOf(u, i)
  BY NextUnitsSegment
<1>3. i # Len(u) => i + 1 \in 1..Len(u)
  OBVIOUS
<1>4. QED
  BY <1>1, <1>2, <1>3 DEF EndsSegment

LEMMA FirstOfSegment ==
    ASSUME NEW u \in Seq(UnitKinds), NEW s, NEW i \in DOMAIN u, SegmentOf(u, i) = s
    PROVE  /\ FirstOf(u, s) \in DOMAIN u /\ SegmentOf(u, FirstOf(u, s)) = s
           /\ \A j \in DOMAIN u : SegmentOf(u, j) = s => FirstOf(u, s) <= j
<1> DEFINE S == {j \in DOMAIN u : SegmentOf(u, j) = s}
<1>1. S \in SUBSET Nat /\ S # {}
  OBVIOUS
<1>2. FirstOf(u, s) = Min(S)
  BY DEF FirstOf
<1>3. Min(S) \in S /\ \A x \in S : Min(S) <= x
  <2> HIDE DEF S
  <2>1. QED
    BY <1>1, LeastIsThere
<1>4. QED
  BY <1>2, <1>3

-----------------------------------------------------------------------------
(* What a transaction's writes do to the database.                         *)

DbTyped ==
    /\ ledger \in [Migrations -> {0} \cup Versions]
    /\ progress \in [Migrations -> [Ways -> Row]]
    /\ done \in [Migrations -> [Ways -> SUBSET Work]]
    /\ repeats \subseteq Migrations \X Ways \X Work

(* The writes t of a run of migration m take effect.                       *)
Effect(m, w, t) ==
    /\ done'[m][w] = done[m][w] \cup t.work
    /\ progress'[m][w] = IF t.row = KeepRow THEN progress[m][w] ELSE t.row
    /\ \A x \in Ways \ {w} :
          /\ done'[m][x] = IF t.entry = Keep THEN done[m][x] ELSE {}
          /\ progress'[m][x] = progress[m][x]
    /\ ledger'[m] = IF t.entry = Keep THEN ledger[m] ELSE t.entry
    /\ \A n \in Migrations \ {m} : done'[n] = done[n] /\ progress'[n] = progress[n] /\ ledger'[n] = ledger[n]
    /\ repeats' = repeats \cup {<<m, w, x>> : x \in t.work \cap done[m][w]}

LEMMA RowsDiffer ==
    /\ NoRow \in Row /\ KeepRow \notin Row /\ NoRow # KeepRow
    /\ NoRow.hash = 0 /\ NoRow.segment = 0 /\ NoRow.cursor = 0
    /\ KeepRow.hash = Keep /\ KeepRow.segment = 0 /\ KeepRow.cursor = 0
    /\ Nothing \in Writes /\ Nothing.work = {} /\ Nothing.row = KeepRow /\ Nothing.entry = Keep
    /\ Keep \notin {0} \cup Versions
<1>1. Keep \notin {0} \cup Versions /\ Keep # 0
  BY DEF Keep
<1>2. NoRow = [hash |-> 0, segment |-> 0, cursor |-> 0]
  BY DEF NoRow
<1>3. KeepRow = [hash |-> Keep, segment |-> 0, cursor |-> 0]
  BY DEF KeepRow, NoRow
<1>4. NoRow \in Row
  BY <1>2 DEF Row
<1>5. KeepRow.hash = Keep
  BY <1>3
<1>6. KeepRow \notin Row
  BY <1>1, <1>5 DEF Row
<1>7. Nothing \in Writes /\ Nothing.work = {} /\ Nothing.row = KeepRow /\ Nothing.entry = Keep
  BY DEF Nothing, Writes
<1>8. QED
  BY <1>1, <1>2, <1>3, <1>4, <1>6, <1>7

LEMMA OtherWay ==
    ASSUME NEW w \in Ways
    PROVE  (CHOOSE x \in Ways : x # w) \in Ways \ {w} /\ \A x \in Ways \ {w} : x = CHOOSE y \in Ways : y # w
<1>1. \E x \in Ways : x # w
  BY DEF Ways
<1>2. (CHOOSE x \in Ways : x # w) \in Ways \ {w}
  BY <1>1
<1>3. QED
  BY <1>2 DEF Ways

LEMMA PublishTakesEffect ==
    ASSUME Typed, NEW p \in Procs, job[p].m \in Migrations, NEW t \in Writes, Publish(p, t)
    PROVE  DbTyped' /\ Effect(job[p].m, job[p].way, t)
<1>1. PICK m \in Migrations : m = job[p].m
  OBVIOUS
<1>2. PICK w \in Ways : w = job[p].way
  BY DEF Typed, Jobs
<1>3. PICK o \in Ways \ {w} : o = (CHOOSE x \in Ways : x # w) /\ \A x \in Ways \ {w} : x = o
  <2> DEFINE c == CHOOSE x \in Ways : x # w
  <2>1. c \in Ways \ {w} /\ \A x \in Ways \ {w} : x = c
    BY OtherWay
  <2> HIDE DEF c
  <2>2. \E o \in Ways \ {w} : o = c /\ \A x \in Ways \ {w} : x = o
    BY <2>1
  <2>3. QED
    BY <2>2 DEF c
<1>4. /\ done' = [done EXCEPT ![m][w] = done[m][w] \cup t.work, ![m][o] = IF t.entry = Keep THEN @ ELSE {}]
      /\ repeats' = repeats \cup {<<m, w, x>> : x \in t.work \cap done[m][w]}
      /\ progress' = IF t.row = KeepRow THEN progress ELSE [progress EXCEPT ![m][w] = t.row]
      /\ ledger' = IF t.entry = Keep THEN ledger ELSE [ledger EXCEPT ![m] = t.entry]
  BY <1>1, <1>2, <1>3 DEF Publish
<1>5. /\ ledger \in [Migrations -> {0} \cup Versions]
      /\ progress \in [Migrations -> [Ways -> Row]]
      /\ done \in [Migrations -> [Ways -> SUBSET Work]]
      /\ repeats \subseteq Migrations \X Ways \X Work
  BY DEF Typed
<1>6. t.work \subseteq Work /\ t.row \in Row \cup {KeepRow} /\ t.entry \in {Keep, 0} \cup Versions
  BY DEF Writes
<1>7. /\ done' \in [Migrations -> [Ways -> SUBSET Work]]
      /\ done'[m][w] = done[m][w] \cup t.work
      /\ done'[m][o] = IF t.entry = Keep THEN done[m][o] ELSE {}
      /\ \A n \in Migrations \ {m} : done'[n] = done[n]
  <2> DEFINE mine == [done[m] EXCEPT ![w] = done[m][w] \cup t.work]
             both == [mine EXCEPT ![o] = IF t.entry = Keep THEN @ ELSE {}]
  <2>1. done' = [done EXCEPT ![m] = both]
    BY <1>4, <1>5
  <2>2. mine \in [Ways -> SUBSET Work] /\ mine[w] = done[m][w] \cup t.work /\ mine[o] = done[m][o]
    BY <1>5, <1>6
  <2> HIDE DEF mine
  <2>3. both \in [Ways -> SUBSET Work] /\ both[w] = mine[w] /\ both[o] = IF t.entry = Keep THEN mine[o] ELSE {}
    BY <2>2
  <2> HIDE DEF both
  <2>4. QED
    BY <1>5, <2>1, <2>2, <2>3
<1>8. /\ progress' \in [Migrations -> [Ways -> Row]]
      /\ progress'[m][w] = IF t.row = KeepRow THEN progress[m][w] ELSE t.row
      /\ progress'[m][o] = progress[m][o]
      /\ \A n \in Migrations \ {m} : progress'[n] = progress[n]
  BY <1>4, <1>5, <1>6
<1>9. /\ ledger' \in [Migrations -> {0} \cup Versions]
      /\ ledger'[m] = IF t.entry = Keep THEN ledger[m] ELSE t.entry
      /\ \A n \in Migrations \ {m} : ledger'[n] = ledger[n]
  BY <1>4, <1>5, <1>6
<1>10. repeats' \subseteq Migrations \X Ways \X Work
  <2>1. \A x \in t.work : <<m, w, x>> \in Migrations \X Ways \X Work
    BY <1>6
  <2>2. QED
    BY <2>1, <1>4, <1>5
<1>11. DbTyped'
  BY <1>7, <1>8, <1>9, <1>10 DEF DbTyped
<1>12. Effect(m, w, t)
  BY <1>3, <1>4, <1>7, <1>8, <1>9 DEF Effect
<1>13. QED
  BY <1>1, <1>2, <1>11, <1>12

LEMMA NothingTakesEffect ==
    ASSUME Typed, NEW p \in Procs, job[p].m \in Migrations, UNCHANGED db
    PROVE  DbTyped' /\ Effect(job[p].m, job[p].way, Nothing)
<1>1. UNCHANGED <<ledger, progress, done, repeats>>
  BY DEF db
<1>2. DbTyped'
  BY <1>1 DEF Typed, DbTyped
<1>3. Nothing.work = {} /\ Nothing.row = KeepRow /\ Nothing.entry = Keep
  BY RowsDiffer
<1>4. QED
  BY <1>1, <1>2, <1>3 DEF Effect

(* Who is applied changes with the ledger row only.                        *)
LEMMA AppliedFollows ==
    ASSUME Typed, NEW m \in Migrations, NEW w, NEW t \in Writes, Effect(m, w, t)
    PROVE  Applied' = IF t.entry = Keep THEN Applied
                      ELSE IF t.entry = 0 THEN Applied \ {m} ELSE Applied \cup {m}
<1>1. /\ ledger'[m] = IF t.entry = Keep THEN ledger[m] ELSE t.entry
      /\ \A n \in Migrations \ {m} : ledger'[n] = ledger[n]
  BY DEF Effect
<1>2. QED
  BY <1>1 DEF Applied

-----------------------------------------------------------------------------
(* A step of the one process that applies.                                 *)

InRun == {"run", "close", "entry", "commit"}

(* The process is p, and what it leaves is where a run may be.             *)
StepOf(p) ==
    /\ UNCHANGED <<transactional, disk, edits>> /\ failures' \in 0..MaxFailures
    /\ pc' \in [Procs -> {"idle", "next", "run", "close", "entry", "commit"}]
    /\ job' \in [Procs -> Jobs] /\ tx' \in [Procs -> Writes]

LEMMA StepKeeps ==
    ASSUME OneApplies, PlanInv, NEW p \in Procs, StepOf(p), DbTyped', RowsPoint', Contiguous', RunFits(p)'
    PROVE  PlanInv'
<1>1. \A q \in Procs : q = p
  BY DEF OneApplies
<1>2. \A q \in Procs : RunFits(q)'
  BY <1>1
<1>3. Typed'
  BY DEF PlanInv, Typed, StepOf, DbTyped
<1>4. \A m \in Migrations : disk'[m].down = 1
  BY DEF PlanInv, StepOf
<1>5. QED
  BY <1>2, <1>3, <1>4 DEF PlanInv

LEMMA PlanGivesPrefix ==
    ASSUME NEW p \in Procs, Planned(p)
    PROVE  Contiguous
BY DEF Planned, Contiguous

(* What a run works on stays.                                              *)
SameRun(p) ==
    /\ job'[p].down = job[p].down /\ job'[p].up = job[p].up /\ job'[p].target = job[p].target
    /\ job'[p].files = job[p].files /\ job'[p].m = job[p].m /\ job'[p].way = job[p].way

LEMMA SameRunSameScript ==
    ASSUME NEW p \in Procs, SameRun(p)
    PROVE  Current(p)' = Current(p) /\ Version(p)' = Version(p)
BY DEF SameRun, Current, Version, Script

LEMMA PlanStays ==
    ASSUME NEW p \in Procs, Planned(p), pc[p] \in InRun, pc'[p] \in InRun, SameRun(p), Applied' = Applied,
           Entered(p)' <=> Entered(p)
    PROVE  Planned(p)'
<1>1. PICK last \in 0..N, k \in 0..N :
        /\ job[p].target = 1..last
        /\ Applied = 1..k
        /\ job[p].way = "up" =>
              /\ job[p].m \in 1..last /\ job[p].down = {} /\ job[p].up = (job[p].m + 1)..last
              /\ job[p].m = (IF Entered(p) THEN k ELSE k + 1)
        /\ job[p].way = "down" =>
              /\ job[p].m \in (last + 1)..N /\ job[p].down = (last + 1)..(job[p].m - 1) /\ job[p].up = {}
              /\ job[p].m = (IF Entered(p) THEN k + 1 ELSE k)
  BY DEF Planned, InRun
<1>2. pc'[p] # "next"
  BY DEF InRun
<1>3. QED
  BY <1>1, <1>2 DEF SameRun, Planned

LEMMA RunIsTyped ==
    ASSUME Typed, NEW p \in Procs, job[p].m \in Migrations
    PROVE  /\ job[p].way \in Ways /\ Version(p) \in Versions /\ Current(p) \in Seq(UnitKinds)
           /\ job[p].files[job[p].m].up \in Versions /\ job[p].files[job[p].m].down \in Versions
           /\ Current(p) = (IF job[p].way = "up" THEN UpScript[job[p].m][Version(p)]
                            ELSE DownScript[job[p].m][Version(p)])
           /\ job[p].at \in Nat /\ job[p].cursor \in 0..Batches /\ job[p].auto \in BOOLEAN
           /\ tx[p] \in Writes
<1>1. job[p] \in Jobs /\ tx[p] \in Writes
  BY DEF Typed
<1>2. /\ job[p].way \in Ways /\ job[p].files \in [Migrations -> Files]
      /\ job[p].at \in Nat /\ job[p].cursor \in 0..Batches /\ job[p].auto \in BOOLEAN
  BY <1>1 DEF Jobs
<1>3. job[p].files[job[p].m] \in Files
  BY <1>2
<1>4. job[p].files[job[p].m].up \in Versions /\ job[p].files[job[p].m].down \in Versions
  BY <1>3 DEF Files
<1>5. Current(p) = (IF job[p].way = "up" THEN UpScript[job[p].m][job[p].files[job[p].m].up]
                    ELSE DownScript[job[p].m][job[p].files[job[p].m].down])
  BY DEF Current, Script
<1>6. Version(p) \in Versions
  BY <1>4 DEF Version
<1>7. Current(p) \in Seq(UnitKinds)
  <2>1. \A m \in Migrations, v \in Versions : UpScript[m][v] \in Seq(UnitKinds) /\ DownScript[m][v] \in Seq(UnitKinds)
    OBVIOUS
  <2>2. QED
    BY <1>4, <1>5, <2>1
<1>8. QED
  BY <1>1, <1>2, <1>4, <1>5, <1>6, <1>7 DEF Version

(* A write takes effect at once, or with the rest of its transaction.      *)
LEMMA WriteIsLater ==
    ASSUME Typed, NEW p \in Procs, job[p].m \in Migrations, NEW t \in Writes, Write(p, t)
    PROVE  /\ DbTyped' /\ tx' \in [Procs -> Writes]
           /\ job[p].auto => Effect(job[p].m, job[p].way, t) /\ tx'[p] = tx[p]
           /\ ~job[p].auto => /\ Effect(job[p].m, job[p].way, Nothing) /\ tx'[p] = t
                              /\ UNCHANGED <<ledger, progress, done, repeats>>
<1>1. tx \in [Procs -> Writes]
  BY DEF Typed
<1>2. CASE job[p].auto
  BY <1>1, <1>2, PublishTakesEffect DEF Write
<1>3. CASE ~job[p].auto
  <2>1. tx' = [tx EXCEPT ![p] = t] /\ UNCHANGED db
    BY <1>3 DEF Write
  <2>2. DbTyped' /\ Effect(job[p].m, job[p].way, Nothing)
    BY <2>1, NothingTakesEffect
  <2>3. UNCHANGED <<ledger, progress, done, repeats>>
    BY <2>1 DEF db
  <2>4. QED
    BY <2>1, <2>2, <2>3, <1>1, <1>3
<1>4. QED
  BY <1>2, <1>3

(* A progress row that is written points into its script.                  *)
RowPoints(p, row) ==
    /\ job[p].way = "up" => row.hash = job[p].files[job[p].m].up
    /\ Points(Current(p), row)

LEMMA RowsStayPointing ==
    ASSUME PlanInv, NEW p \in Procs, job[p].m \in Migrations, \A m \in Migrations : job[p].files[m].down = 1,
           NEW t \in Writes, Effect(job[p].m, job[p].way, t),
           t.row \in {KeepRow, NoRow} \/ RowPoints(p, t.row)
    PROVE  RowsPoint'
<1>1. PICK m \in Migrations : m = job[p].m
  OBVIOUS
<1>2. Typed /\ RowsPoint
  BY DEF PlanInv
<1>3. PICK w \in Ways : w = job[p].way
  BY <1>2, RunIsTyped
<1>4. /\ progress'[m][w] = IF t.row = KeepRow THEN progress[m][w] ELSE t.row
      /\ \A x \in Ways \ {w} : progress'[m][x] = progress[m][x]
      /\ \A n \in Migrations \ {m} : progress'[n] = progress[n]
  BY <1>1, <1>3 DEF Effect
<1>5. ASSUME NEW n \in Migrations, n # m
      PROVE  /\ progress'[n]["up"] # NoRow =>
                   /\ progress'[n]["up"].hash \in Versions
                   /\ Points(UpScript[n][progress'[n]["up"].hash], progress'[n]["up"])
             /\ Points(DownScript[n][1], progress'[n]["down"])
  BY <1>2, <1>4, <1>5 DEF RowsPoint
<1>6. /\ progress'[m]["up"] # NoRow =>
            /\ progress'[m]["up"].hash \in Versions
            /\ Points(UpScript[m][progress'[m]["up"].hash], progress'[m]["up"])
      /\ Points(DownScript[m][1], progress'[m]["down"])
  <2>1. "up" \in Ways /\ "down" \in Ways /\ Ways = {"up", "down"}
    BY DEF Ways
  <2>2. /\ progress[m]["up"] # NoRow =>
            /\ progress[m]["up"].hash \in Versions
            /\ Points(UpScript[m][progress[m]["up"].hash], progress[m]["up"])
        /\ Points(DownScript[m][1], progress[m]["down"])
    BY <1>2 DEF RowsPoint
  <2>3. \A x \in Ways : progress'[m][x] = progress[m][x] \/ (x = w /\ progress'[m][x] = t.row /\ t.row # KeepRow)
    BY <1>4
  <2>4. CASE t.row \in {KeepRow, NoRow}
    <3>1. \A x \in Ways : progress'[m][x] = progress[m][x] \/ progress'[m][x] = NoRow
      BY <2>3, <2>4
    <3>2. \A u : Points(u, NoRow)
      BY DEF Points
    <3>3. QED
      BY <2>1, <2>2, <3>1, <3>2
  <2>5. CASE RowPoints(p, t.row)
    <3>1. /\ Current(p) = (IF w = "up" THEN UpScript[m][job[p].files[m].up] ELSE DownScript[m][1])
          /\ job[p].files[m].up \in Versions
      BY <1>1, <1>2, <1>3, RunIsTyped DEF Version
    <3>2. /\ w = "up" => t.row.hash = job[p].files[m].up
          /\ Points(Current(p), t.row)
      BY <2>5, <1>1, <1>3 DEF RowPoints
    <3>3. CASE w = "up"
      BY <2>1, <2>2, <2>3, <3>1, <3>2, <3>3
    <3>4. CASE w = "down"
      BY <2>1, <2>2, <2>3, <3>1, <3>2, <3>4
    <3>5. QED
      BY <2>1, <3>3, <3>4
  <2>6. QED
    BY <2>4, <2>5
<1>7. QED
  BY <1>5, <1>6 DEF RowsPoint

-----------------------------------------------------------------------------
(* apply begins, plans and ends.                                           *)

LEMMA NoJobIsTyped == NoJob \in Jobs
<1>1. FirstFiles \in [Migrations -> Files]
  BY DEF FirstFiles, Files
<1>2. QED
  BY <1>1 DEF NoJob, Jobs, Ways

LEMMA InitHolds == Init => PlanInv
<1> SUFFICES ASSUME Init PROVE PlanInv
  OBVIOUS
<1>1. \A m \in Migrations : disk[m] \in Files /\ disk[m].down = 1
  BY DEF Init, FirstFiles, Files
<1>2. disk \in [Migrations -> Files]
  BY <1>1 DEF Init, FirstFiles
<1>3. NoRow \in Row /\ Nothing \in Writes
  BY RowsDiffer
<1>4. ledger \in [Migrations -> {0} \cup Versions] /\ Applied = {}
  BY DEF Init, Applied
<1>5. progress \in [Migrations -> [Ways -> Row]] /\ done \in [Migrations -> [Ways -> SUBSET Work]]
  BY <1>3 DEF Init
<1>6. Typed
  BY <1>2, <1>3, <1>4, <1>5, NoJobIsTyped DEF Init, Typed
<1>7. Contiguous
  <2>1. 1..0 = {} /\ 0 \in 0..N
    OBVIOUS
  <2>2. QED
    BY <2>1, <1>4 DEF Contiguous
<1>8. RowsPoint
  BY DEF Init, RowsPoint, Points, Ways
<1>9. \A p \in Procs : RunFits(p)
  BY DEF Init, RunFits
<1>10. QED
  BY <1>1, <1>6, <1>7, <1>8, <1>9 DEF PlanInv

LEMMA LeavingKeeps ==
    ASSUME OneApplies, PlanInv, NEW p \in Procs, Leave(p), UNCHANGED <<transactional, disk, edits>>,
           failures' \in 0..MaxFailures, DbTyped', RowsPoint', Contiguous'
    PROVE  PlanInv'
<1>1. Typed
  BY DEF PlanInv
<1>2. /\ pc' = [pc EXCEPT ![p] = "idle"] /\ job' = [job EXCEPT ![p] = NoJob]
      /\ tx' = [tx EXCEPT ![p] = Nothing]
  BY DEF Leave, Goto
<1>3. Nothing \in Writes /\ NoJob \in Jobs
  BY NoJobIsTyped, RowsDiffer
<1>4. StepOf(p)
  BY <1>1, <1>2, <1>3 DEF StepOf, Typed
<1>5. pc'[p] = "idle" /\ tx'[p] = Nothing
  BY <1>1, <1>2 DEF Typed
<1>6. RunFits(p)'
  BY <1>5 DEF RunFits
<1>7. QED
  BY <1>4, <1>6, StepKeeps

LEMMA DbStays ==
    ASSUME PlanInv, UNCHANGED db
    PROVE  DbTyped' /\ RowsPoint' /\ Contiguous' /\ Applied' = Applied
<1>1. UNCHANGED <<ledger, progress, done, repeats>>
  BY DEF db
<1>2. Applied' = Applied
  BY <1>1 DEF Applied
<1>3. QED
  BY <1>1, <1>2 DEF PlanInv, Typed, DbTyped, RowsPoint, Contiguous

LEMMA EndingKeeps ==
    ASSUME OneApplies, PlanInv, NEW p \in Procs, ReturnReport(p) \/ Refuse(p) \/ Interrupt(p) \/ EntryRefused(p)
                                                 \/ StatementRefused(p)
    PROVE  PlanInv'
<1>1. Leave(p) /\ UNCHANGED <<transactional, disk, edits>> /\ UNCHANGED db
  BY DEF ReturnReport, Refuse, Interrupt, EntryRefused, StatementRefused
<1>2. failures' \in 0..MaxFailures
  BY DEF ReturnReport, Refuse, Interrupt, EntryRefused, StatementRefused, PlanInv, Typed
<1>3. DbTyped' /\ RowsPoint' /\ Contiguous'
  BY <1>1, DbStays
<1>4. QED
  BY <1>1, <1>2, <1>3, LeavingKeeps

LEMMA KeepMaxIsNat ==
    ASSUME NEW k \in 0..N, Applied = 1..k, NEW have \in 0..N, NEW n \in 0..N, k <= have,
           NEW direction \in {"up", "down", "to"}
    PROVE  KeepMax(direction, n, have) \in Nat
<1>1. CASE direction = "up"
  BY <1>1 DEF KeepMax
<1>2. CASE direction = "to"
  BY <1>2 DEF KeepMax
<1>3. CASE direction = "down"
  <2>1. Reversible(have) = 1..k
    BY DEF Reversible
  <2>2. KeepMax(direction, n, have)
           = IF Cardinality(Reversible(have)) < 2 THEN 0
             ELSE Max(Reversible(have) \ {Max(Reversible(have))})
    BY <1>3 DEF KeepMax
  <2>3. Cardinality(1..k) = k
    <3>1. Cardinality(1..k) = IF 1 > k THEN 0 ELSE k - 1 + 1
      BY FS_Interval
    <3>2. QED
      BY <3>1
  <2>4. CASE k < 2
    BY <2>1, <2>2, <2>3, <2>4
  <2>5. CASE k >= 2
    <3>1. Max(1..k) = k
      BY <2>5, EndsOfInterval
    <3>2. 1..k \ {k} = 1..(k - 1)
      OBVIOUS
    <3>3. Max(1..(k - 1)) = k - 1
      <4>1. 1 <= k - 1 /\ k - 1 \in Int
        BY <2>5
      <4>2. QED
        BY <4>1, EndsOfInterval
    <3>4. KeepMax(direction, n, have) = k - 1
      <4>1. ~(Cardinality(Reversible(have)) < 2)
        BY <2>1, <2>3, <2>5
      <4>2. Max(Reversible(have)) = k
        BY <2>1, <3>1
      <4>3. Reversible(have) \ {Max(Reversible(have))} = 1..(k - 1)
        BY <2>1, <4>2, <3>2
      <4>4. QED
        BY <2>2, <4>1, <4>3, <3>3
    <3>5. QED
      BY <3>4, <2>5
  <2>6. QED
    BY <2>4, <2>5
<1>4. QED
  BY <1>1, <1>2, <1>3

LEMMA StartKeeps ==
    ASSUME OneApplies, PlanInv, NEW p \in Procs, StartAny(p)
    PROVE  PlanInv'
<1>1. PICK have \in 0..N, direction \in Directions, n \in 0..N, ack \in BOOLEAN : Start(p, have, direction, n, ack)
  BY DEF StartAny
<1>2. Typed /\ RowsPoint /\ RunFits(p)
  BY DEF PlanInv
<1>3. PICK k \in 0..N : Applied = 1..k
  BY DEF PlanInv, Contiguous
<1>4. k <= have
  <2>1. Applied \subseteq 1..have
    BY <1>1 DEF Start, LedgerTrusted
  <2>2. k = 0 \/ k \in 1..k
    OBVIOUS
  <2>3. k = 0 \/ k \in 1..have
    BY <2>1, <2>2, <1>3
  <2>4. QED
    BY <2>3
<1>5. PICK keep \in Nat : keep = KeepMax(direction, n, have)
  BY <1>3, <1>4, KeepMaxIsNat
<1>6. PICK last \in 0..N : (keep < have => last = keep) /\ (keep >= have => last = have)
  <2>1. CASE keep < have
    BY <2>1
  <2>2. CASE keep >= have
    BY <2>2
  <2>3. QED
    BY <2>1, <2>2
<1>7. /\ pc[p] = "idle" /\ UNCHANGED <<transactional, disk, tx, edits, failures>> /\ UNCHANGED db
      /\ pc' = [pc EXCEPT ![p] = "next"]
      /\ job' = [job EXCEPT ![p] = [NoJob EXCEPT
           !.down = {m \in Reversible(have) : m > keep},
           !.up = {m \in 1..have \ Applied : m <= keep},
           !.target = {m \in 1..have : m <= keep},
           !.files = disk,
           !.ack = ack]]
  BY <1>1, <1>5 DEF Start, Goto
<1>8. {m \in Reversible(have) : m > keep} = (last + 1)..k
  BY <1>3, <1>4, <1>6 DEF Reversible
<1>9. {m \in 1..have \ Applied : m <= keep} = (k + 1)..last
  BY <1>3, <1>4, <1>6
<1>10. {m \in 1..have : m <= keep} = 1..last
  BY <1>6
<1>11. PICK j : j = [NoJob EXCEPT !.down = (last + 1)..k, !.up = (k + 1)..last, !.target = 1..last,
                     !.files = disk, !.ack = ack]
  OBVIOUS
<1>12. job' = [job EXCEPT ![p] = j]
  BY <1>7, <1>8, <1>9, <1>10, <1>11
<1>13. j \in Jobs /\ j.down = (last + 1)..k /\ j.up = (k + 1)..last /\ j.target = 1..last /\ j.files = disk
  <2>1. NoJob \in Jobs
    BY NoJobIsTyped
  <2>2. (last + 1)..k \in SUBSET Migrations /\ (k + 1)..last \in SUBSET Migrations /\ 1..last \in SUBSET Migrations
    BY DEF Migrations
  <2>3. disk \in [Migrations -> Files]
    BY <1>2 DEF Typed
  <2>4. QED
    BY <2>1, <2>2, <2>3, <1>11 DEF Jobs
<1>14. job' \in [Procs -> Jobs] /\ job'[p] = j
  BY <1>2, <1>12, <1>13 DEF Typed
<1>15. StepOf(p) /\ pc'[p] = "next" /\ tx'[p] = tx[p]
  BY <1>2, <1>7, <1>14 DEF StepOf, Typed
<1>16. DbTyped' /\ RowsPoint' /\ Contiguous' /\ Applied' = Applied
  BY <1>7, DbStays
<1>17. Planned(p)'
  BY <1>3, <1>13, <1>14, <1>15, <1>16 DEF Planned
<1>18. \A m \in Migrations : job'[p].files[m].down = 1
  BY <1>13, <1>14 DEF PlanInv
<1>19. RunFits(p)'
  BY <1>2, <1>7, <1>15, <1>17, <1>18 DEF RunFits
<1>20. QED
  BY <1>15, <1>16, <1>19, StepKeeps

LEMMA EditKeeps ==
    ASSUME DownsStand, PlanInv, NEW m \in Migrations, NEW way \in EditWays, Edit(m, way)
    PROVE  PlanInv' /\ \A n \in Migrations : disk'[n].down = 1
<1>1. Typed
  BY DEF PlanInv
<1>2. way = "up"
  BY DEF DownsStand, Ways
<1>3. PICK v \in Versions : disk' = [disk EXCEPT ![m][way] = v]
  BY DEF Edit
<1>4. disk \in [Migrations -> Files]
  BY <1>1 DEF Typed
<1>5. disk' = [disk EXCEPT ![m] = [disk[m] EXCEPT !.up = v]]
  BY <1>2, <1>3
<1>6. [disk[m] EXCEPT !.up = v] \in Files /\ [disk[m] EXCEPT !.up = v].down = disk[m].down
  BY <1>4 DEF Files
<1>7. disk' \in [Migrations -> Files] /\ \A n \in Migrations : disk'[n].down = disk[n].down
  BY <1>4, <1>5, <1>6
<1>8. UNCHANGED <<transactional, ledger, progress, done, repeats, pc, job, tx, failures>> /\ edits' \in 0..MaxEdits
  BY <1>1 DEF Edit, db, Typed
<1>9. Typed'
  BY <1>1, <1>7, <1>8 DEF Typed
<1>10. Applied' = Applied
  BY <1>8 DEF Applied
<1>11. Contiguous' /\ RowsPoint'
  BY <1>8, <1>10 DEF PlanInv, Contiguous, RowsPoint
<1>12. ASSUME NEW p \in Procs PROVE RunFits(p)'
  <2>1. RunFits(p)
    BY DEF PlanInv
  <2>2. Current(p)' = Current(p) /\ LastSegment(p)' = LastSegment(p)
    BY <1>8 DEF Current, Script, LastSegment
  <2>3. Entered(p)' = Entered(p) /\ AtEnd(p)' = AtEnd(p) /\ NextSegment(p)' = NextSegment(p)
    BY <1>8, <2>2 DEF Entered, AtEnd, NextSegment
  <2>4. \A c : BatchWrites(p, c)' = BatchWrites(p, c)
    BY <1>8, <2>2 DEF BatchWrites, Version
  <2>5. Running(p)' = Running(p)
    BY <1>8, <2>2, <2>3, <2>4 DEF Running, InBatch, InMove, InEntry
  <2>6. Planned(p)' = Planned(p)
    BY <1>8, <1>10, <2>3 DEF Planned
  <2>7. QED
    BY <1>8, <2>1, <2>5, <2>6 DEF RunFits
<1>13. QED
  BY <1>7, <1>9, <1>11, <1>12 DEF PlanInv

-----------------------------------------------------------------------------
(* A run begins.                                                           *)

LEMMA WithoutLast ==
    ASSUME NEW a \in Int, NEW b \in Int
    PROVE  (a + 1)..b \ {b} = (a + 1)..(b - 1)
  OBVIOUS

LEMMA WithoutFirst ==
    ASSUME NEW a \in Int, NEW b \in Int
    PROVE  (a + 1)..b \ {a + 1} = (a + 2)..b
  OBVIOUS

LEMMA NextRunIsPlanned ==
    ASSUME NEW p \in Procs, NEW last \in 0..N, NEW k \in 0..N,
           job[p].down = (last + 1)..k, job[p].up = (k + 1)..last, job[p].down \cup job[p].up # {}
    PROVE  \/ /\ last < k /\ k \in Migrations /\ NextRun(p) = <<k, "down">>
              /\ job[p].down \ {k} = (last + 1)..(k - 1) /\ job[p].up \ {k} = {}
           \/ /\ k < last /\ k + 1 \in Migrations /\ NextRun(p) = <<k + 1, "up">>
              /\ job[p].down \ {k + 1} = {} /\ job[p].up \ {k + 1} = (k + 2)..last
<1>1. CASE last < k
  <2>1. last + 1 <= k /\ last + 1 \in Int /\ k \in Int /\ k \in (last + 1)..k
    BY <1>1
  <2>2. Max((last + 1)..k) = k
    BY <2>1, EndsOfInterval
  <2>3. job[p].down # {}
    BY <2>1
  <2>4. NextRun(p) = <<k, "down">>
    BY <2>2, <2>3 DEF NextRun
  <2>5. (last + 1)..k \ {k} = (last + 1)..(k - 1)
    BY WithoutLast
  <2>6. (k + 1)..last = {} /\ k \in Migrations
    BY <1>1 DEF Migrations
  <2>7. QED
    BY <1>1, <2>4, <2>5, <2>6
<1>2. CASE last >= k
  <2>1. (last + 1)..k = {}
    BY <1>2
  <2>2. (k + 1)..last # {}
    BY <2>1
  <2>3. k < last
    BY <2>2
  <2>4. k + 1 <= last /\ k + 1 \in Int /\ last \in Int
    BY <2>3
  <2>5. Min((k + 1)..last) = k + 1
    BY <2>4, EndsOfInterval
  <2>6. NextRun(p) = <<k + 1, "up">>
    BY <2>1, <2>5 DEF NextRun
  <2>7. (k + 1)..last \ {k + 1} = (k + 2)..last
    BY WithoutFirst
  <2>8. k + 1 \in Migrations
    BY <2>3 DEF Migrations
  <2>9. QED
    BY <2>1, <2>3, <2>6, <2>7, <2>8
<1>3. QED
  BY <1>1, <1>2

(* A chunked script is resumed in the segment its progress row points at.  *)
LEMMA ResumedWhereItPoints ==
    ASSUME NEW u \in Seq(UnitKinds), Chunked(u), NEW row \in Row, Points(u, row)
    PROVE  /\ ResumeAt(u, row).at \in DOMAIN u /\ ResumeAt(u, row).cursor = row.cursor
           /\ SegmentOf(u, ResumeAt(u, row).at) = row.segment
           /\ row.cursor # 0 => u[ResumeAt(u, row).at] = "chunk"
           /\ \A j \in DOMAIN u : SegmentOf(u, j) = row.segment => ResumeAt(u, row).at <= j
<1>1. ResumeAt(u, row).at = FirstOf(u, row.segment) /\ ResumeAt(u, row).cursor = row.cursor
  BY DEF ResumeAt
<1>2. PICK i \in DOMAIN u : SegmentOf(u, i) = row.segment /\ (row.cursor # 0 => u[i] = "chunk")
  <2>1. CASE row = NoRow
    <3>1. row.segment = 0 /\ row.cursor = 0
      BY <2>1, RowsDiffer
    <3>2. 1 \in DOMAIN u
      BY DEF Chunked
    <3>3. QED
      BY <3>1, <3>2, FirstSegmentIsZero
  <2>2. CASE row # NoRow
    BY <2>2 DEF Points
  <2>3. QED
    BY <2>1, <2>2
<1>3. /\ FirstOf(u, row.segment) \in DOMAIN u /\ SegmentOf(u, FirstOf(u, row.segment)) = row.segment
      /\ \A j \in DOMAIN u : SegmentOf(u, j) = row.segment => FirstOf(u, row.segment) <= j
  BY <1>2, FirstOfSegment
<1>4. ASSUME row.cursor # 0 PROVE u[FirstOf(u, row.segment)] = "chunk"
  <2>1. i \in Nat \ {0} /\ FirstOf(u, row.segment) \in Nat \ {0} /\ u[i] = "chunk"
    BY <1>2, <1>3, <1>4
  <2>2. FirstOf(u, row.segment) = i
    BY <2>1, <1>2, <1>3, ChunkIsAlone
  <2>3. QED
    BY <2>1, <2>2
<1>5. QED
  BY <1>1, <1>3, <1>4

LEMMA PlainStartsAtOne ==
    ASSUME NEW u \in Seq(UnitKinds), ~Chunked(u)
    PROVE  ResumeAt(u, NoRow).at = 1 /\ ResumeAt(u, NoRow).cursor = 0 /\ (u = << >> <=> ~(1 <= Len(u)))
<1>1. ResumeAt(u, NoRow).at = FirstOf(u, 0) /\ ResumeAt(u, NoRow).cursor = 0
  BY RowsDiffer DEF ResumeAt
<1>2. CASE u = << >>
  BY <1>1, <1>2 DEF FirstOf
<1>3. CASE u # << >>
  <2>1. 1 \in DOMAIN u /\ SegmentOf(u, 1) = 0
    BY <1>3, FirstSegmentIsZero
  <2>2. FirstOf(u, 0) \in DOMAIN u /\ FirstOf(u, 0) <= 1
    BY <2>1, FirstOfSegment
  <2>3. QED
    BY <1>1, <1>3, <2>1, <2>2
<1>4. QED
  BY <1>2, <1>3

(* Where a run of migration m begins.                                      *)
BeginsAt(p, m, way, u, row) ==
    /\ u = Script(p, m, way) /\ u \in Seq(UnitKinds) /\ u = Current(p)'
    /\ row = (IF Chunked(u) THEN progress[m][way] ELSE NoRow) /\ row \in Row
    /\ row # NoRow => row.hash = job[p].files[m].up
    /\ job'[p].m = m /\ job'[p].way = way /\ job'[p].files = job[p].files
    /\ ~job'[p].auto /\ tx'[p] = Nothing /\ job'[p].cursor = row.cursor
    /\ \/ /\ pc'[p] = "run" /\ job'[p].at \in DOMAIN u /\ SegmentOf(u, job'[p].at) = row.segment
          /\ row.cursor # 0 => u[job'[p].at] = "chunk"
          /\ \A j \in DOMAIN u : SegmentOf(u, j) = row.segment => job'[p].at <= j
       \/ pc'[p] = "entry" /\ u = << >> /\ job'[p].at = 1
    /\ way = "up" <=> m \notin Applied

LEMMA BeginBegins ==
    ASSUME OneApplies, PlanInv, NEW p \in Procs, Begin(p)
    PROVE  /\ \E u, row : \E m \in Migrations, way \in Ways : BeginsAt(p, m, way, u, row)
           /\ Planned(p)' /\ StepOf(p) /\ UNCHANGED db
<1>1. Typed /\ RowsPoint /\ RunFits(p) /\ pc[p] = "next"
  BY DEF PlanInv, Begin
<1>2. Planned(p) /\ \A n \in Migrations : job[p].files[n].down = 1
  BY <1>1 DEF RunFits
<1>3. PICK last \in 0..N, k \in 0..N :
        /\ job[p].target = 1..last /\ Applied = 1..k
        /\ job[p].down = (last + 1)..k /\ job[p].up = (k + 1)..last
  BY <1>1, <1>2 DEF Planned
<1>4. job[p].down \cup job[p].up # {}
  BY DEF Begin
<1>5. PICK m \in Migrations, way \in Ways :
        /\ NextRun(p) = <<m, way>>
        /\ \/ /\ way = "down" /\ m = k /\ last < k
              /\ job[p].down \ {m} = (last + 1)..(m - 1) /\ job[p].up \ {m} = {}
           \/ /\ way = "up" /\ m = k + 1 /\ k < last
              /\ job[p].down \ {m} = {} /\ job[p].up \ {m} = (m + 1)..last
  <2>1. "up" \in Ways /\ "down" \in Ways /\ (k + 1) + 1 = k + 2
    BY DEF Ways
  <2>2. QED
    <3>1. CASE /\ last < k /\ k \in Migrations /\ NextRun(p) = <<k, "down">>
               /\ job[p].down \ {k} = (last + 1)..(k - 1) /\ job[p].up \ {k} = {}
      BY <3>1, <2>1
    <3>2. CASE /\ k < last /\ k + 1 \in Migrations /\ NextRun(p) = <<k + 1, "up">>
               /\ job[p].down \ {k + 1} = {} /\ job[p].up \ {k + 1} = (k + 2)..last
      <4>1. PICK m \in Migrations : m = k + 1
        BY <3>2
      <4>2. m + 1 = k + 2
        BY <4>1
      <4>3. NextRun(p) = <<m, "up">> /\ job[p].down \ {m} = {} /\ job[p].up \ {m} = (m + 1)..last
        BY <3>2, <4>1, <4>2
      <4>4. QED
        BY <3>2, <2>1, <4>1, <4>3
    <3>3. \/ /\ last < k /\ k \in Migrations /\ NextRun(p) = <<k, "down">>
             /\ job[p].down \ {k} = (last + 1)..(k - 1) /\ job[p].up \ {k} = {}
          \/ /\ k < last /\ k + 1 \in Migrations /\ NextRun(p) = <<k + 1, "up">>
             /\ job[p].down \ {k + 1} = {} /\ job[p].up \ {k + 1} = (k + 2)..last
      BY <1>3, <1>4, NextRunIsPlanned
    <3>4. QED
      BY <3>1, <3>2, <3>3
<1>6. PICK u : u = Script(p, m, way)
  OBVIOUS
<1>7. PICK row : row = IF Chunked(u) THEN progress[m][way] ELSE NoRow
  OBVIOUS
<1>8. PICK from : from = ResumeAt(u, row)
  OBVIOUS
<1>9. NextRun(p)[1] = m /\ NextRun(p)[2] = way
  BY <1>5
<1>10. /\ ~Refused(p, m, way)
       /\ job' = [job EXCEPT ![p] = [job[p] EXCEPT
             !.down = job[p].down \ {m}, !.up = job[p].up \ {m}, !.m = m, !.way = way, !.at = from.at,
             !.cursor = from.cursor, !.auto = FALSE]]
       /\ pc' = [pc EXCEPT ![p] = IF from.at <= Len(u) THEN "run"
                                  ELSE IF Chunked(u) THEN "next" ELSE "entry"]
       /\ UNCHANGED <<transactional, disk, tx, edits, failures>> /\ UNCHANGED db
  <2>1. ~Refused(p, m, way)
    BY <1>9 DEF Begin
  <2>2. pc' = [pc EXCEPT ![p] = IF from.at <= Len(u) THEN "run"
                                ELSE IF Chunked(u) THEN "next" ELSE "entry"]
    BY <1>6, <1>7, <1>8, <1>9 DEF Begin, Goto
  <2>3. job' = [job EXCEPT ![p] = [job[p] EXCEPT
             !.down = job[p].down \ {m}, !.up = job[p].up \ {m}, !.m = m, !.way = way, !.at = from.at,
             !.cursor = from.cursor, !.auto = FALSE]]
    BY <1>6, <1>7, <1>8, <1>9 DEF Begin
  <2>4. UNCHANGED <<transactional, disk, tx, edits, failures>> /\ UNCHANGED db
    BY DEF Begin
  <2>5. QED
    BY <2>1, <2>2, <2>3, <2>4
<1>11. job[p] \in Jobs /\ job[p].files \in [Migrations -> Files]
  BY <1>1 DEF Typed, Jobs
<1>12. /\ u \in Seq(UnitKinds)
       /\ u = (IF way = "up" THEN UpScript[m][job[p].files[m].up] ELSE DownScript[m][1])
       /\ job[p].files[m].up \in Versions
  <2>1. job[p].files[m] \in Files /\ job[p].files[m].down = 1
    BY <1>2, <1>11
  <2>2. job[p].files[m].up \in Versions /\ job[p].files[m].down \in Versions
    BY <2>1 DEF Files
  <2>3. \A n \in Migrations, v \in Versions : UpScript[n][v] \in Seq(UnitKinds) /\ DownScript[n][v] \in Seq(UnitKinds)
    OBVIOUS
  <2>4. u = (IF way = "up" THEN UpScript[m][job[p].files[m].up] ELSE DownScript[m][1])
    BY <2>1, <1>6 DEF Script
  <2>5. QED
    BY <2>2, <2>3, <2>4
<1>13. /\ row \in Row /\ Points(u, row)
       /\ row # NoRow => row.hash = job[p].files[m].up
  <2>1. CASE ~Chunked(u)
    BY <2>1, <1>7, RowsDiffer DEF Points
  <2>2. CASE Chunked(u)
    <3>1. row = progress[m][way] /\ row \in Row
      BY <2>2, <1>1, <1>7 DEF Typed
    <3>2. row # NoRow => row.hash = job[p].files[m].up
      BY <2>2, <3>1, <1>6, <1>10 DEF Refused
    <3>3. Points(u, row)
      <4>1. CASE way = "up"
        <5>1. row # NoRow => Points(UpScript[m][row.hash], row)
          BY <4>1, <3>1, <1>1 DEF RowsPoint
        <5>2. CASE row = NoRow
          BY <5>2 DEF Points
        <5>3. CASE row # NoRow
          BY <5>1, <5>3, <3>2, <4>1, <1>12
        <5>4. QED
          BY <5>2, <5>3
      <4>2. CASE way = "down"
        BY <4>2, <3>1, <1>1, <1>12 DEF RowsPoint
      <4>3. QED
        BY <4>1, <4>2 DEF Ways
    <3>4. QED
      BY <3>1, <3>2, <3>3
  <2>3. QED
    BY <2>1, <2>2
<1>14. /\ from.cursor = row.cursor /\ from.at \in Nat
       /\ \/ /\ from.at \in DOMAIN u /\ SegmentOf(u, from.at) = row.segment
             /\ row.cursor # 0 => u[from.at] = "chunk"
             /\ \A j \in DOMAIN u : SegmentOf(u, j) = row.segment => from.at <= j
          \/ u = << >> /\ from.at = 1 /\ ~Chunked(u)
  <2>1. CASE Chunked(u)
    <3>1. /\ from.at \in DOMAIN u /\ from.cursor = row.cursor
          /\ SegmentOf(u, from.at) = row.segment
          /\ row.cursor # 0 => u[from.at] = "chunk"
          /\ \A j \in DOMAIN u : SegmentOf(u, j) = row.segment => from.at <= j
      <4>1. /\ ResumeAt(u, row).at \in DOMAIN u /\ ResumeAt(u, row).cursor = row.cursor
            /\ SegmentOf(u, ResumeAt(u, row).at) = row.segment
            /\ row.cursor # 0 => u[ResumeAt(u, row).at] = "chunk"
            /\ \A j \in DOMAIN u : SegmentOf(u, j) = row.segment => ResumeAt(u, row).at <= j
        <5>1. u \in Seq(UnitKinds) /\ row \in Row /\ Points(u, row)
          BY <1>12, <1>13
        <5>2. QED
          BY <2>1, <5>1, ResumedWhereItPoints, Zenon
      <4>2. QED
        BY <4>1, <1>8
    <3>2. from.at \in Nat
      BY <3>1, <1>12
    <3>3. QED
      BY <3>1, <3>2
  <2>2. CASE ~Chunked(u)
    <3>1. row = NoRow
      BY <2>2, <1>7
    <3>2. from.at = 1 /\ from.cursor = 0 /\ row.cursor = 0 /\ row.segment = 0
      BY <2>2, <3>1, <1>8, <1>12, PlainStartsAtOne, RowsDiffer
    <3>3. u # << >> => 1 \in DOMAIN u /\ SegmentOf(u, 1) = 0 /\ \A j \in DOMAIN u : 1 <= j
      BY <1>12, FirstSegmentIsZero
    <3>4. QED
      BY <2>2, <3>2, <3>3
  <2>3. QED
    BY <2>1, <2>2
<1>15. pc'[p] = (IF u = << >> THEN "entry" ELSE "run")
  <2>1. CASE from.at \in DOMAIN u
    <3>1. from.at <= Len(u) /\ u # << >>
      BY <2>1, <1>12
    <3>2. QED
      BY <3>1, <1>1, <1>10 DEF Typed
  <2>2. CASE u = << >> /\ from.at = 1 /\ ~Chunked(u)
    <3>1. ~(from.at <= Len(u))
      BY <2>2
    <3>2. QED
      BY <2>2, <3>1, <1>1, <1>10 DEF Typed
  <2>3. QED
    BY <2>1, <2>2, <1>14
<1>16. PICK j : j = [job[p] EXCEPT !.down = job[p].down \ {m}, !.up = job[p].up \ {m}, !.m = m, !.way = way,
                                   !.at = from.at, !.cursor = from.cursor, !.auto = FALSE]
  OBVIOUS
<1>17. job' = [job EXCEPT ![p] = j]
  BY <1>10, <1>16
<1>18. /\ j \in Jobs /\ j.down = job[p].down \ {m} /\ j.up = job[p].up \ {m} /\ j.target = job[p].target
       /\ j.files = job[p].files /\ j.m = m /\ j.way = way /\ j.at = from.at /\ j.cursor = from.cursor
       /\ j.auto = FALSE
  <2>1. row.cursor \in 0..Batches /\ m \in 0..N
    BY <1>13 DEF Row, Migrations
  <2>2. QED
    BY <1>11, <1>14, <1>16, <2>1 DEF Jobs
<1>19. job' \in [Procs -> Jobs] /\ job'[p] = j
  BY <1>1, <1>17, <1>18 DEF Typed
<1>20. StepOf(p)
  <2>1. pc' \in [Procs -> {"idle", "next", "run", "close", "entry", "commit"}]
    BY <1>1, <1>10 DEF Typed
  <2>2. QED
    BY <1>1, <1>10, <1>19, <2>1 DEF StepOf, Typed
<1>21. u = Current(p)'
  BY <1>6, <1>18, <1>19 DEF Current, Script
<1>22. tx'[p] = Nothing
  BY <1>1, <1>10 DEF RunFits
<1>23. way = "up" <=> m \notin Applied
  BY <1>3, <1>5
<1>24. BeginsAt(p, m, way, u, row)
  <2>1. /\ job'[p].m = m /\ job'[p].way = way /\ job'[p].files = job[p].files
        /\ ~job'[p].auto /\ job'[p].cursor = row.cursor /\ job'[p].at = from.at
    BY <1>14, <1>18, <1>19
  <2>2. \/ /\ pc'[p] = "run" /\ job'[p].at \in DOMAIN u /\ SegmentOf(u, job'[p].at) = row.segment
           /\ row.cursor # 0 => u[job'[p].at] = "chunk"
           /\ \A i \in DOMAIN u : SegmentOf(u, i) = row.segment => job'[p].at <= i
        \/ pc'[p] = "entry" /\ u = << >> /\ job'[p].at = 1
    <3>1. CASE u = << >>
      BY <3>1, <2>1, <1>14, <1>15
    <3>2. CASE u # << >>
      BY <3>2, <2>1, <1>14, <1>15
    <3>3. QED
      BY <3>1, <3>2
  <2>3. QED
    BY <1>6, <1>7, <1>12, <1>13, <1>21, <1>22, <1>23, <2>1, <2>2, Zenon DEF BeginsAt
<1>25. Applied' = Applied
  BY <1>10, DbStays
<1>26. ~Entered(p)' /\ pc'[p] # "next"
  BY <1>15 DEF Entered
<1>27. Planned(p)'
  <2>1. job'[p].target = 1..last /\ job'[p].m = m /\ job'[p].way = way
    BY <1>3, <1>18, <1>19
  <2>2. job'[p].down = job[p].down \ {m} /\ job'[p].up = job[p].up \ {m}
    BY <1>18, <1>19
  <2>3. CASE way = "down"
    <3>1. m = k /\ last < k /\ job'[p].down = (last + 1)..(m - 1) /\ job'[p].up = {}
      BY <2>2, <2>3, <1>5
    <3>2. m \in (last + 1)..N
      BY <3>1
    <3>3. QED
      BY <2>1, <2>3, <3>1, <3>2, <1>3, <1>25, <1>26 DEF Planned
  <2>4. CASE way = "up"
    <3>1. m = k + 1 /\ k < last /\ job'[p].down = {} /\ job'[p].up = (m + 1)..last
      BY <2>2, <2>4, <1>5
    <3>2. m \in 1..last
      BY <3>1
    <3>3. QED
      BY <2>1, <2>4, <3>1, <3>2, <1>3, <1>25, <1>26 DEF Planned
  <2>5. QED
    BY <2>3, <2>4 DEF Ways
<1>28. QED
  BY <1>10, <1>20, <1>24, <1>27

LEMMA BeginKeeps ==
    ASSUME OneApplies, PlanInv, NEW p \in Procs, Begin(p)
    PROVE  PlanInv'
<1>1. PICK u, row : \E m \in Migrations, way \in Ways : BeginsAt(p, m, way, u, row)
  BY BeginBegins
<1>2. Planned(p)' /\ StepOf(p) /\ UNCHANGED db
  BY BeginBegins
<1>3. Typed /\ RunFits(p) /\ pc[p] = "next"
  BY DEF PlanInv, Begin
<1>4. /\ u = Current(p)' /\ job'[p].m \in Migrations /\ job'[p].files = job[p].files /\ ~job'[p].auto /\ tx'[p] = Nothing
      /\ (pc'[p] = "run" /\ job'[p].at \in DOMAIN u) \/ (pc'[p] = "entry" /\ u = << >> /\ job'[p].at = 1)
  BY <1>1 DEF BeginsAt
<1>5. Nothing.entry = Keep /\ Nothing.row = KeepRow
  BY RowsDiffer
<1>6. AtEnd(p)' <=> (Current(p)' = << >> /\ job'[p].at = 1)
                    \/ (job'[p].at \in DOMAIN Current(p)' /\ EndsSegment(Current(p)', job'[p].at))
  BY DEF AtEnd
<1>7. Running(p)'
  BY <1>4, <1>5, <1>6 DEF Running
<1>8. RunFits(p)'
  BY <1>2, <1>3, <1>4, <1>7 DEF RunFits
<1>9. DbTyped' /\ RowsPoint' /\ Contiguous'
  BY <1>2, DbStays
<1>10. QED
  BY <1>2, <1>8, <1>9, StepKeeps

-----------------------------------------------------------------------------
(* A run goes on.                                                          *)

LEMMA InRunFacts ==
    ASSUME PlanInv, NEW p \in Procs, pc[p] \in InRun
    PROVE  /\ Typed /\ Planned(p) /\ Running(p) /\ job[p].m \in Migrations
           /\ \A m \in Migrations : job[p].files[m].down = 1
           /\ job[p].way \in Ways /\ Version(p) \in Versions /\ Current(p) \in Seq(UnitKinds)
           /\ job[p].files[job[p].m].up \in Versions
           /\ job[p].at \in Nat /\ job[p].cursor \in 0..Batches /\ job[p].auto \in BOOLEAN
           /\ tx[p] \in Writes /\ job[p] \in Jobs
<1>1. Typed /\ RunFits(p)
  BY DEF PlanInv
<1>2. Planned(p) /\ Running(p) /\ \A m \in Migrations : job[p].files[m].down = 1
  BY <1>1 DEF RunFits, InRun
<1>3. job[p].m \in Migrations
  BY <1>2 DEF Running
<1>4. job[p] \in Jobs
  BY <1>1 DEF Typed
<1>5. QED
  BY <1>1, <1>2, <1>3, <1>4, RunIsTyped

LEMMA RunStepKeeps ==
    ASSUME OneApplies, PlanInv, NEW p \in Procs, pc[p] \in InRun, pc'[p] \in InRun, SameRun(p), StepOf(p),
           NEW t \in Writes, Effect(job[p].m, job[p].way, t), DbTyped', t.entry = Keep,
           t.row \in {KeepRow, NoRow} \/ RowPoints(p, t.row),
           Entered(p)' <=> Entered(p), Running(p)'
    PROVE  PlanInv'
<1>1. /\ Typed /\ Planned(p) /\ job[p].m \in Migrations
      /\ \A m \in Migrations : job[p].files[m].down = 1
  BY InRunFacts
<1>2. RowsPoint'
  BY <1>1, RowsStayPointing
<1>3. Applied' = Applied
  BY <1>1, AppliedFollows
<1>4. Contiguous'
  BY <1>3 DEF PlanInv, Contiguous
<1>5. Planned(p)'
  BY <1>1, <1>3, PlanStays
<1>6. \A m \in Migrations : job'[p].files[m].down = 1
  BY <1>1 DEF SameRun
<1>7. RunFits(p)'
  BY <1>5, <1>6 DEF RunFits, InRun
<1>8. QED
  BY <1>2, <1>4, <1>7, StepKeeps

LEMMA NotCommitNotEntered ==
    ASSUME NEW p \in Procs, pc[p] # "commit", pc'[p] # "commit" \/ ~job'[p].auto \/ ~LastSegment(p)'
    PROVE  ~Entered(p) /\ ~Entered(p)'
BY DEF Entered

(* The step that a statement is, wherever it leaves the run.               *)
StatementWrites(p) == [tx[p] EXCEPT !.work = @ \cup {<<Version(p), job[p].at, 0>>}]

LEMMA StatementWritesWork ==
    ASSUME PlanInv, NEW p \in Procs, pc[p] = "run"
    PROVE  /\ StatementWrites(p) \in Writes
           /\ StatementWrites(p).work = tx[p].work \cup {<<Version(p), job[p].at, 0>>}
           /\ StatementWrites(p).row = KeepRow /\ StatementWrites(p).entry = Keep
<1>1. /\ Version(p) \in Versions /\ Current(p) \in Seq(UnitKinds) /\ tx[p] \in Writes
      /\ job[p].at \in DOMAIN Current(p) /\ tx[p].entry = Keep /\ tx[p].row = KeepRow
  BY InRunFacts DEF InRun, Running
<1>2. job[p].at \in Nat \ {0} /\ 0 \in 0..Batches
  BY <1>1
<1>3. <<Version(p), job[p].at, 0>> \in Work
  BY <1>1, <1>2 DEF Work
<1>4. QED
  BY <1>1, <1>3 DEF StatementWrites, Writes

(* What takes effect of writes t: all, or nothing before the commit.       *)
Now(p, t) == IF job[p].auto THEN t ELSE Nothing

LEMMA WriteTakesEffect ==
    ASSUME PlanInv, NEW p \in Procs, pc[p] \in InRun, NEW t \in Writes, Write(p, t)
    PROVE  /\ Now(p, t) \in Writes /\ Effect(job[p].m, job[p].way, Now(p, t)) /\ DbTyped'
           /\ tx' \in [Procs -> Writes] /\ tx'[p] = (IF job[p].auto THEN Nothing ELSE t)
<1>1. Typed /\ job[p].m \in Migrations /\ (job[p].auto => tx[p] = Nothing)
  BY InRunFacts DEF Running
<1>2. Nothing \in Writes
  BY RowsDiffer
<1>3. CASE job[p].auto
  BY <1>1, <1>3, WriteIsLater DEF Now
<1>4. CASE ~job[p].auto
  BY <1>1, <1>2, <1>4, WriteIsLater DEF Now
<1>5. QED
  BY <1>3, <1>4

LEMMA StatementKeeps ==
    ASSUME OneApplies, PlanInv, NEW p \in Procs, Statement(p)
    PROVE  PlanInv'
<1>1. pc[p] = "run" /\ pc[p] \in InRun
  BY DEF Statement, InRun
<1>2. /\ Typed /\ Running(p) /\ Current(p) \in Seq(UnitKinds) /\ job[p] \in Jobs /\ job[p].auto \in BOOLEAN
      /\ job[p].m \in Migrations
  BY <1>1, InRunFacts
<1>3. PICK u : u = Current(p)
  OBVIOUS
<1>4. PICK i : i = job[p].at
  OBVIOUS
<1>5. i \in 1..Len(u) /\ u \in Seq(UnitKinds)
  BY <1>1, <1>2, <1>3, <1>4 DEF Running
<1>6. PICK t \in Writes : t = StatementWrites(p)
  BY <1>1, StatementWritesWork
<1>7. t.row = KeepRow /\ t.entry = Keep
  BY <1>1, <1>6, StatementWritesWork
<1>8. /\ Write(p, t) /\ u[i] # "chunk" /\ UNCHANGED <<transactional, disk, edits, failures>>
      /\ \/ /\ EndsSegment(u, i) /\ job' = job
            /\ pc' = [pc EXCEPT ![p] = IF Chunked(u) THEN "close" ELSE "entry"]
         \/ ~EndsSegment(u, i) /\ job' = [job EXCEPT ![p].at = i + 1] /\ pc' = pc
  BY <1>3, <1>4, <1>6 DEF Statement, Goto, StatementWrites
<1>9. /\ Now(p, t) \in Writes /\ Effect(job[p].m, job[p].way, Now(p, t)) /\ DbTyped'
      /\ tx' \in [Procs -> Writes] /\ tx'[p] = (IF job[p].auto THEN Nothing ELSE t)
  BY <1>1, <1>8, WriteTakesEffect
<1>10. /\ job' \in [Procs -> Jobs] /\ SameRun(p) /\ job'[p].auto = job[p].auto
       /\ job'[p].at = (IF EndsSegment(u, i) THEN i ELSE i + 1)
  <2>1. CASE EndsSegment(u, i)
    BY <2>1, <1>2, <1>4, <1>8 DEF SameRun, Typed
  <2>2. CASE ~EndsSegment(u, i)
    <3>1. job' = [job EXCEPT ![p] = [job[p] EXCEPT !.at = i + 1]] /\ i + 1 \in Nat
      BY <2>2, <1>5, <1>8
    <3>2. PICK j : j = [job[p] EXCEPT !.at = i + 1]
      OBVIOUS
    <3>3. /\ j \in Jobs /\ j.at = i + 1 /\ j.auto = job[p].auto /\ j.down = job[p].down /\ j.up = job[p].up
          /\ j.target = job[p].target /\ j.files = job[p].files /\ j.m = job[p].m /\ j.way = job[p].way
      BY <3>1, <3>2, <1>2 DEF Jobs
    <3>4. job' \in [Procs -> Jobs] /\ job'[p] = j
      BY <3>1, <3>2, <3>3, <1>2 DEF Typed
    <3>5. QED
      BY <2>2, <3>3, <3>4 DEF SameRun
  <2>3. QED
    BY <2>1, <2>2
<1>11. /\ pc' \in [Procs -> {"idle", "next", "run", "close", "entry", "commit"}]
       /\ pc'[p] = (IF ~EndsSegment(u, i) THEN "run" ELSE IF Chunked(u) THEN "close" ELSE "entry")
  BY <1>1, <1>2, <1>8 DEF Typed
<1>12. StepOf(p)
  BY <1>2, <1>8, <1>9, <1>10, <1>11 DEF StepOf, Typed
<1>13. Current(p)' = u
  BY <1>3, <1>10, SameRunSameScript
<1>14. Nothing.row = KeepRow /\ Nothing.entry = Keep
  BY RowsDiffer
<1>15. ~EndsSegment(u, i) => i + 1 \in DOMAIN u /\ u[i + 1] # "chunk"
  BY <1>5, SegmentEnds
<1>16. AtEnd(p)' <=> (u = << >> /\ job'[p].at = 1) \/ (job'[p].at \in DOMAIN u /\ EndsSegment(u, job'[p].at))
  BY <1>13 DEF AtEnd
<1>17. /\ tx'[p].row = KeepRow /\ tx'[p].entry = Keep /\ (job'[p].auto => tx'[p] = Nothing)
  BY <1>7, <1>9, <1>10, <1>14
<1>18. Running(p)'
  <2>1. job'[p].m \in Migrations
    BY <1>2, <1>10 DEF SameRun
  <2>2. CASE EndsSegment(u, i)
    BY <2>1, <2>2, <1>5, <1>10, <1>11, <1>13, <1>16, <1>17 DEF Running
  <2>3. CASE ~EndsSegment(u, i)
    BY <2>1, <2>3, <1>10, <1>11, <1>13, <1>15, <1>17 DEF Running
  <2>4. QED
    BY <2>2, <2>3
<1>19. ~Entered(p) /\ ~Entered(p)'
  BY <1>1, <1>11 DEF Entered
<1>20. Now(p, t).entry = Keep /\ Now(p, t).row = KeepRow
  BY <1>7, <1>14 DEF Now
<1>21. pc'[p] \in InRun
  BY <1>11 DEF InRun
<1>22. QED
  BY <1>1, <1>9, <1>10, <1>12, <1>18, <1>19, <1>20, <1>21, RunStepKeeps

LEMMA ImplicitCommitKeeps ==
    ASSUME OneApplies, PlanInv, NEW p \in Procs, ImplicitCommit(p)
    PROVE  PlanInv'
<1>1. pc[p] = "run" /\ pc[p] \in InRun
  BY DEF ImplicitCommit, InRun
<1>2. /\ Typed /\ Running(p) /\ job[p] \in Jobs /\ job[p].m \in Migrations /\ tx[p] \in Writes
  BY <1>1, InRunFacts
<1>3. /\ Publish(p, tx[p]) /\ tx' = [tx EXCEPT ![p] = Nothing] /\ job' = [job EXCEPT ![p] = [job[p] EXCEPT !.auto = TRUE]]
      /\ UNCHANGED <<transactional, disk, pc, edits, failures>> /\ Current(p)[job[p].at] = "ddl"
  BY DEF ImplicitCommit
<1>4. PICK j : j = [job[p] EXCEPT !.auto = TRUE]
  OBVIOUS
<1>5. /\ j \in Jobs /\ j.at = job[p].at /\ j.auto = TRUE /\ j.down = job[p].down /\ j.up = job[p].up
      /\ j.target = job[p].target /\ j.files = job[p].files /\ j.m = job[p].m /\ j.way = job[p].way
  BY <1>2, <1>4 DEF Jobs
<1>6. job' \in [Procs -> Jobs] /\ job'[p] = j
  BY <1>2, <1>3, <1>4, <1>5 DEF Typed
<1>7. SameRun(p)
  BY <1>5, <1>6 DEF SameRun
<1>8. Nothing \in Writes /\ Nothing.row = KeepRow /\ Nothing.entry = Keep
  BY RowsDiffer
<1>9. tx' \in [Procs -> Writes] /\ tx'[p] = Nothing
  BY <1>2, <1>3, <1>8 DEF Typed
<1>10. StepOf(p)
  BY <1>2, <1>3, <1>6, <1>9 DEF StepOf, Typed
<1>11. DbTyped' /\ Effect(job[p].m, job[p].way, tx[p])
  BY <1>2, <1>3, PublishTakesEffect
<1>12. tx[p].entry = Keep /\ tx[p].row = KeepRow /\ job[p].at \in DOMAIN Current(p)
  BY <1>1, <1>2 DEF Running
<1>13. Current(p)' = Current(p)
  BY <1>7, SameRunSameScript
<1>14. pc'[p] = "run"
  BY <1>1, <1>3
<1>15. Running(p)'
  BY <1>2, <1>3, <1>5, <1>6, <1>8, <1>9, <1>12, <1>13, <1>14 DEF Running
<1>16. ~Entered(p) /\ ~Entered(p)'
  BY <1>1, <1>14 DEF Entered
<1>17. pc'[p] \in InRun
  BY <1>14 DEF InRun
<1>18. QED
  BY <1>1, <1>2, <1>7, <1>10, <1>11, <1>12, <1>15, <1>16, <1>17, RunStepKeeps

LEMMA BatchWritesRow ==
    ASSUME PlanInv, NEW p \in Procs, pc[p] \in InRun, job[p].at \in DOMAIN Current(p), NEW c \in 0..Batches
    PROVE  /\ BatchWrites(p, c) \in Writes /\ BatchWrites(p, c).entry = Keep
           /\ BatchWrites(p, c).work = {<<Version(p), job[p].at, c>>}
           /\ BatchWrites(p, c).row = [hash |-> job[p].files[job[p].m].up,
                                       segment |-> SegmentOf(Current(p), job[p].at), cursor |-> c]
<1>1. /\ Version(p) \in Versions /\ Current(p) \in Seq(UnitKinds) /\ job[p].files[job[p].m].up \in Versions
  BY InRunFacts
<1>2. job[p].at \in Nat \ {0}
  BY <1>1
<1>3. <<Version(p), job[p].at, c>> \in Work
  BY <1>1, <1>2 DEF Work
<1>4. SegmentOf(Current(p), job[p].at) \in Nat
  BY <1>2, CutsAreFinite
<1>5. [hash |-> job[p].files[job[p].m].up, segment |-> SegmentOf(Current(p), job[p].at), cursor |-> c] \in Row
  BY <1>1, <1>4 DEF Row
<1>6. QED
  BY <1>3, <1>5 DEF BatchWrites, Nothing, Writes

LEMMA BatchKeeps ==
    ASSUME OneApplies, PlanInv, NEW p \in Procs, Batch(p)
    PROVE  PlanInv'
<1>1. pc[p] = "run" /\ pc[p] \in InRun
  BY DEF Batch, InRun
<1>2. /\ Typed /\ Running(p) /\ job[p] \in Jobs /\ job[p].m \in Migrations /\ tx[p] \in Writes
      /\ Current(p) \in Seq(UnitKinds) /\ job[p].cursor \in 0..Batches
  BY <1>1, InRunFacts
<1>3. PICK c \in Nat : c = job[p].cursor + 1
  BY <1>2
<1>4. /\ Current(p)[job[p].at] = "chunk" /\ UNCHANGED <<transactional, disk, edits, failures>> /\ UNCHANGED db
      /\ \/ c > Batches /\ pc' = [pc EXCEPT ![p] = "close"] /\ UNCHANGED <<job, tx>>
         \/ /\ c <= Batches /\ tx' = [tx EXCEPT ![p] = BatchWrites(p, c)]
            /\ job' = [job EXCEPT ![p] = [job[p] EXCEPT !.cursor = c]] /\ pc' = [pc EXCEPT ![p] = "commit"]
  BY <1>2, <1>3 DEF Batch, Goto
<1>5. /\ job[p].at \in DOMAIN Current(p) /\ tx[p] = Nothing /\ ~job[p].auto /\ job[p].at \in 1..Len(Current(p))
  BY <1>1, <1>2, <1>4 DEF Running
<1>6. DbTyped' /\ Effect(job[p].m, job[p].way, Nothing)
  BY <1>2, <1>4, NothingTakesEffect
<1>7. Nothing \in Writes /\ Nothing.row = KeepRow /\ Nothing.entry = Keep
  BY RowsDiffer
<1>8. CASE c > Batches /\ pc' = [pc EXCEPT ![p] = "close"] /\ UNCHANGED <<job, tx>>
  <2>1. SameRun(p) /\ StepOf(p) /\ pc'[p] = "close"
    BY <1>2, <1>4, <1>8 DEF SameRun, StepOf, Typed
  <2>2. Current(p)' = Current(p)
    BY <2>1, SameRunSameScript
  <2>3. EndsSegment(Current(p), job[p].at)
    BY <1>2, <1>4, <1>5, SegmentEnds
  <2>4. AtEnd(p)' /\ Chunked(Current(p)')
    BY <1>4, <1>5, <1>8, <2>2, <2>3 DEF AtEnd, Chunked
  <2>5. Running(p)'
    BY <1>2, <1>5, <1>7, <1>8, <2>1, <2>2, <2>4 DEF Running
  <2>6. pc'[p] \in InRun /\ ~Entered(p) /\ ~Entered(p)'
    BY <1>1, <2>1 DEF InRun, Entered
  <2>7. QED
    BY <1>1, <1>6, <1>7, <2>1, <2>5, <2>6, RunStepKeeps
<1>9. CASE /\ c <= Batches /\ tx' = [tx EXCEPT ![p] = BatchWrites(p, c)]
           /\ job' = [job EXCEPT ![p] = [job[p] EXCEPT !.cursor = c]] /\ pc' = [pc EXCEPT ![p] = "commit"]
  <2>1. c \in 1..Batches /\ c \in 0..Batches
    BY <1>2, <1>3, <1>9
  <2>2. BatchWrites(p, c) \in Writes
    BY <1>1, <1>5, <2>1, BatchWritesRow
  <2>3. PICK j : j = [job[p] EXCEPT !.cursor = c]
    OBVIOUS
  <2>4. /\ j \in Jobs /\ j.cursor = c /\ j.at = job[p].at /\ j.auto = job[p].auto
        /\ j.down = job[p].down /\ j.up = job[p].up
        /\ j.target = job[p].target /\ j.files = job[p].files /\ j.m = job[p].m /\ j.way = job[p].way
    BY <1>2, <2>1, <2>3 DEF Jobs
  <2>5. job' \in [Procs -> Jobs] /\ job'[p] = j
    BY <1>2, <1>9, <2>3, <2>4 DEF Typed
  <2>6. tx' \in [Procs -> Writes] /\ tx'[p] = BatchWrites(p, c)
    BY <1>2, <1>9, <2>2 DEF Typed
  <2>7. SameRun(p) /\ StepOf(p) /\ pc'[p] = "commit"
    BY <1>2, <1>4, <1>9, <2>4, <2>5, <2>6 DEF SameRun, StepOf, Typed
  <2>8. Current(p)' = Current(p) /\ Version(p)' = Version(p)
    BY <2>7, SameRunSameScript
  <2>9. tx'[p] = [Nothing EXCEPT
                     !.work = {<<Version(p)', job'[p].at, job'[p].cursor>>},
                     !.row = [hash |-> job'[p].files[job'[p].m].up,
                              segment |-> SegmentOf(Current(p)', job'[p].at), cursor |-> job'[p].cursor]]
    BY <2>4, <2>5, <2>6, <2>8 DEF BatchWrites
  <2>10. InBatch(p)' /\ ~job'[p].auto
    <3>1. /\ job'[p].at \in DOMAIN (Current(p)') /\ Current(p)'[job'[p].at] = "chunk"
          /\ job'[p].cursor \in 1..Batches /\ ~job'[p].auto
      BY <1>4, <1>5, <2>1, <2>4, <2>5, <2>8
    <3>2. QED
      BY <2>9, <3>1 DEF InBatch, BatchWrites
  <2>11. Running(p)'
    BY <1>2, <2>4, <2>5, <2>7, <2>10 DEF Running
  <2>12. pc'[p] \in InRun /\ ~Entered(p) /\ ~Entered(p)'
    BY <1>1, <2>7, <2>10 DEF InRun, Entered
  <2>13. QED
    BY <1>1, <1>6, <1>7, <2>7, <2>11, <2>12, RunStepKeeps
<1>10. QED
  BY <1>4, <1>8, <1>9

LEMMA ClearProgressKeeps ==
    ASSUME OneApplies, PlanInv, NEW p \in Procs, ClearProgress(p)
    PROVE  PlanInv'
<1>1. pc[p] = "close" /\ pc[p] \in InRun
  BY DEF ClearProgress, InRun
<1>2. /\ Typed /\ Running(p) /\ job[p] \in Jobs /\ job[p].m \in Migrations /\ tx[p] \in Writes
      /\ job[p].auto \in BOOLEAN
  BY <1>1, InRunFacts
<1>3. AtEnd(p) /\ tx[p].entry = Keep /\ (job[p].auto => tx[p] = Nothing)
  BY <1>1, <1>2 DEF Running
<1>4. NoRow \in Row /\ Nothing.entry = Keep /\ Nothing.row = KeepRow
  BY RowsDiffer
<1>5. PICK t : t = [tx[p] EXCEPT !.row = NoRow]
  OBVIOUS
<1>6. t \in Writes /\ t.row = NoRow /\ t.entry = Keep
  BY <1>2, <1>3, <1>4, <1>5 DEF Writes
<1>7. /\ Write(p, t) /\ pc' = [pc EXCEPT ![p] = "entry"] /\ UNCHANGED <<transactional, disk, job, edits, failures>>
  BY <1>5 DEF ClearProgress, Goto
<1>8. /\ Now(p, t) \in Writes /\ Effect(job[p].m, job[p].way, Now(p, t)) /\ DbTyped'
      /\ tx' \in [Procs -> Writes] /\ tx'[p] = (IF job[p].auto THEN Nothing ELSE t)
  BY <1>1, <1>6, <1>7, WriteTakesEffect
<1>9. SameRun(p) /\ StepOf(p) /\ pc'[p] = "entry"
  BY <1>2, <1>7, <1>8 DEF SameRun, StepOf, Typed
<1>10. Current(p)' = Current(p)
  BY <1>9, SameRunSameScript
<1>11. AtEnd(p)'
  BY <1>3, <1>7, <1>10 DEF AtEnd
<1>12. Running(p)'
  BY <1>2, <1>4, <1>6, <1>7, <1>8, <1>9, <1>11 DEF Running
<1>13. Now(p, t).entry = Keep /\ Now(p, t).row \in {KeepRow, NoRow}
  BY <1>4, <1>6 DEF Now
<1>14. pc'[p] \in InRun /\ ~Entered(p) /\ ~Entered(p)'
  BY <1>1, <1>9 DEF InRun, Entered
<1>15. QED
  BY <1>1, <1>8, <1>9, <1>12, <1>13, <1>14, RunStepKeeps

(* The row of the next segment points at the unit after the present one.   *)
LEMMA NextSegmentIsThere ==
    ASSUME PlanInv, NEW p \in Procs, pc[p] \in InRun, AtEnd(p), ~LastSegment(p)
    PROVE  /\ NextSegment(p) \in Row /\ RowPoints(p, NextSegment(p)) /\ NextSegment(p).cursor = 0
           /\ NextSegment(p) # NoRow /\ NextSegment(p) # KeepRow
           /\ NextSegment(p).hash = job[p].files[job[p].m].up
           /\ NextSegment(p).segment = SegmentOf(Current(p), job[p].at) + 1
           /\ job[p].at \in 1..Len(Current(p)) /\ job[p].at + 1 \in 1..Len(Current(p))
           /\ EndsSegment(Current(p), job[p].at)
           /\ SegmentOf(Current(p), job[p].at + 1) = NextSegment(p).segment
<1>1. /\ Current(p) \in Seq(UnitKinds) /\ job[p].files[job[p].m].up \in Versions /\ job[p].at \in Nat
  BY InRunFacts
<1>2. PICK u \in Seq(UnitKinds) : u = Current(p)
  BY <1>1
<1>3. PICK i \in Nat : i = job[p].at
  BY <1>1
<1>4. ~(i >= Len(u))
  BY <1>2, <1>3 DEF LastSegment
<1>5. i \in 1..Len(u) /\ EndsSegment(u, i) /\ i + 1 \in 1..Len(u) /\ i # Len(u)
  <2>1. u # << >> \/ i # 1
    BY <1>4
  <2>2. i \in DOMAIN u /\ EndsSegment(u, i)
    BY <1>2, <1>3, <2>1 DEF AtEnd
  <2>3. QED
    BY <1>4, <2>2
<1>6. SegmentOf(u, i + 1) = SegmentOf(u, i) + 1 /\ SegmentOf(u, i) \in Nat
  BY <1>5, SegmentEnds, CutsAreFinite
<1>7. NextSegment(p) = [hash |-> job[p].files[job[p].m].up, segment |-> SegmentOf(u, i) + 1, cursor |-> 0]
  BY <1>2, <1>3 DEF NextSegment
<1>8. NextSegment(p) \in Row /\ NextSegment(p).segment # 0
  BY <1>1, <1>6, <1>7 DEF Row
<1>9. Points(u, NextSegment(p))
  BY <1>5, <1>6, <1>7 DEF Points
<1>10. RowPoints(p, NextSegment(p))
  BY <1>2, <1>7, <1>9 DEF RowPoints
<1>11. NextSegment(p) # NoRow /\ NextSegment(p) # KeepRow
  BY <1>8, RowsDiffer
<1>12. QED
  BY <1>2, <1>3, <1>5, <1>6, <1>7, <1>8, <1>10, <1>11

LEMMA MoveProgressKeeps ==
    ASSUME OneApplies, PlanInv, NEW p \in Procs, MoveProgress(p)
    PROVE  PlanInv'
<1>1. pc[p] = "entry" /\ pc[p] \in InRun /\ ~LastSegment(p)
  BY DEF MoveProgress, InRun
<1>2. /\ Typed /\ Running(p) /\ job[p] \in Jobs /\ job[p].m \in Migrations /\ tx[p] \in Writes
      /\ job[p].auto \in BOOLEAN
  BY <1>1, InRunFacts
<1>3. AtEnd(p) /\ tx[p].entry = Keep /\ (job[p].auto => tx[p] = Nothing)
  BY <1>1, <1>2 DEF Running
<1>4. Nothing.entry = Keep /\ Nothing.row = KeepRow
  BY RowsDiffer
<1>5. NextSegment(p) \in Row /\ RowPoints(p, NextSegment(p))
  BY <1>1, <1>3, NextSegmentIsThere
<1>6. PICK t : t = [tx[p] EXCEPT !.row = NextSegment(p)]
  OBVIOUS
<1>7. t \in Writes /\ t.row = NextSegment(p) /\ t.entry = Keep
  BY <1>2, <1>3, <1>5, <1>6 DEF Writes
<1>8. /\ Write(p, t) /\ pc' = [pc EXCEPT ![p] = "commit"] /\ UNCHANGED <<transactional, disk, job, edits, failures>>
  BY <1>6 DEF MoveProgress, Goto, NextSegment
<1>9. /\ Now(p, t) \in Writes /\ Effect(job[p].m, job[p].way, Now(p, t)) /\ DbTyped'
      /\ tx' \in [Procs -> Writes] /\ tx'[p] = (IF job[p].auto THEN Nothing ELSE t)
  BY <1>1, <1>7, <1>8, WriteTakesEffect
<1>10. SameRun(p) /\ StepOf(p) /\ pc'[p] = "commit"
  BY <1>2, <1>8, <1>9 DEF SameRun, StepOf, Typed
<1>11. Current(p)' = Current(p)
  BY <1>10, SameRunSameScript
<1>12. AtEnd(p)' /\ ~LastSegment(p)' /\ NextSegment(p)' = NextSegment(p)
  BY <1>1, <1>3, <1>8, <1>11 DEF AtEnd, LastSegment, NextSegment
<1>13. InMove(p)'
  BY <1>4, <1>7, <1>8, <1>9, <1>12 DEF InMove
<1>14. Running(p)'
  BY <1>2, <1>8, <1>9, <1>10, <1>13 DEF Running
<1>15. Now(p, t).entry = Keep /\ (Now(p, t).row = KeepRow \/ RowPoints(p, Now(p, t).row))
  BY <1>4, <1>5, <1>7 DEF Now
<1>16. pc'[p] \in InRun /\ ~Entered(p) /\ ~Entered(p)'
  BY <1>1, <1>10, <1>12 DEF InRun, Entered
<1>17. Now(p, t).row \in {KeepRow, NoRow} \/ RowPoints(p, Now(p, t).row)
  BY <1>15
<1>18. QED
  BY <1>1, <1>9, <1>10, <1>14, <1>15, <1>16, <1>17, RunStepKeeps

-----------------------------------------------------------------------------
(* A run ends, with its ledger row.                                        *)

(* The ledger row that a run writes.                                       *)
EntryOf(p) == IF job[p].way = "up" THEN job[p].files[job[p].m].up ELSE 0

(* With its ledger row a run moves the frontier by the one migration.      *)
LEMMA EntryMovesFrontier ==
    ASSUME PlanInv, NEW p \in Procs, pc[p] \in InRun, ~Entered(p),
           NEW t \in Writes, Effect(job[p].m, job[p].way, t), t.entry = EntryOf(p)
    PROVE  \E last, k, l \in 0..N :
              /\ job[p].target = 1..last /\ Applied = 1..k /\ Applied' = 1..l
              /\ job[p].way = "up" => /\ job[p].m \in 1..last /\ job[p].down = {}
                                      /\ job[p].up = (job[p].m + 1)..last
                                      /\ job[p].m = k + 1 /\ l = job[p].m
              /\ job[p].way = "down" => /\ job[p].m \in (last + 1)..N /\ job[p].up = {}
                                        /\ job[p].down = (last + 1)..(job[p].m - 1)
                                        /\ job[p].m = k /\ l = job[p].m - 1
<1>1. /\ Typed /\ Planned(p) /\ job[p].way \in {"up", "down"} /\ job[p].files[job[p].m].up \in Versions
      /\ pc[p] # "next"
  BY InRunFacts DEF InRun, Ways
<1>2. PICK m \in Migrations : m = job[p].m
  BY InRunFacts
<1>3. PICK last \in 0..N, k \in 0..N :
        /\ job[p].target = 1..last
        /\ Applied = 1..k
        /\ job[p].way = "up" =>
              /\ m \in 1..last /\ job[p].down = {} /\ job[p].up = (m + 1)..last /\ m = k + 1
        /\ job[p].way = "down" =>
              /\ m \in (last + 1)..N /\ job[p].down = (last + 1)..(m - 1) /\ job[p].up = {} /\ m = k
  BY <1>1, <1>2 DEF Planned
<1>4. Applied' = IF t.entry = Keep THEN Applied ELSE IF t.entry = 0 THEN Applied \ {m} ELSE Applied \cup {m}
  <2>1. Effect(m, job[p].way, t)
    BY <1>2
  <2>2. QED
    BY <1>1, <2>1, AppliedFollows
<1>5. Keep \notin {0} \cup Versions /\ 0 \notin Versions
  BY RowsDiffer
<1>6. CASE job[p].way = "up"
  <2>1. Applied' = 1..k \cup {m} /\ m = k + 1
    BY <1>1, <1>3, <1>4, <1>5, <1>6 DEF EntryOf
  <2>2. 1..k \cup {k + 1} = 1..(k + 1) /\ k \in 0..N
    OBVIOUS
  <2>3. Applied' = 1..m /\ m \in 0..N
    BY <2>1, <2>2 DEF Migrations
  <2>4. QED
    BY <1>2, <1>3, <1>6, <2>3
<1>7. CASE job[p].way = "down"
  <2>1. Applied' = 1..k \ {m} /\ m = k
    BY <1>1, <1>3, <1>4, <1>5, <1>7 DEF EntryOf
  <2>2. 1..k \ {k} = 1..(k - 1)
    OBVIOUS
  <2>3. Applied' = 1..(m - 1) /\ m - 1 \in 0..N
    BY <2>1, <2>2 DEF Migrations
  <2>4. QED
    BY <1>2, <1>3, <1>7, <2>3
<1>8. QED
  BY <1>1, <1>6, <1>7

LEMMA WriteEntryKeeps ==
    ASSUME OneApplies, PlanInv, NEW p \in Procs, WriteEntry(p)
    PROVE  PlanInv'
<1>1. pc[p] = "entry" /\ pc[p] \in InRun /\ LastSegment(p) /\ ~Entered(p)
  BY DEF WriteEntry, InRun, Entered
<1>2. /\ Typed /\ Running(p) /\ job[p] \in Jobs /\ job[p].m \in Migrations /\ tx[p] \in Writes
      /\ job[p].auto \in BOOLEAN /\ job[p].files[job[p].m].up \in Versions /\ job[p].way \in Ways
      /\ \A m \in Migrations : job[p].files[m].down = 1
  BY <1>1, InRunFacts
<1>3. /\ AtEnd(p) /\ tx[p].entry = Keep /\ (job[p].auto => tx[p] = Nothing)
      /\ tx[p].row \in {KeepRow, NoRow}
  BY <1>1, <1>2 DEF Running
<1>4. Nothing.entry = Keep /\ Nothing.row = KeepRow /\ Nothing \in Writes
  BY RowsDiffer
<1>5. EntryOf(p) \in {0} \cup Versions
  BY <1>2 DEF EntryOf
<1>6. PICK t : t = [tx[p] EXCEPT !.entry = EntryOf(p)]
  OBVIOUS
<1>7. t \in Writes /\ t.entry = EntryOf(p) /\ t.row = tx[p].row
  BY <1>2, <1>5, <1>6 DEF Writes
<1>8. /\ Write(p, t) /\ pc' = [pc EXCEPT ![p] = "commit"] /\ UNCHANGED <<transactional, disk, job, edits, failures>>
  BY <1>6 DEF WriteEntry, Goto, EntryOf
<1>9. /\ Now(p, t) \in Writes /\ Effect(job[p].m, job[p].way, Now(p, t)) /\ DbTyped'
      /\ tx' \in [Procs -> Writes] /\ tx'[p] = (IF job[p].auto THEN Nothing ELSE t)
  BY <1>1, <1>7, <1>8, WriteTakesEffect
<1>10. SameRun(p) /\ StepOf(p) /\ pc'[p] = "commit"
  BY <1>2, <1>8, <1>9 DEF SameRun, StepOf, Typed
<1>11. Current(p)' = Current(p)
  BY <1>10, SameRunSameScript
<1>12. AtEnd(p)' /\ LastSegment(p)'
  BY <1>1, <1>3, <1>8, <1>11 DEF AtEnd, LastSegment
<1>13. InEntry(p)'
  BY <1>3, <1>4, <1>7, <1>8, <1>9, <1>12 DEF InEntry, EntryOf
<1>14. Running(p)' /\ pc'[p] \in InRun
  BY <1>2, <1>8, <1>9, <1>10, <1>13 DEF Running, InRun
<1>15. CASE ~job[p].auto
  <2>1. Now(p, t) = Nothing
    BY <1>15 DEF Now
  <2>2. ~Entered(p)'
    BY <1>8, <1>15 DEF Entered
  <2>3. QED
    BY <1>1, <1>4, <1>9, <1>10, <1>14, <2>1, <2>2, RunStepKeeps
<1>16. CASE job[p].auto
  <2>1. Now(p, t) = t
    BY <1>16 DEF Now
  <2>2. Entered(p)'
    BY <1>8, <1>10, <1>12, <1>16 DEF Entered
  <2>3. PICK last \in 0..N, k \in 0..N, l \in 0..N :
              /\ job[p].target = 1..last /\ Applied = 1..k /\ Applied' = 1..l
              /\ job[p].way = "up" => /\ job[p].m \in 1..last /\ job[p].down = {}
                                      /\ job[p].up = (job[p].m + 1)..last
                                      /\ job[p].m = k + 1 /\ l = job[p].m
              /\ job[p].way = "down" => /\ job[p].m \in (last + 1)..N /\ job[p].up = {}
                                        /\ job[p].down = (last + 1)..(job[p].m - 1)
                                        /\ job[p].m = k /\ l = job[p].m - 1
    BY <1>1, <1>7, <1>9, <2>1, EntryMovesFrontier
  <2>4. /\ job[p].way = "up" => job[p].m = l
        /\ job[p].way = "down" => job[p].m = l + 1
    BY <2>3
  <2>5. Planned(p)'
    BY <1>8, <1>10, <2>2, <2>3, <2>4 DEF Planned
  <2>6. Contiguous'
    BY <2>3 DEF Contiguous
  <2>7. RowsPoint'
    BY <1>2, <1>3, <1>7, <1>9, <2>1, RowsStayPointing
  <2>8. RunFits(p)'
    BY <1>2, <1>8, <1>10, <1>14, <2>5 DEF RunFits, SameRun
  <2>9. QED
    BY <1>9, <1>10, <2>6, <2>7, <2>8, StepKeeps
<1>17. QED
  BY <1>15, <1>16

(* What p's transaction says before its commit.                            *)
LEMMA CommitFacts ==
    ASSUME PlanInv, NEW p \in Procs, pc[p] = "commit"
    PROVE  /\ tx[p].row \in {KeepRow, NoRow} \/ RowPoints(p, tx[p].row)
           /\ \/ /\ InBatch(p) /\ ~job[p].auto /\ tx[p].entry = Keep /\ tx[p].row.cursor > 0
                 /\ Current(p) # << >> /\ Current(p)[job[p].at] = "chunk"
                 /\ job[p].at \in DOMAIN Current(p) /\ ~Entered(p)
              \/ /\ InMove(p) /\ tx[p].entry = Keep /\ tx[p].row.cursor = 0 /\ ~LastSegment(p) /\ ~Entered(p)
                 /\ job[p].at + 1 \in 1..Len(Current(p))
              \/ /\ InEntry(p) /\ tx[p].row \in {KeepRow, NoRow} /\ tx[p].row.cursor = 0 /\ LastSegment(p)
                 /\ job[p].auto => Entered(p) /\ tx[p] = Nothing
                 /\ ~job[p].auto => ~Entered(p) /\ tx[p].entry = EntryOf(p)
<1>1. pc[p] \in InRun
  BY DEF InRun
<1>2. /\ Typed /\ Running(p) /\ job[p] \in Jobs /\ tx[p] \in Writes /\ Current(p) \in Seq(UnitKinds)
      /\ job[p].files[job[p].m].up \in Versions
  BY <1>1, InRunFacts
<1>3. (InBatch(p) /\ ~job[p].auto) \/ InMove(p) \/ InEntry(p)
  BY <1>2 DEF Running
<1>4. /\ KeepRow.cursor = 0 /\ NoRow.cursor = 0 /\ Nothing.entry = Keep /\ Nothing.row = KeepRow
  BY RowsDiffer
<1>5. job[p].auto => tx[p] = Nothing
  BY <1>2 DEF Running
<1>6. CASE InBatch(p) /\ ~job[p].auto
  <2>1. PICK c \in 1..Batches : c = job[p].cursor
    BY <1>6 DEF InBatch
  <2>2. /\ job[p].at \in DOMAIN Current(p) /\ Current(p)[job[p].at] = "chunk" /\ tx[p] = BatchWrites(p, c)
        /\ c \in 0..Batches
    BY <1>6, <2>1 DEF InBatch
  <2>3. /\ tx[p].entry = Keep
        /\ tx[p].row = [hash |-> job[p].files[job[p].m].up,
                        segment |-> SegmentOf(Current(p), job[p].at), cursor |-> c]
    BY <1>1, <2>2, BatchWritesRow
  <2>4. Points(Current(p), tx[p].row)
    BY <2>2, <2>3 DEF Points
  <2>5. RowPoints(p, tx[p].row) /\ tx[p].row.cursor > 0
    BY <2>3, <2>4 DEF RowPoints
  <2>6. Current(p) # << >> /\ ~Entered(p)
    BY <1>2, <1>6, <2>2 DEF Entered
  <2>7. QED
    BY <1>6, <2>2, <2>3, <2>5, <2>6
<1>7. CASE InMove(p)
  <2>1. AtEnd(p) /\ ~LastSegment(p) /\ tx[p].entry = Keep /\ (~job[p].auto => tx[p].row = NextSegment(p))
    BY <1>7 DEF InMove
  <2>2. /\ NextSegment(p).cursor = 0 /\ RowPoints(p, NextSegment(p)) /\ job[p].at + 1 \in 1..Len(Current(p))
    BY <1>1, <2>1, NextSegmentIsThere
  <2>3. ~Entered(p)
    BY <2>1 DEF Entered
  <2>4. QED
    BY <1>4, <1>5, <1>7, <2>1, <2>2, <2>3
<1>8. CASE InEntry(p)
  <2>1. /\ LastSegment(p) /\ tx[p].row \in {KeepRow, NoRow}
        /\ tx[p].entry = (IF job[p].auto THEN Keep ELSE EntryOf(p))
    BY <1>8 DEF InEntry, EntryOf
  <2>2. Entered(p) <=> job[p].auto
    BY <2>1 DEF Entered
  <2>3. QED
    BY <1>4, <1>5, <1>8, <2>1, <2>2
<1>9. QED
  BY <1>3, <1>6, <1>7, <1>8

LEMMA CommitFailsKeeps ==
    ASSUME OneApplies, PlanInv, NEW p \in Procs, CommitFails(p)
    PROVE  PlanInv'
<1>1. pc[p] = "commit" /\ pc[p] \in InRun
  BY DEF CommitFails, InRun
<1>2. /\ Typed /\ job[p].m \in Migrations /\ tx[p] \in Writes
      /\ \A m \in Migrations : job[p].files[m].down = 1
  BY <1>1, InRunFacts
<1>3. Leave(p) /\ UNCHANGED <<transactional, disk, edits>> /\ failures' \in 0..MaxFailures
  BY <1>2 DEF CommitFails, Typed
<1>4. CASE UNCHANGED db
  <2>1. DbTyped' /\ RowsPoint' /\ Contiguous'
    BY <1>4, DbStays
  <2>2. QED
    BY <1>3, <2>1, LeavingKeeps
<1>5. CASE Publish(p, tx[p])
  <2>1. DbTyped' /\ Effect(job[p].m, job[p].way, tx[p])
    BY <1>2, <1>5, PublishTakesEffect
  <2>2. /\ tx[p].row \in {KeepRow, NoRow} \/ RowPoints(p, tx[p].row)
        /\ tx[p].entry = Keep \/ (tx[p].entry = EntryOf(p) /\ ~Entered(p))
    <3>1. Nothing.entry = Keep
      BY RowsDiffer
    <3>2. QED
      BY <1>1, <3>1, CommitFacts
  <2>3. RowsPoint'
    BY <1>2, <2>1, <2>2, RowsStayPointing
  <2>4. Contiguous'
    <3>1. CASE tx[p].entry = Keep
      <4>1. Applied' = Applied
        BY <1>2, <2>1, <3>1, AppliedFollows
      <4>2. QED
        BY <4>1 DEF PlanInv, Contiguous
    <3>2. CASE tx[p].entry = EntryOf(p) /\ ~Entered(p)
      <4>1. \E l \in 0..N : Applied' = 1..l
        BY <1>1, <1>2, <2>1, <3>2, EntryMovesFrontier
      <4>2. QED
        BY <4>1 DEF Contiguous
    <3>3. QED
      BY <2>2, <3>1, <3>2
  <2>5. QED
    BY <1>3, <2>1, <2>3, <2>4, LeavingKeeps
<1>6. QED
  BY <1>4, <1>5 DEF CommitFails

LEMMA CommitKeeps ==
    ASSUME OneApplies, PlanInv, NEW p \in Procs, Commit(p)
    PROVE  PlanInv'
<1>1. pc[p] = "commit" /\ pc[p] \in InRun /\ pc[p] # "next"
  BY DEF Commit, InRun
<1>2. /\ Typed /\ Running(p) /\ job[p].m \in Migrations /\ tx[p] \in Writes /\ job[p] \in Jobs
      /\ Planned(p) /\ job[p].way \in {"up", "down"} /\ job[p].at \in Nat
      /\ \A m \in Migrations : job[p].files[m].down = 1
  BY <1>1, InRunFacts DEF Ways
<1>3. /\ Publish(p, tx[p]) /\ tx' = [tx EXCEPT ![p] = Nothing] /\ Committed(p)
      /\ UNCHANGED <<transactional, disk, edits, failures>>
  BY DEF Commit
<1>4. DbTyped' /\ Effect(job[p].m, job[p].way, tx[p])
  BY <1>2, <1>3, PublishTakesEffect
<1>5. Nothing \in Writes /\ Nothing.row = KeepRow /\ Nothing.entry = Keep
  BY RowsDiffer
<1>6. tx' \in [Procs -> Writes] /\ tx'[p] = Nothing
  BY <1>2, <1>3, <1>5 DEF Typed
<1>7. tx[p].row \in {KeepRow, NoRow} \/ RowPoints(p, tx[p].row)
  BY <1>1, CommitFacts
<1>8. CASE /\ InBatch(p) /\ ~job[p].auto /\ tx[p].entry = Keep /\ tx[p].row.cursor > 0
           /\ Current(p) # << >> /\ Current(p)[job[p].at] = "chunk"
           /\ job[p].at \in DOMAIN Current(p) /\ ~Entered(p)
  <2>1. pc' = [pc EXCEPT ![p] = "run"] /\ UNCHANGED job
    BY <1>3, <1>8 DEF Committed, Goto
  <2>2. SameRun(p) /\ StepOf(p) /\ pc'[p] = "run" /\ ~Entered(p)'
    BY <1>2, <1>3, <1>6, <2>1 DEF SameRun, StepOf, Typed, Entered
  <2>3. Current(p)' = Current(p)
    BY <2>2, SameRunSameScript
  <2>4. Running(p)' /\ pc'[p] \in InRun
    BY <1>2, <1>5, <1>6, <1>8, <2>1, <2>2, <2>3 DEF Running, InRun
  <2>5. QED
    BY <1>1, <1>2, <1>4, <1>7, <1>8, <2>2, <2>4, RunStepKeeps
<1>9. CASE /\ InMove(p) /\ tx[p].entry = Keep /\ tx[p].row.cursor = 0 /\ ~LastSegment(p) /\ ~Entered(p)
           /\ job[p].at + 1 \in 1..Len(Current(p))
  <2>1. PICK i \in Nat : i = job[p].at
    BY <1>2
  <2>2. /\ pc' = [pc EXCEPT ![p] = "run"]
        /\ job' = [job EXCEPT ![p] = [job[p] EXCEPT !.at = i + 1, !.cursor = 0, !.auto = FALSE]]
    BY <1>3, <1>9, <2>1 DEF Committed, Goto
  <2>3. PICK j : j = [job[p] EXCEPT !.at = i + 1, !.cursor = 0, !.auto = FALSE]
    OBVIOUS
  <2>4. /\ j \in Jobs /\ j.at = i + 1 /\ j.cursor = 0 /\ j.auto = FALSE
        /\ j.down = job[p].down /\ j.up = job[p].up
        /\ j.target = job[p].target /\ j.files = job[p].files /\ j.m = job[p].m /\ j.way = job[p].way
    <3>1. 0 \in 0..Batches /\ i + 1 \in Nat /\ FALSE \in BOOLEAN
      OBVIOUS
    <3>2. QED
      BY <1>2, <2>3, <3>1 DEF Jobs
  <2>5. job' \in [Procs -> Jobs] /\ job'[p] = j
    BY <1>2, <2>2, <2>3, <2>4 DEF Typed
  <2>6. SameRun(p) /\ StepOf(p) /\ pc'[p] = "run" /\ ~Entered(p)'
    BY <1>2, <1>3, <1>6, <2>2, <2>4, <2>5 DEF SameRun, StepOf, Typed, Entered
  <2>7. Current(p)' = Current(p)
    BY <2>6, SameRunSameScript
  <2>8. Running(p)' /\ pc'[p] \in InRun
    BY <1>2, <1>5, <1>6, <1>9, <2>1, <2>4, <2>5, <2>6, <2>7 DEF Running, InRun
  <2>9. QED
    BY <1>1, <1>2, <1>4, <1>7, <1>9, <2>6, <2>8, RunStepKeeps
<1>10. CASE /\ InEntry(p) /\ tx[p].row.cursor = 0 /\ LastSegment(p)
            /\ job[p].auto => Entered(p) /\ tx[p] = Nothing
            /\ ~job[p].auto => ~Entered(p) /\ tx[p].entry = EntryOf(p)
  <2>1. pc' = [pc EXCEPT ![p] = "next"] /\ UNCHANGED job
    BY <1>3, <1>10 DEF Committed, Goto
  <2>2. StepOf(p) /\ pc'[p] = "next" /\ ~Entered(p)'
    BY <1>2, <1>3, <1>6, <2>1 DEF StepOf, Typed, Entered
  <2>3. \E last, l \in 0..N :
              /\ job[p].target = 1..last /\ Applied' = 1..l
              /\ job[p].way = "up" => /\ job[p].m \in 1..last /\ job[p].down = {}
                                      /\ job[p].up = (job[p].m + 1)..last /\ l = job[p].m
              /\ job[p].way = "down" => /\ job[p].m \in (last + 1)..N /\ job[p].up = {}
                                        /\ job[p].down = (last + 1)..(job[p].m - 1) /\ l = job[p].m - 1
    <3>1. CASE Entered(p)
      <4>1. tx[p].entry = Keep
        BY <1>5, <1>10, <3>1 DEF Entered
      <4>2. Applied' = Applied
        BY <1>2, <1>4, <4>1, AppliedFollows
      <4>3. PICK last \in 0..N, k \in 0..N :
              /\ job[p].target = 1..last /\ Applied = 1..k
              /\ job[p].way = "up" => /\ job[p].m \in 1..last /\ job[p].down = {}
                                      /\ job[p].up = (job[p].m + 1)..last /\ job[p].m = k
              /\ job[p].way = "down" => /\ job[p].m \in (last + 1)..N /\ job[p].up = {}
                                        /\ job[p].down = (last + 1)..(job[p].m - 1) /\ job[p].m = k + 1
        BY <1>1, <1>2, <3>1 DEF Planned
      <4>4. QED
        BY <4>2, <4>3
    <3>2. CASE ~Entered(p)
      <4>1. tx[p].entry = EntryOf(p)
        BY <1>10, <3>2
      <4>2. QED
        BY <1>1, <1>2, <1>4, <3>2, <4>1, EntryMovesFrontier
    <3>3. QED
      BY <3>1, <3>2
  <2>4. PICK last \in 0..N, l \in 0..N :
              /\ job[p].target = 1..last /\ Applied' = 1..l
              /\ job[p].way = "up" => /\ job[p].m \in 1..last /\ job[p].down = {}
                                      /\ job[p].up = (job[p].m + 1)..last /\ l = job[p].m
              /\ job[p].way = "down" => /\ job[p].m \in (last + 1)..N /\ job[p].up = {}
                                        /\ job[p].down = (last + 1)..(job[p].m - 1) /\ l = job[p].m - 1
    BY <2>3
  <2>5. job[p].down = (last + 1)..l /\ job[p].up = (l + 1)..last
    <3>1. CASE job[p].way = "up"
      <4>1. l \in 1..last
        BY <2>4, <3>1
      <4>2. (last + 1)..l = {}
        BY <4>1
      <4>3. QED
        BY <2>4, <3>1, <4>2
    <3>2. CASE job[p].way = "down"
      <4>1. job[p].m = l + 1 /\ l + 1 \in (last + 1)..N
        <5>1. PICK m \in 1..N : m = job[p].m
          BY <1>2 DEF Migrations
        <5>2. m \in (last + 1)..N /\ l = m - 1
          BY <2>4, <3>2, <5>1
        <5>3. QED
          BY <5>1, <5>2
      <4>2. (l + 1) - 1 = l /\ (l + 1)..last = {}
        BY <4>1
      <4>3. QED
        BY <2>4, <3>2, <4>1, <4>2
    <3>3. QED
      BY <1>2, <3>1, <3>2
  <2>6. Planned(p)'
    BY <2>1, <2>2, <2>4, <2>5 DEF Planned
  <2>7. Contiguous'
    BY <2>4 DEF Contiguous
  <2>8. RowsPoint'
    BY <1>2, <1>4, <1>7, RowsStayPointing
  <2>9. RunFits(p)'
    BY <1>2, <1>6, <2>1, <2>2, <2>6 DEF RunFits
  <2>10. QED
    BY <1>4, <2>2, <2>7, <2>8, <2>9, StepKeeps
<1>11. QED
  BY <1>1, <1>8, <1>9, <1>10, CommitFacts

-----------------------------------------------------------------------------
(* The ledger.                                                             *)

LEMMA NextKeeps ==
    ASSUME OneApplies, DownsStand, PlanInv, [Next]_vars
    PROVE  PlanInv'
<1>1. CASE UNCHANGED vars
  <2>1. /\ UNCHANGED <<transactional, disk, pc, job, tx, edits, failures>> /\ UNCHANGED db
        /\ UNCHANGED <<ledger, progress, done, repeats>>
    BY <1>1 DEF vars, db
  <2>2. Typed' /\ Contiguous' /\ RowsPoint' /\ Applied' = Applied
    BY <2>1, DbStays DEF PlanInv, Typed
  <2>3. ASSUME NEW p \in Procs PROVE RunFits(p)'
    <3>1. Current(p)' = Current(p) /\ Version(p)' = Version(p)
      BY <2>1 DEF Current, Version, Script
    <3>2. /\ (LastSegment(p)' <=> LastSegment(p)) /\ NextSegment(p)' = NextSegment(p) /\ (AtEnd(p)' <=> AtEnd(p))
      BY <2>1, <3>1 DEF LastSegment, NextSegment, AtEnd
    <3>3. (Entered(p)' <=> Entered(p)) /\ (InMove(p)' <=> InMove(p)) /\ (InEntry(p)' <=> InEntry(p))
      BY <2>1, <3>2 DEF Entered, InMove, InEntry
    <3>4. InBatch(p)' <=> InBatch(p)
      BY <2>1, <3>1 DEF InBatch, BatchWrites
    <3>5. RunFits(p)
      BY DEF PlanInv
    <3>6. Planned(p)' <=> Planned(p)
      BY <2>1, <2>2, <3>3 DEF Planned
    <3>7. Running(p)' <=> Running(p)
      BY <2>1, <3>1, <3>2, <3>3, <3>4 DEF Running
    <3>8. QED
      BY <2>1, <3>5, <3>6, <3>7 DEF RunFits
  <2>4. \A m \in Migrations : disk'[m].down = 1
    BY <2>1 DEF PlanInv
  <2>5. QED
    BY <2>2, <2>3, <2>4 DEF PlanInv
<1>2. ASSUME NEW p \in Procs, StartAny(p) \/ Advance(p) \/ CommitFails(p) \/ Interrupt(p)
      PROVE  PlanInv'
  <2>1. CASE StartAny(p)
    BY <2>1, StartKeeps
  <2>2. CASE ReturnReport(p) \/ Refuse(p) \/ Interrupt(p) \/ EntryRefused(p)
             \/ StatementRefused(p)
    BY <2>2, EndingKeeps
  <2>3. CASE Begin(p)
    BY <2>3, BeginKeeps
  <2>4. CASE ImplicitCommit(p)
    BY <2>4, ImplicitCommitKeeps
  <2>5. CASE Statement(p)
    BY <2>5, StatementKeeps
  <2>6. CASE Batch(p)
    BY <2>6, BatchKeeps
  <2>7. CASE ClearProgress(p)
    BY <2>7, ClearProgressKeeps
  <2>8. CASE MoveProgress(p)
    BY <2>8, MoveProgressKeeps
  <2>9. CASE WriteEntry(p)
    BY <2>9, WriteEntryKeeps
  <2>10. CASE Commit(p)
    BY <2>10, CommitKeeps
  <2>11. CASE CommitFails(p)
    BY <2>11, CommitFailsKeeps
  <2>12. QED
    BY <1>2, <2>1, <2>2, <2>3, <2>4, <2>5, <2>6, <2>7, <2>8, <2>9, <2>10, <2>11 DEF Advance
<1>3. ASSUME NEW m \in Migrations, NEW way \in EditWays, Edit(m, way)
      PROVE  PlanInv'
  BY <1>3, EditKeeps
<1>4. QED
  BY <1>1, <1>2, <1>3 DEF Next

LEMMA Always ==
    ASSUME OneApplies, DownsStand
    PROVE  Spec => []PlanInv
<1>1. PlanInv /\ [Next]_vars => PlanInv'
  BY NextKeeps
<1>2. QED
  BY <1>1, InitHolds, PTL DEF Spec

(* The ledger is a prefix of the migrations whatever interrupts the runs   *)
(* of apply, and an apply that has nothing left to do has reconciled it to *)
(* the target of its Direction (apply's contiguity check, KeepMax).        *)
THEOREM LedgerIsReconciled ==
    ASSUME OneApplies, DownsStand
    PROVE  Spec => []LedgerFollowsDirection
<1>1. PlanInv => LedgerFollowsDirection
  <2> SUFFICES ASSUME PlanInv PROVE LedgerFollowsDirection
    OBVIOUS
  <2>1. ASSUME NEW m \in Applied PROVE 1..m \subseteq Applied
    <3>1. PICK k \in 0..N : Applied = 1..k
      BY DEF PlanInv, Contiguous
    <3>2. QED
      BY <2>1, <3>1
  <2>2. ASSUME NEW p \in Procs, pc[p] = "next", job[p].down \cup job[p].up = {}
        PROVE  Applied = job[p].target
    <3>1. PICK last \in 0..N, k \in 0..N :
             /\ job[p].target = 1..last /\ Applied = 1..k
             /\ job[p].down = (last + 1)..k /\ job[p].up = (k + 1)..last
      BY <2>2 DEF PlanInv, RunFits, Planned
    <3>2. ~(last < k) /\ ~(k < last)
      <4>1. last < k => k \in (last + 1)..k
        OBVIOUS
      <4>2. k < last => last \in (k + 1)..last
        OBVIOUS
      <4>3. QED
        BY <2>2, <3>1, <4>1, <4>2
    <3>3. last = k
      BY <3>2
    <3>4. QED
      BY <3>1, <3>3
  <2>3. QED
    BY <2>1, <2>2 DEF LedgerFollowsDirection
<1>2. QED
  BY Always, <1>1, PTL

-----------------------------------------------------------------------------
(* Where work is committed.                                                *)

Frontier ==
    \A m \in Migrations :
        /\ ~ (done'[m]["up"] \subseteq done[m]["up"]) => Applied = 1..(m - 1)
        /\ ~ (done'[m]["down"] \subseteq done[m]["down"]) => Applied = 1..m

LEMMA EffectAtFrontier ==
    ASSUME PlanInv, NEW p \in Procs, pc[p] \in InRun, NEW t \in Writes, Effect(job[p].m, job[p].way, t),
           Entered(p) => t.work = {}
    PROVE  Frontier
<1>1. PICK m \in Migrations : m = job[p].m
  BY InRunFacts
<1>2. PICK w \in {"up", "down"} : w = job[p].way
  BY InRunFacts DEF Ways
<1>3. PICK k \in 0..N :
        /\ Applied = 1..k
        /\ w = "up" /\ ~Entered(p) => m = k + 1
        /\ w = "down" /\ ~Entered(p) => m = k
  BY <1>1, <1>2, InRunFacts DEF Planned, InRun
<1>4. /\ done'[m][w] = done[m][w] \cup t.work
      /\ \A x \in Ways \ {w} : done'[m][x] = done[m][x] \/ done'[m][x] = {}
      /\ \A n \in Migrations \ {m} : done'[n] = done[n]
  BY <1>1, <1>2 DEF Effect
<1>5. ASSUME NEW n \in Migrations, NEW x \in {"up", "down"}, ~ (done'[n][x] \subseteq done[n][x])
      PROVE  n = m /\ x = w /\ ~Entered(p)
  BY <1>2, <1>4, <1>5 DEF Ways
<1>6. k = (k + 1) - 1
  OBVIOUS
<1>7. QED
  BY <1>3, <1>5, <1>6 DEF Frontier

LEMMA StepHasEffect ==
    ASSUME PlanInv, NEW p \in Procs, StartAny(p) \/ Advance(p) \/ CommitFails(p) \/ Interrupt(p)
    PROVE  \/ UNCHANGED db
           \/ /\ pc[p] \in InRun
              /\ \E t \in Writes : Effect(job[p].m, job[p].way, t) /\ (Entered(p) => t.work = {})
<1>1. CASE StartAny(p) \/ ReturnReport(p) \/ Refuse(p) \/ Interrupt(p) \/ EntryRefused(p)
                          \/ StatementRefused(p) \/ Begin(p) \/ Batch(p)
  BY <1>1 DEF StartAny, Start, ReturnReport, Refuse, Interrupt, EntryRefused, StatementRefused, Begin, Batch
<1>2. Nothing.work = {} /\ NoRow \in Row
  BY RowsDiffer
<1>3. CASE Statement(p) \/ ClearProgress(p) \/ MoveProgress(p) \/ WriteEntry(p)
  <2>1. pc[p] \in InRun /\ ~Entered(p)
    BY <1>3 DEF Statement, ClearProgress, MoveProgress, WriteEntry, InRun, Entered
  <2>2. tx[p] \in Writes /\ job[p].files[job[p].m].up \in Versions /\ Running(p)
    BY <2>1, InRunFacts
  <2>3. \E t \in Writes : Write(p, t)
    <3>1. CASE Statement(p)
      <4>1. pc[p] = "run" /\ Write(p, StatementWrites(p))
        BY <3>1 DEF Statement, StatementWrites
      <4>2. QED
        BY <4>1, StatementWritesWork
    <3>2. CASE ClearProgress(p)
      <4>1. PICK t : t = [tx[p] EXCEPT !.row = NoRow]
        OBVIOUS
      <4>2. t \in Writes
        BY <1>2, <2>2, <4>1 DEF Writes
      <4>3. QED
        BY <3>2, <4>1, <4>2 DEF ClearProgress
    <3>3. CASE MoveProgress(p)
      <4>1. PICK t : t = [tx[p] EXCEPT !.row = NextSegment(p)]
        OBVIOUS
      <4>2. AtEnd(p) /\ ~LastSegment(p)
        BY <2>2, <3>3 DEF MoveProgress, Running
      <4>3. NextSegment(p) \in Row
        BY <2>1, <4>2, NextSegmentIsThere
      <4>4. t \in Writes
        BY <2>2, <4>1, <4>3 DEF Writes
      <4>5. Write(p, t)
        BY <3>3, <4>1 DEF MoveProgress, NextSegment
      <4>6. QED
        BY <4>4, <4>5
    <3>4. CASE WriteEntry(p)
      <4>1. PICK t : t = [tx[p] EXCEPT !.entry = EntryOf(p)]
        OBVIOUS
      <4>2. EntryOf(p) \in {0} \cup Versions
        BY <2>2 DEF EntryOf
      <4>3. t \in Writes
        BY <2>2, <4>1, <4>2 DEF Writes
      <4>4. Write(p, t)
        BY <3>4, <4>1 DEF WriteEntry, EntryOf
      <4>5. QED
        BY <4>3, <4>4
    <3>5. QED
      BY <1>3, <3>1, <3>2, <3>3, <3>4
  <2>4. QED
    BY <2>1, <2>3, WriteTakesEffect
<1>4. CASE ImplicitCommit(p) \/ Commit(p) \/ CommitFails(p)
  <2>1. pc[p] \in InRun /\ (UNCHANGED db \/ Publish(p, tx[p]))
    BY <1>4 DEF ImplicitCommit, Commit, CommitFails, InRun
  <2>2. Typed /\ job[p].m \in Migrations /\ tx[p] \in Writes /\ Running(p)
    BY <2>1, InRunFacts
  <2>3. Entered(p) => tx[p].work = {}
    BY <1>2, <2>2 DEF Entered, Running
  <2>4. Publish(p, tx[p]) => Effect(job[p].m, job[p].way, tx[p])
    BY <2>2, PublishTakesEffect
  <2>5. QED
    BY <2>1, <2>2, <2>3, <2>4
<1>5. QED
  BY <1>1, <1>3, <1>4 DEF Advance

(* Up work is committed on the lowest migration without a ledger row only, *)
(* and down work on the highest one with a row (apply's two loops).        *)
THEOREM WorkIsAtTheFrontier ==
    ASSUME OneApplies, DownsStand
    PROVE  Spec => WorkAtFrontier
<1>1. PlanInv /\ [Next]_vars => [Frontier]_vars
  <2> SUFFICES ASSUME PlanInv, Next PROVE Frontier
    BY DEF Frontier
  <2>1. UNCHANGED db => Frontier
    BY DEF db, Frontier
  <2>2. ASSUME NEW p \in Procs, StartAny(p) \/ Advance(p) \/ CommitFails(p) \/ Interrupt(p)
        PROVE  Frontier
    BY <2>1, <2>2, StepHasEffect, EffectAtFrontier
  <2>3. ASSUME NEW m \in Migrations, NEW way \in EditWays, Edit(m, way)
        PROVE  Frontier
    BY <2>1, <2>3 DEF Edit
  <2>4. QED
    BY <2>2, <2>3 DEF Next
<1>2. QED
  BY <1>1, Always, PTL DEF Spec, WorkAtFrontier, Frontier

-----------------------------------------------------------------------------
(* The work of a script, unit by unit and segment by segment.              *)

(* What w must be to be work of version v of u.                            *)
LEMMA WorkIs ==
    ASSUME NEW u \in Seq(UnitKinds), NEW v, NEW w \in WorkOf(u, v)
    PROVE  /\ w[2] \in 1..Len(u) /\ w[3] \in 0..Batches /\ w = <<v, w[2], w[3]>>
           /\ u[w[2]] = "chunk" <=> w[3] # 0
BY DEF WorkOf

LEMMA NothingBehind ==
    ASSUME NEW u \in Seq(UnitKinds), NEW v
    PROVE  Behind(u, v, 1, 0) = {} /\ WorkBefore(u, v, 0, 0) = {}
<1>1. ASSUME NEW w \in WorkOf(u, v) PROVE w \notin Behind(u, v, 1, 0) /\ w \notin WorkBefore(u, v, 0, 0)
  <2>1. PICK j \in 1..Len(u), b \in 0..Batches : j = w[2] /\ b = w[3] /\ (u[j] = "chunk" <=> b # 0)
    BY WorkIs
  <2>2. SegmentOf(u, j) \in Nat
    BY CutsAreFinite
  <2>3. QED
    BY <2>1, <2>2 DEF Behind, WorkBefore
<1>2. QED
  BY <1>1 DEF Behind, WorkBefore

(* A statement adds itself.                                                *)
LEMMA BehindStatement ==
    ASSUME NEW u \in Seq(UnitKinds), NEW v, NEW i \in 1..Len(u), u[i] # "chunk", NEW c
    PROVE  /\ Behind(u, v, i + 1, 0) = Behind(u, v, i, c) \cup {<<v, i, 0>>}
           /\ <<v, i, 0>> \notin Behind(u, v, i, c)
<1>1. ASSUME NEW w \in WorkOf(u, v)
      PROVE  w \in Behind(u, v, i + 1, 0) <=> w \in Behind(u, v, i, c) \/ w = <<v, i, 0>>
  <2>1. PICK j \in 1..Len(u), b \in 0..Batches :
           j = w[2] /\ b = w[3] /\ w = <<v, j, b>> /\ (u[j] = "chunk" <=> b # 0)
    BY WorkIs
  <2>2. w \in Behind(u, v, i + 1, 0) <=> j < i + 1
    <3>1. j = i + 1 => ~(u[i + 1] = "chunk" /\ b <= 0)
      BY <2>1
    <3>2. QED
      BY <2>1, <3>1 DEF Behind
  <2>3. w \in Behind(u, v, i, c) <=> j < i
    BY <2>1 DEF Behind
  <2>4. j = i <=> w = <<v, i, 0>>
    BY <2>1
  <2>5. QED
    BY <2>2, <2>3, <2>4
<1>2. <<v, i, 0>> \in WorkOf(u, v)
  <2>1. <<v, i, 0>> \in {v} \X (DOMAIN u) \X (0..Batches)
    OBVIOUS
  <2>2. QED
    BY <2>1 DEF WorkOf
<1>3. <<v, i, 0>> \notin Behind(u, v, i, c)
  BY DEF Behind
<1>4. QED
  BY <1>1, <1>2, <1>3 DEF Behind

(* Where a run has not begun a unit, its cursor does not matter.           *)
LEMMA BehindPlain ==
    ASSUME NEW u \in Seq(UnitKinds), NEW v, NEW i \in 1..Len(u), u[i] # "chunk", NEW c
    PROVE  Behind(u, v, i, c) = Behind(u, v, i, 0)
BY DEF Behind

(* A batch adds itself.                                                    *)
LEMMA BehindBatch ==
    ASSUME NEW u \in Seq(UnitKinds), NEW v, NEW i \in 1..Len(u), u[i] = "chunk", NEW c \in 1..Batches
    PROVE  /\ Behind(u, v, i, c) = Behind(u, v, i, c - 1) \cup {<<v, i, c>>}
           /\ <<v, i, c>> \notin Behind(u, v, i, c - 1)
<1>1. ASSUME NEW w \in WorkOf(u, v)
      PROVE  w \in Behind(u, v, i, c) <=> w \in Behind(u, v, i, c - 1) \/ w = <<v, i, c>>
  <2>1. PICK j \in 1..Len(u), b \in 0..Batches : j = w[2] /\ b = w[3] /\ w = <<v, j, b>>
    BY WorkIs
  <2>2. w \in Behind(u, v, i, c) <=> j < i \/ (j = i /\ b <= c)
    BY <2>1 DEF Behind
  <2>3. w \in Behind(u, v, i, c - 1) <=> j < i \/ (j = i /\ b <= c - 1)
    BY <2>1 DEF Behind
  <2>4. (j = i /\ b = c) <=> w = <<v, i, c>>
    BY <2>1
  <2>5. b <= c <=> b <= c - 1 \/ b = c
    OBVIOUS
  <2>6. QED
    BY <2>2, <2>3, <2>4, <2>5
<1>2. <<v, i, c>> \in WorkOf(u, v)
  <2>1. <<v, i, c>> \in {v} \X (DOMAIN u) \X (0..Batches)
    OBVIOUS
  <2>2. QED
    BY <2>1 DEF WorkOf
<1>3. <<v, i, c>> \notin Behind(u, v, i, c - 1)
  BY DEF Behind
<1>4. QED
  BY <1>1, <1>2, <1>3 DEF Behind

LEMMA BehindChunk ==
    ASSUME NEW u \in Seq(UnitKinds), NEW v, NEW i \in 1..Len(u), u[i] = "chunk"
    PROVE  Behind(u, v, i, Batches) = Behind(u, v, i + 1, 0)
<1>1. ASSUME NEW w \in WorkOf(u, v)
      PROVE  w \in Behind(u, v, i, Batches) <=> w \in Behind(u, v, i + 1, 0)
  <2>1. PICK j \in 1..Len(u), b \in 0..Batches : j = w[2] /\ b = w[3] /\ (u[j] = "chunk" <=> b # 0)
    BY WorkIs
  <2>2. w \in Behind(u, v, i, Batches) <=> j < i \/ j = i
    BY <2>1 DEF Behind
  <2>3. w \in Behind(u, v, i + 1, 0) <=> j < i + 1
    <3>1. j = i + 1 => ~(u[i + 1] = "chunk" /\ b <= 0)
      BY <2>1
    <3>2. QED
      BY <2>1, <3>1 DEF Behind
  <2>4. QED
    BY <2>2, <2>3
<1>2. QED
  BY <1>1 DEF Behind

(* All of it is behind the last unit.                                      *)
LEMMA BehindTheEnd ==
    ASSUME NEW u \in Seq(UnitKinds), NEW v, NEW i \in Nat, i >= Len(u)
    PROVE  Behind(u, v, i + 1, 0) = WorkOf(u, v)
<1>1. ASSUME NEW w \in WorkOf(u, v) PROVE w[2] < i + 1
  BY WorkIs
<1>2. QED
  BY <1>1 DEF Behind

(* What is before segment s is what is behind its first unit.              *)
LEMMA BehindFirst ==
    ASSUME NEW u \in Seq(UnitKinds), NEW v, NEW i \in 1..Len(u), NEW c \in 0..Batches,
           NEW s, SegmentOf(u, i) = s, \A j \in DOMAIN u : SegmentOf(u, j) = s => i <= j,
           c = 0 \/ u[i] = "chunk"
    PROVE  WorkBefore(u, v, s, c) = Behind(u, v, i, c)
<1>1. ASSUME NEW w \in WorkOf(u, v)
      PROVE  w \in WorkBefore(u, v, s, c) <=> w \in Behind(u, v, i, c)
  <2>1. PICK j \in 1..Len(u), b \in 0..Batches : j = w[2] /\ b = w[3] /\ (u[j] = "chunk" <=> b # 0)
    BY WorkIs
  <2>2. SegmentOf(u, j) \in Nat /\ s \in Nat
    BY CutsAreFinite
  <2>3. SegmentOf(u, j) < s <=> j < i
    <3>1. CASE j < i
      <4>1. SegmentOf(u, j) <= SegmentOf(u, i)
        BY <3>1, SegmentsGrow
      <4>2. SegmentOf(u, j) # s
        BY <3>1
      <4>3. QED
        BY <3>1, <4>1, <4>2, <2>2
    <3>2. CASE i <= j
      <4>1. SegmentOf(u, i) <= SegmentOf(u, j)
        BY <3>2, SegmentsGrow
      <4>2. QED
        BY <3>2, <4>1, <2>2
    <3>3. QED
      BY <3>1, <3>2
  <2>4. (SegmentOf(u, j) = s /\ u[j] = "chunk" /\ b <= c) <=> (j = i /\ u[i] = "chunk" /\ b <= c)
    <3>1. ASSUME SegmentOf(u, j) = s, u[j] = "chunk", b <= c PROVE j = i
      <4>1. u[i] = "chunk"
        BY <2>1, <3>1
      <4>2. QED
        BY <3>1, <4>1, ChunkIsAlone
    <3>2. QED
      BY <3>1
  <2>5. QED
    BY <2>1, <2>3, <2>4 DEF WorkBefore, Behind
<1>2. QED
  BY <1>1 DEF WorkBefore, Behind

(* A chunked unit is the first of its segment, and so is the unit after    *)
(* the end of a segment.                                                   *)
LEMMA BehindSegment ==
    ASSUME NEW u \in Seq(UnitKinds), NEW v, NEW i \in 1..Len(u)
    PROVE  /\ u[i] = "chunk" =>
                 \A c \in 0..Batches : WorkBefore(u, v, SegmentOf(u, i), c) = Behind(u, v, i, c)
           /\ EndsSegment(u, i) /\ i # Len(u) =>
                 WorkBefore(u, v, SegmentOf(u, i) + 1, 0) = Behind(u, v, i + 1, 0)
<1>1. ASSUME u[i] = "chunk", NEW c \in 0..Batches
      PROVE  WorkBefore(u, v, SegmentOf(u, i), c) = Behind(u, v, i, c)
  <2>1. \A j \in DOMAIN u : SegmentOf(u, j) = SegmentOf(u, i) => i <= j
    BY <1>1, ChunkIsAlone
  <2>2. QED
    BY <1>1, <2>1, BehindFirst
<1>2. ASSUME EndsSegment(u, i), i # Len(u)
      PROVE  WorkBefore(u, v, SegmentOf(u, i) + 1, 0) = Behind(u, v, i + 1, 0)
  <2>1. SegmentOf(u, i + 1) = SegmentOf(u, i) + 1 /\ i + 1 \in 1..Len(u) /\ SegmentOf(u, i) \in Nat
    BY <1>2, SegmentEnds, CutsAreFinite
  <2>2. ASSUME NEW j \in DOMAIN u, SegmentOf(u, j) = SegmentOf(u, i) + 1 PROVE i + 1 <= j
    <3>1. j <= i => SegmentOf(u, j) <= SegmentOf(u, i)
      BY SegmentsGrow
    <3>2. ~(j <= i)
      BY <2>1, <2>2, <3>1
    <3>3. QED
      BY <3>2
  <2>3. QED
    BY <2>1, <2>2, BehindFirst
<1>3. QED
  BY <1>1, <1>2

-----------------------------------------------------------------------------
(* What a step does to the work.                                           *)

(* One process works; the others are it.                                   *)
LEMMA WorkStepKeeps ==
    ASSUME OneApplies, WorkInv, NEW p \in Procs, PlanInv', transactional' => repeats' = {},
           \A m \in Migrations : DoneFits(m)', pc'[p] \in InRun => RunHolds(p)'
    PROVE  WorkInv'
<1>1. \A q \in Procs : q = p
  BY DEF OneApplies
<1>2. \A q \in Procs : pc'[q] \in InRun => RunHolds(q)'
  BY <1>1
<1>3. QED
  BY <1>2 DEF WorkInv, InRun

LEMMA DoneStays ==
    ASSUME WorkInv, UNCHANGED db, transactional' = transactional
    PROVE  /\ transactional' => repeats' = {}
           /\ \A m \in Migrations : DoneFits(m)'
<1>1. UNCHANGED <<ledger, progress, done, repeats>>
  BY DEF db
<1>2. Applied' = Applied
  BY <1>1 DEF Applied
<1>3. ASSUME NEW m \in Migrations PROVE DoneFits(m)'
  <2>1. DoneFits(m)
    BY DEF WorkInv
  <2>2. QED
    BY <1>1, <1>2, <2>1 DEF DoneFits, RowHolds, Holds
<1>4. QED
  BY <1>1, <1>3 DEF WorkInv

(* The script a run is of, as DoneFits names it.                           *)
LEMMA RunsScript ==
    ASSUME PlanInv, NEW p \in Procs, pc[p] \in InRun
    PROVE  /\ job[p].way = "up" => /\ Current(p) = UpScript[job[p].m][Version(p)]
                                   /\ Version(p) = job[p].files[job[p].m].up
           /\ job[p].way = "down" => Current(p) = DownScript[job[p].m][1] /\ Version(p) = 1
           /\ ~Entered(p) => (job[p].way = "up" <=> job[p].m \notin Applied)
<1>1. /\ Planned(p) /\ job[p].way \in {"up", "down"} /\ job[p].m \in Migrations /\ pc[p] # "next"
      /\ \A m \in Migrations : job[p].files[m].down = 1
  BY InRunFacts DEF InRun, Ways
<1>2. ASSUME ~Entered(p) PROVE job[p].way = "up" <=> job[p].m \notin Applied
  <2>1. PICK m \in Migrations : m = job[p].m
    BY <1>1
  <2>2. PICK k \in 0..N : /\ Applied = 1..k
                          /\ job[p].way = "up" => m = k + 1
                          /\ job[p].way = "down" => m = k
    BY <1>1, <1>2, <2>1 DEF Planned
  <2>3. m \in 1..N
    BY DEF Migrations
  <2>4. QED
    BY <1>1, <2>1, <2>2, <2>3
<1>3. QED
  BY <1>1, <1>2 DEF Current, Version, Script

(* What the row of a run and the work of its migration must be, for the    *)
(* migration to be resumed.                                                *)
Resumable(p, row, did) ==
    IF row = NoRow THEN transactional => did = {}
    ELSE (job[p].way = "up" => row.hash = Version(p)) /\ RowHolds(Current(p), Version(p), row, did)

LEMMA DoneFitsResumable ==
    ASSUME WorkInv, NEW p \in Procs, pc[p] \in InRun, ~Entered(p), RowFits(p, RowNow(p))
    PROVE  Resumable(p, RowNow(p), Did(p))
<1>1. PICK m \in Migrations : m = job[p].m
  BY InRunFacts DEF WorkInv
<1>2. DoneFits(m)
  BY DEF WorkInv
<1>3. /\ job[p].way = "up" => /\ Current(p) = UpScript[m][Version(p)]
                              /\ Version(p) = job[p].files[m].up
      /\ job[p].way = "down" => Current(p) = DownScript[m][1] /\ Version(p) = 1
      /\ job[p].way = "up" <=> m \notin Applied
  BY <1>1, RunsScript DEF WorkInv
<1>4. job[p].way \in {"up", "down"}
  BY InRunFacts DEF WorkInv, Ways
<1>5. CASE job[p].way = "up"
  <2>1. RowNow(p) = progress[m]["up"] /\ Did(p) = done[m]["up"]
    BY <1>1, <1>5 DEF RowNow, Did
  <2>2. m \notin Applied /\ Current(p) = UpScript[m][Version(p)]
    BY <1>3, <1>5
  <2>3. RowNow(p) # NoRow => RowNow(p).hash = Version(p)
    BY <1>5 DEF RowFits
  <2>4. QED
    BY <1>2, <2>1, <2>2, <2>3 DEF DoneFits, Resumable
<1>6. CASE job[p].way = "down"
  <2>1. RowNow(p) = progress[m]["down"] /\ Did(p) = done[m]["down"]
    BY <1>1, <1>6 DEF RowNow, Did
  <2>2. m \in Applied /\ Current(p) = DownScript[m][1] /\ Version(p) = 1
    BY <1>3, <1>6
  <2>3. QED
    BY <1>2, <1>6, <2>1, <2>2 DEF DoneFits, Resumable
<1>7. QED
  BY <1>4, <1>5, <1>6

(* Writes without a ledger row leave the migration to be resumed ...       *)
LEMMA ResumableFits ==
    ASSUME WorkInv, NEW p \in Procs, pc[p] \in InRun, ~Entered(p), transactional' = transactional,
           NEW t \in Writes, Effect(job[p].m, job[p].way, t), t.entry = Keep,
           Resumable(p, IF t.row = KeepRow THEN RowNow(p) ELSE t.row, Did(p) \cup t.work)
    PROVE  \A m \in Migrations : DoneFits(m)'
<1>1. PICK m \in Migrations : m = job[p].m
  BY InRunFacts DEF WorkInv
<1>2. PICK w \in {"up", "down"} : w = job[p].way
  BY InRunFacts DEF WorkInv, Ways
<1>3. \A n \in Migrations : DoneFits(n)
  BY DEF WorkInv
<1>4. /\ job[p].way = "up" => /\ Current(p) = UpScript[m][Version(p)]
                              /\ Version(p) = job[p].files[m].up
      /\ job[p].way = "down" => Current(p) = DownScript[m][1] /\ Version(p) = 1
      /\ job[p].way = "up" <=> m \notin Applied
  BY <1>1, RunsScript DEF WorkInv
<1>5. Applied' = Applied
  <2>1. Typed /\ Effect(m, w, t)
    BY <1>1, <1>2 DEF WorkInv, PlanInv
  <2>2. QED
    BY <2>1, AppliedFollows
<1>6. /\ done'[m][w] = Did(p) \cup t.work
      /\ progress'[m][w] = IF t.row = KeepRow THEN RowNow(p) ELSE t.row
      /\ \A x \in Ways \ {w} : done'[m][x] = done[m][x] /\ progress'[m][x] = progress[m][x]
      /\ ledger'[m] = ledger[m]
      /\ \A n \in Migrations \ {m} : done'[n] = done[n] /\ progress'[n] = progress[n] /\ ledger'[n] = ledger[n]
  BY <1>1, <1>2 DEF Effect, Did, RowNow
<1>7. Resumable(p, progress'[m][w], done'[m][w])
  BY <1>6
<1>8. ASSUME NEW n \in Migrations \ {m} PROVE DoneFits(n)'
  <2>1. DoneFits(n)
    BY <1>3
  <2>2. done'[n] = done[n] /\ progress'[n] = progress[n] /\ ledger'[n] = ledger[n]
    BY <1>6
  <2>3. QED
    BY <1>5, <2>1, <2>2 DEF DoneFits, RowHolds, Holds
<1>9. DoneFits(m)'
  <2>1. CASE w = "up"
    <3>1. /\ m \notin Applied' /\ done'[m]["down"] = done[m]["down"] /\ progress'[m]["down"] = progress[m]["down"]
          /\ Resumable(p, progress'[m]["up"], done'[m]["up"])
          /\ Current(p) = UpScript[m][Version(p)]
      BY <1>2, <1>4, <1>5, <1>6, <1>7, <2>1 DEF Ways
    <3>2. DoneFits(m) /\ m \notin Applied
      BY <1>3, <1>5, <3>1
    <3>3. progress'[m]["down"] = NoRow
      BY <3>1, <3>2 DEF DoneFits
    <3>4. done'[m]["down"] = {} \/ Holds(done[m]["down"], WorkOf(DownScript[m][1], 1))'
      BY <3>1, <3>2 DEF DoneFits, Holds
    <3>5. IF progress'[m]["up"] = NoRow THEN transactional' => done'[m]["up"] = {}
          ELSE RowHolds(UpScript[m][progress'[m]["up"].hash], progress'[m]["up"].hash, progress'[m]["up"], done'[m]["up"])
      BY <1>2, <2>1, <3>1 DEF Resumable
    <3>6. QED
      BY <3>1, <3>3, <3>4, <3>5 DEF DoneFits, RowHolds, Holds
  <2>2. CASE w = "down"
    <3>1. /\ m \in Applied' /\ done'[m]["up"] = done[m]["up"] /\ progress'[m]["up"] = progress[m]["up"]
          /\ Resumable(p, progress'[m]["down"], done'[m]["down"])
          /\ Current(p) = DownScript[m][1] /\ Version(p) = 1
      BY <1>2, <1>4, <1>5, <1>6, <1>7, <2>2 DEF Ways
    <3>2. DoneFits(m) /\ m \in Applied /\ ledger'[m] = ledger[m]
      BY <1>3, <1>5, <1>6, <3>1
    <3>3. progress'[m]["up"] = NoRow
      BY <3>1, <3>2 DEF DoneFits
    <3>4. Holds(done[m]["up"], WorkOf(UpScript[m][ledger[m]], ledger[m]))'
      BY <3>1, <3>2 DEF DoneFits, Holds
    <3>5. IF progress'[m]["down"] = NoRow THEN transactional' => done'[m]["down"] = {}
          ELSE RowHolds(DownScript[m][1], 1, progress'[m]["down"], done'[m]["down"])
      BY <3>1 DEF Resumable
    <3>6. QED
      BY <3>1, <3>3, <3>4, <3>5 DEF DoneFits, RowHolds, Holds
  <2>3. QED
    BY <2>1, <2>2
<1>10. QED
  BY <1>8, <1>9

(* ... and with the ledger row leave it done.                              *)
LEMMA EntryCompletes ==
    ASSUME WorkInv, NEW p \in Procs, pc[p] \in InRun, ~Entered(p), transactional' = transactional,
           NEW t \in Writes, Effect(job[p].m, job[p].way, t), t.entry = EntryOf(p),
           (IF t.row = KeepRow THEN RowNow(p) ELSE t.row) = NoRow,
           Holds(Did(p) \cup t.work, WorkOf(Current(p), Version(p)))
    PROVE  \A m \in Migrations : DoneFits(m)'
<1>1. PICK m \in Migrations : m = job[p].m
  BY InRunFacts DEF WorkInv
<1>2. PICK w \in {"up", "down"} : w = job[p].way
  BY InRunFacts DEF WorkInv, Ways
<1>3. \A n \in Migrations : DoneFits(n)
  BY DEF WorkInv
<1>4. /\ job[p].way = "up" => /\ Current(p) = UpScript[m][Version(p)]
                              /\ Version(p) = job[p].files[m].up
      /\ job[p].way = "down" => Current(p) = DownScript[m][1] /\ Version(p) = 1
      /\ job[p].way = "up" <=> m \notin Applied
  BY <1>1, RunsScript DEF WorkInv
<1>5. Keep \notin {0} \cup Versions /\ 0 \notin Versions
  BY RowsDiffer
<1>6. /\ w = "up" => t.entry = Version(p) /\ Version(p) \in Versions
      /\ w = "down" => t.entry = 0
      /\ t.entry # Keep
  BY <1>1, <1>2, <1>4, <1>5, InRunFacts DEF EntryOf, WorkInv
<1>7. /\ done'[m][w] = Did(p) \cup t.work
      /\ progress'[m][w] = NoRow
      /\ \A x \in Ways \ {w} : done'[m][x] = {} /\ progress'[m][x] = progress[m][x]
      /\ ledger'[m] = t.entry
      /\ \A n \in Migrations \ {m} : done'[n] = done[n] /\ progress'[n] = progress[n] /\ ledger'[n] = ledger[n]
  BY <1>1, <1>2, <1>6 DEF Effect, Did, RowNow
<1>8. /\ \A n \in Migrations \ {m} : n \in Applied' <=> n \in Applied
      /\ w = "up" => m \in Applied'
      /\ w = "down" => m \notin Applied'
  BY <1>5, <1>6, <1>7 DEF Applied
<1>9. ASSUME NEW n \in Migrations \ {m} PROVE DoneFits(n)'
  <2>1. DoneFits(n)
    BY <1>3
  <2>2. done'[n] = done[n] /\ progress'[n] = progress[n] /\ ledger'[n] = ledger[n] /\ (n \in Applied' <=> n \in Applied)
    BY <1>7, <1>8
  <2>3. QED
    BY <2>1, <2>2 DEF DoneFits, RowHolds, Holds
<1>10. DoneFits(m)'
  <2>1. CASE w = "up"
    <3>1. /\ m \in Applied' /\ done'[m]["down"] = {} /\ progress'[m]["down"] = progress[m]["down"]
          /\ progress'[m]["up"] = NoRow /\ ledger'[m] = Version(p)
          /\ Holds(done'[m]["up"], WorkOf(UpScript[m][ledger'[m]], ledger'[m]))
      <4>1. ledger'[m] = Version(p) /\ done'[m]["up"] = Did(p) \cup t.work
        BY <1>6, <1>7, <2>1
      <4>2. Current(p) = UpScript[m][Version(p)]
        BY <1>2, <1>4, <2>1
      <4>3. Holds(done'[m]["up"], WorkOf(UpScript[m][ledger'[m]], ledger'[m]))
        BY <4>1, <4>2
      <4>4. QED
        BY <1>7, <1>8, <2>1, <4>1, <4>3 DEF Ways
    <3>2. progress[m]["down"] = NoRow
      BY <1>2, <1>3, <1>4, <2>1 DEF DoneFits
    <3>3. QED
      BY <3>1, <3>2 DEF DoneFits, Holds
  <2>2. CASE w = "down"
    <3>1. /\ m \notin Applied' /\ done'[m]["up"] = {} /\ progress'[m]["up"] = progress[m]["up"]
          /\ progress'[m]["down"] = NoRow
          /\ Holds(done'[m]["down"], WorkOf(DownScript[m][1], 1))
      BY <1>2, <1>4, <1>6, <1>7, <1>8, <2>2 DEF Ways
    <3>2. progress[m]["up"] = NoRow
      BY <1>2, <1>3, <1>4, <2>2 DEF DoneFits
    <3>3. QED
      BY <3>1, <3>2 DEF DoneFits, Holds
  <2>3. QED
    BY <2>1, <2>2
<1>11. QED
  BY <1>9, <1>10

(* What Write leaves, of t and of what the run had: the same in a          *)
(* transaction and outside of one.                                         *)
LEMMA WriteAdds ==
    ASSUME WorkInv, NEW p \in Procs, pc[p] \in InRun, NEW t \in Writes, Write(p, t),
           transactional' = transactional, job'[p].m = job[p].m, job'[p].way = job[p].way,
           job[p].auto => ~transactional
    PROVE  /\ Did(p)' = IF job[p].auto THEN Did(p) \cup t.work ELSE Did(p)
           /\ All(p)' = Did(p) \cup t.work
           /\ RowNow(p)' = IF job[p].auto /\ t.row # KeepRow THEN t.row ELSE RowNow(p)
           /\ RowToBe(p)' = IF t.row = KeepRow THEN RowNow(p) ELSE t.row
           /\ transactional => Did(p)' = Did(p) /\ tx'[p].work = t.work
           /\ transactional' => repeats' = {}
<1>1. /\ Effect(job[p].m, job[p].way, Now(p, t))
      /\ tx'[p] = (IF job[p].auto THEN Nothing ELSE t)
  BY WriteTakesEffect DEF WorkInv
<1>2. Nothing.work = {} /\ Nothing.row = KeepRow
  BY RowsDiffer
<1>3. PICK m : m = job[p].m
  OBVIOUS
<1>4. PICK w : w = job[p].way
  OBVIOUS
<1>5. /\ done'[m][w] = done[m][w] \cup Now(p, t).work
      /\ progress'[m][w] = IF Now(p, t).row = KeepRow THEN progress[m][w] ELSE Now(p, t).row
      /\ repeats' = repeats \cup {<<m, w, x>> : x \in Now(p, t).work \cap done[m][w]}
  BY <1>1, <1>3, <1>4 DEF Effect
<1>6. /\ Did(p) = done[m][w] /\ RowNow(p) = progress[m][w]
      /\ Did(p)' = done'[m][w] /\ RowNow(p)' = progress'[m][w]
  BY <1>3, <1>4 DEF Did, RowNow
<1>7. CASE job[p].auto
  <2>1. Now(p, t) = t /\ tx'[p] = Nothing /\ ~transactional
    BY <1>1, <1>7 DEF Now
  <2>2. All(p)' = Did(p)' \cup tx'[p].work /\ RowToBe(p)' = IF tx'[p].row = KeepRow THEN RowNow(p)' ELSE tx'[p].row
    BY DEF All, RowToBe
  <2>3. QED
    BY <1>2, <1>5, <1>6, <1>7, <2>1, <2>2
<1>8. CASE ~job[p].auto
  <2>1. Now(p, t) = Nothing /\ tx'[p] = t
    BY <1>1, <1>8 DEF Now
  <2>2. All(p)' = Did(p)' \cup tx'[p].work /\ RowToBe(p)' = IF tx'[p].row = KeepRow THEN RowNow(p)' ELSE tx'[p].row
    BY DEF All, RowToBe
  <2>3. Did(p)' = Did(p) /\ RowNow(p)' = RowNow(p)
    BY <1>2, <1>5, <1>6, <2>1
  <2>4. repeats' = repeats
    BY <1>2, <1>5, <2>1
  <2>5. QED
    BY <1>8, <2>1, <2>2, <2>3, <2>4 DEF WorkInv
<1>9. QED
  BY <1>7, <1>8

LEMMA HoldsMore ==
    ASSUME NEW A, NEW B, NEW W, Holds(A, B)
    PROVE  Holds(A \cup W, B \cup W)
BY DEF Holds

LEMMA HoldsMeans ==
    ASSUME NEW A, NEW B
    PROVE  Holds(A, B) <=> B \subseteq A /\ (transactional => A \subseteq B)
BY DEF Holds

(* What is known of a run that goes on.                                    *)
LEMMA RunFacts ==
    ASSUME WorkInv, NEW p \in Procs, pc[p] \in InRun
    PROVE  /\ PlanInv /\ RunHolds(p) /\ (job[p].auto => ~transactional) /\ RowFits(p, RowNow(p))
           /\ (transactional => repeats = {}) /\ \A m \in Migrations : DoneFits(m)
BY DEF WorkInv, InRun, RunHolds

LEMMA StatementWorks ==
    ASSUME OneApplies, WorkInv, NEW p \in Procs, Statement(p), PlanInv'
    PROVE  WorkInv'
<1>1. pc[p] = "run" /\ pc[p] \in InRun /\ ~Entered(p)
  BY DEF Statement, InRun, Entered
<1>2. /\ PlanInv /\ RunHolds(p) /\ (job[p].auto => ~transactional) /\ RowFits(p, RowNow(p))
  BY <1>1, RunFacts
<1>3. /\ Typed /\ Running(p) /\ Current(p) \in Seq(UnitKinds) /\ job[p] \in Jobs /\ job[p].auto \in BOOLEAN
      /\ job[p].m \in Migrations /\ tx[p] \in Writes
  BY <1>1, <1>2, InRunFacts
<1>4. PICK u \in Seq(UnitKinds) : u = Current(p)
  BY <1>3
<1>5. PICK i \in 1..Len(u) : i = job[p].at
  BY <1>1, <1>3, <1>4 DEF Running
<1>6. PICK v : v = Version(p)
  OBVIOUS
<1>7. PICK t \in Writes : t = StatementWrites(p)
  BY <1>1, <1>2, StatementWritesWork
<1>8. t.row = KeepRow /\ t.entry = Keep /\ t.work = tx[p].work \cup {<<v, i, 0>>}
  BY <1>1, <1>2, <1>5, <1>6, <1>7, StatementWritesWork
<1>9. /\ Write(p, t) /\ u[i] # "chunk" /\ UNCHANGED <<transactional, disk, edits, failures>>
      /\ \/ /\ EndsSegment(u, i) /\ job' = job
            /\ pc' = [pc EXCEPT ![p] = IF Chunked(u) THEN "close" ELSE "entry"]
         \/ ~EndsSegment(u, i) /\ job' = [job EXCEPT ![p] = [job[p] EXCEPT !.at = i + 1]] /\ pc' = pc
  BY <1>4, <1>5, <1>7 DEF Statement, Goto, StatementWrites
<1>10. /\ SameRun(p) /\ job'[p].auto = job[p].auto
       /\ job'[p].at = (IF EndsSegment(u, i) THEN i ELSE i + 1)
  <2>1. CASE EndsSegment(u, i)
    BY <2>1, <1>5, <1>9 DEF SameRun
  <2>2. CASE ~EndsSegment(u, i)
    <3>1. job'[p] = [job[p] EXCEPT !.at = i + 1]
      BY <2>2, <1>3, <1>9 DEF Typed
    <3>2. QED
      BY <2>2, <3>1, <1>3 DEF SameRun, Jobs
  <2>3. QED
    BY <2>1, <2>2
<1>11. pc'[p] = (IF ~EndsSegment(u, i) THEN "run" ELSE IF Chunked(u) THEN "close" ELSE "entry")
  BY <1>1, <1>3, <1>9 DEF Typed
<1>12. /\ Current(p)' = u /\ Version(p)' = v /\ job'[p].way = job[p].way /\ job'[p].m = job[p].m
  BY <1>4, <1>6, <1>10, SameRunSameScript DEF SameRun
<1>13. /\ Did(p)' = IF job[p].auto THEN Did(p) \cup t.work ELSE Did(p)
       /\ All(p)' = Did(p) \cup t.work
       /\ RowNow(p)' = RowNow(p) /\ RowToBe(p)' = RowNow(p)
       /\ transactional => Did(p)' = Did(p) /\ tx'[p].work = t.work
       /\ transactional' => repeats' = {}
  BY <1>1, <1>2, <1>8, <1>9, <1>12, WriteAdds
<1>14. /\ Holds(All(p), Behind(u, v, i, job[p].cursor))
       /\ RowNow(p).segment = SegmentOf(u, i) /\ RowNow(p).cursor = 0
       /\ transactional => Did(p) \cap tx[p].work = {}
  BY <1>1, <1>2, <1>4, <1>5, <1>6, <1>9 DEF RunHolds
<1>15. /\ Behind(u, v, i + 1, 0) = Behind(u, v, i, job[p].cursor) \cup {<<v, i, 0>>}
       /\ <<v, i, 0>> \notin Behind(u, v, i, job[p].cursor)
  BY <1>9, BehindStatement
<1>16. All(p)' = All(p) \cup {<<v, i, 0>>}
  BY <1>8, <1>13 DEF All
<1>17. Holds(All(p)', Behind(u, v, i + 1, 0))
  <2>1. Holds(All(p) \cup {<<v, i, 0>>}, Behind(u, v, i, job[p].cursor) \cup {<<v, i, 0>>})
    BY <1>14, HoldsMore
  <2>2. QED
    BY <2>1, <1>15, <1>16
<1>18. transactional => Did(p)' \cap tx'[p].work = {}
  <2> SUFFICES ASSUME transactional PROVE Did(p)' \cap tx'[p].work = {}
    OBVIOUS
  <2>1. <<v, i, 0>> \notin All(p)
    BY <1>14, <1>15, HoldsMeans
  <2>2. Did(p)' = Did(p) /\ tx'[p].work = tx[p].work \cup {<<v, i, 0>>} /\ Did(p) \cap tx[p].work = {}
    BY <1>8, <1>13, <1>14
  <2>3. <<v, i, 0>> \notin Did(p)
    BY <2>1 DEF All
  <2>4. QED
    BY <2>2, <2>3
<1>19. RowFits(p, RowNow(p))'
  BY <1>2, <1>4, <1>6, <1>12, <1>13 DEF RowFits
<1>20. RunHolds(p)'
  <2>1. job'[p].auto => ~transactional'
    BY <1>2, <1>9, <1>10
  <2>2. ~Chunked(u) => RowNow(p) = NoRow
    BY <1>2, <1>4 DEF RowFits
  <2>3. ~EndsSegment(u, i) =>
          /\ Behind(u, v, i + 1, job'[p].cursor) = Behind(u, v, i + 1, 0) /\ u[i + 1] # "chunk"
          /\ SegmentOf(u, i + 1) = SegmentOf(u, i)
    BY SegmentEnds, BehindPlain
  <2>4. CASE EndsSegment(u, i)
    BY <2>1, <2>2, <2>4, <1>9, <1>10, <1>11, <1>12, <1>13, <1>17, <1>18, <1>19 DEF RunHolds, Holds
  <2>5. CASE ~EndsSegment(u, i)
    BY <2>1, <2>3, <2>5, <1>9, <1>10, <1>11, <1>12, <1>13, <1>14, <1>17, <1>18, <1>19 DEF RunHolds, Holds
  <2>6. QED
    BY <2>4, <2>5
<1>21. \A m \in Migrations : DoneFits(m)'
  <2>1. Resumable(p, RowNow(p), Did(p))
    BY <1>1, <1>2, DoneFitsResumable
  <2>2. CASE ~job[p].auto
    <3>1. UNCHANGED db
      BY <2>2, <1>9 DEF Write
    <3>2. QED
      BY <3>1, <1>9, DoneStays
  <2>3. CASE job[p].auto
    <3>1. Now(p, t) = t /\ Effect(job[p].m, job[p].way, t)
      BY <2>3, <1>1, <1>2, <1>9, WriteTakesEffect DEF Now
    <3>2. Resumable(p, RowNow(p), Did(p) \cup t.work)
      BY <2>1, <2>3, <1>2 DEF Resumable, RowHolds, Holds
    <3>3. QED
      BY <3>1, <3>2, <1>1, <1>8, <1>9, ResumableFits
  <2>4. QED
    BY <2>2, <2>3
<1>22. QED
  BY <1>13, <1>20, <1>21, WorkStepKeeps

LEMMA ImplicitCommitWorks ==
    ASSUME OneApplies, WorkInv, NEW p \in Procs, ImplicitCommit(p), PlanInv'
    PROVE  WorkInv'
<1>1. pc[p] = "run" /\ pc[p] \in InRun /\ ~Entered(p) /\ pc'[p] = "run" /\ ~Entered(p)'
  BY DEF ImplicitCommit, InRun, Entered
<1>2. /\ PlanInv /\ RunHolds(p) /\ RowFits(p, RowNow(p)) /\ (transactional => repeats = {})
  BY <1>1, RunFacts
<1>3. /\ Typed /\ Running(p) /\ job[p] \in Jobs /\ job[p].m \in Migrations /\ tx[p] \in Writes
  BY <1>1, <1>2, InRunFacts
<1>4. /\ Publish(p, tx[p]) /\ tx' = [tx EXCEPT ![p] = Nothing] /\ job' = [job EXCEPT ![p] = [job[p] EXCEPT !.auto = TRUE]]
      /\ UNCHANGED <<transactional, disk, pc, edits, failures>> /\ ~transactional /\ Current(p)[job[p].at] # "chunk"
  BY DEF ImplicitCommit
<1>5. job'[p] = [job[p] EXCEPT !.auto = TRUE] /\ tx'[p] = Nothing
  BY <1>3, <1>4 DEF Typed
<1>6. SameRun(p) /\ job'[p].at = job[p].at /\ job'[p].cursor = job[p].cursor
  BY <1>3, <1>5 DEF SameRun, Jobs
<1>7. /\ Current(p)' = Current(p) /\ Version(p)' = Version(p) /\ job'[p].way = job[p].way /\ job'[p].m = job[p].m
  BY <1>6, SameRunSameScript DEF SameRun
<1>8. Effect(job[p].m, job[p].way, tx[p])
  BY <1>3, <1>4, PublishTakesEffect
<1>9. Nothing.work = {} /\ tx[p].row = KeepRow /\ tx[p].entry = Keep
  BY <1>1, <1>3, RowsDiffer DEF Running
<1>10. Did(p)' = Did(p) \cup tx[p].work /\ RowNow(p)' = RowNow(p)
  BY <1>7, <1>8, <1>9 DEF Effect, Did, RowNow
<1>11. All(p)' = All(p)
  BY <1>5, <1>9, <1>10 DEF All
<1>12. RowFits(p, RowNow(p))'
  BY <1>2, <1>7, <1>10 DEF RowFits
<1>13. /\ Holds(All(p), Behind(Current(p), Version(p), job[p].at, job[p].cursor))
       /\ RowNow(p).segment = SegmentOf(Current(p), job[p].at) /\ RowNow(p).cursor = 0
  BY <1>1, <1>2, <1>4 DEF RunHolds
<1>14. RunHolds(p)'
  BY <1>1, <1>4, <1>6, <1>7, <1>10, <1>11, <1>12, <1>13 DEF RunHolds, Holds
<1>15. \A m \in Migrations : DoneFits(m)'
  <2>1. Resumable(p, RowNow(p), Did(p))
    BY <1>1, <1>2, DoneFitsResumable
  <2>2. Resumable(p, RowNow(p), Did(p) \cup tx[p].work)
    BY <2>1, <1>4 DEF Resumable, RowHolds, Holds
  <2>3. QED
    BY <2>2, <1>1, <1>3, <1>4, <1>8, <1>9, ResumableFits
<1>16. QED
  BY <1>4, <1>14, <1>15, WorkStepKeeps

LEMMA BatchWorks ==
    ASSUME OneApplies, WorkInv, NEW p \in Procs, Batch(p), PlanInv'
    PROVE  WorkInv'
<1>1. pc[p] = "run" /\ pc[p] \in InRun /\ ~Entered(p)
  BY DEF Batch, InRun, Entered
<1>2. /\ PlanInv /\ RunHolds(p) /\ RowFits(p, RowNow(p)) /\ (job[p].auto => ~transactional)
  BY <1>1, RunFacts
<1>3. /\ Typed /\ Running(p) /\ job[p] \in Jobs /\ job[p].m \in Migrations /\ job[p].cursor \in 0..Batches
      /\ Current(p) \in Seq(UnitKinds)
  BY <1>1, <1>2, InRunFacts
<1>4. PICK u \in Seq(UnitKinds) : u = Current(p)
  BY <1>3
<1>5. PICK i \in 1..Len(u) : i = job[p].at
  BY <1>1, <1>3, <1>4 DEF Running
<1>6. PICK v : v = Version(p)
  OBVIOUS
<1>7. PICK c \in Nat : c = job[p].cursor + 1
  BY <1>3
<1>8. /\ u[i] = "chunk" /\ UNCHANGED <<transactional, disk, edits, failures>> /\ UNCHANGED db
      /\ \/ c > Batches /\ pc' = [pc EXCEPT ![p] = "close"] /\ UNCHANGED <<job, tx>>
         \/ /\ c <= Batches /\ tx' = [tx EXCEPT ![p] = BatchWrites(p, c)]
            /\ job' = [job EXCEPT ![p] = [job[p] EXCEPT !.cursor = c]] /\ pc' = [pc EXCEPT ![p] = "commit"]
  BY <1>4, <1>5, <1>7 DEF Batch, Goto
<1>9. /\ tx[p] = Nothing /\ ~job[p].auto /\ Nothing.work = {} /\ Nothing.row = KeepRow
  BY <1>1, <1>3, <1>4, <1>5, <1>8, RowsDiffer DEF Running
<1>10. UNCHANGED <<ledger, progress, done, repeats>>
  BY <1>8 DEF db
<1>11. Holds(All(p), Behind(u, v, i, job[p].cursor)) /\ All(p) = Did(p)
  BY <1>1, <1>2, <1>4, <1>5, <1>6, <1>9 DEF RunHolds, All
<1>12. (transactional' => repeats' = {}) /\ \A m \in Migrations : DoneFits(m)'
  BY <1>8, DoneStays
<1>13. RunHolds(p)'
  <2>1. CASE c > Batches /\ pc' = [pc EXCEPT ![p] = "close"] /\ UNCHANGED <<job, tx>>
    <3>1. SameRun(p) /\ pc'[p] = "close"
      BY <2>1, <1>3 DEF SameRun, Typed
    <3>2. /\ Current(p)' = u /\ Version(p)' = v /\ job'[p] = job[p] /\ tx'[p] = tx[p]
      BY <2>1, <3>1, <1>4, <1>6, SameRunSameScript
    <3>3. All(p)' = All(p) /\ Did(p)' = Did(p) /\ RowNow(p)' = RowNow(p)
      BY <3>2, <1>10 DEF All, Did, RowNow
    <3>4. job[p].cursor = Batches
      BY <2>1, <1>3, <1>7
    <3>5. Holds(All(p), Behind(u, v, i + 1, 0))
      BY <3>4, <1>8, <1>11, BehindChunk
    <3>6. RowFits(p, RowNow(p))'
      BY <1>2, <1>4, <1>6, <3>2, <3>3 DEF RowFits
    <3>7. QED
      BY <1>5, <1>8, <1>9, <3>1, <3>2, <3>3, <3>5, <3>6 DEF RunHolds, Holds
  <2>2. CASE /\ c <= Batches /\ tx' = [tx EXCEPT ![p] = BatchWrites(p, c)]
             /\ job' = [job EXCEPT ![p] = [job[p] EXCEPT !.cursor = c]] /\ pc' = [pc EXCEPT ![p] = "commit"]
    <3>1. c \in 1..Batches /\ c \in 0..Batches
      BY <2>2, <1>3, <1>7
    <3>2. BatchWrites(p, c).work = {<<v, i, c>>} /\ BatchWrites(p, c).row.cursor = c
      <4>1. job[p].at \in DOMAIN Current(p)
        BY <1>4, <1>5
      <4>2. /\ BatchWrites(p, c).work = {<<Version(p), job[p].at, c>>}
            /\ BatchWrites(p, c).row = [hash |-> job[p].files[job[p].m].up,
                                        segment |-> SegmentOf(Current(p), job[p].at), cursor |-> c]
        BY <1>1, <1>2, <3>1, <4>1, BatchWritesRow
      <4>3. QED
        BY <4>2, <1>5, <1>6
    <3>3. job'[p] = [job[p] EXCEPT !.cursor = c] /\ tx'[p] = BatchWrites(p, c) /\ pc'[p] = "commit"
      BY <2>2, <1>3 DEF Typed
    <3>4. SameRun(p) /\ job'[p].at = i /\ job'[p].cursor = c /\ job'[p].auto = job[p].auto
      BY <3>3, <1>3, <1>5 DEF SameRun, Jobs
    <3>5. Current(p)' = u /\ Version(p)' = v /\ job'[p].way = job[p].way /\ job'[p].m = job[p].m
      BY <3>4, <1>4, <1>6, SameRunSameScript DEF SameRun
    <3>6. Did(p)' = Did(p) /\ RowNow(p)' = RowNow(p)
      BY <3>5, <1>10 DEF Did, RowNow
    <3>7. All(p)' = All(p) \cup {<<v, i, c>>}
      BY <3>2, <3>3, <3>6, <1>11 DEF All
    <3>8. /\ Behind(u, v, i, c) = Behind(u, v, i, c - 1) \cup {<<v, i, c>>}
          /\ <<v, i, c>> \notin Behind(u, v, i, c - 1) /\ c - 1 = job[p].cursor
      <4>1. c - 1 = job[p].cursor
        BY <1>3, <1>7
      <4>2. QED
        BY <4>1, <3>1, <1>8, BehindBatch
    <3>9. Holds(All(p)', Behind(u, v, i, c))
      <4>1. Holds(All(p) \cup {<<v, i, c>>}, Behind(u, v, i, job[p].cursor) \cup {<<v, i, c>>})
        BY <1>11, HoldsMore
      <4>2. QED
        BY <4>1, <3>7, <3>8
    <3>10. transactional => Did(p)' \cap tx'[p].work = {}
      <4> SUFFICES ASSUME transactional PROVE Did(p)' \cap tx'[p].work = {}
        OBVIOUS
      <4>1. <<v, i, c>> \notin Did(p)
        BY <1>11, <3>8, HoldsMeans
      <4>2. tx'[p].work = {<<v, i, c>>}
        BY <3>2, <3>3
      <4>3. QED
        BY <4>1, <4>2, <3>6
    <3>11. RowFits(p, RowNow(p))'
      BY <1>2, <1>4, <1>6, <3>5, <3>6 DEF RowFits
    <3>12. tx'[p].row.cursor > 0
      BY <3>1, <3>2, <3>3
    <3>13. QED
      BY <1>8, <1>9, <3>3, <3>4, <3>5, <3>9, <3>10, <3>11, <3>12 DEF RunHolds, Holds
  <2>3. QED
    BY <1>8, <2>1, <2>2
<1>14. QED
  BY <1>12, <1>13, WorkStepKeeps

LEMMA ClearProgressWorks ==
    ASSUME OneApplies, WorkInv, NEW p \in Procs, ClearProgress(p), PlanInv'
    PROVE  WorkInv'
<1>1. pc[p] = "close" /\ pc[p] \in InRun /\ ~Entered(p)
  BY DEF ClearProgress, InRun, Entered
<1>2. /\ PlanInv /\ RunHolds(p) /\ RowFits(p, RowNow(p)) /\ (job[p].auto => ~transactional)
  BY <1>1, RunFacts
<1>3. /\ Typed /\ Running(p) /\ job[p] \in Jobs /\ job[p].m \in Migrations /\ tx[p] \in Writes /\ job[p].auto \in BOOLEAN
  BY <1>1, <1>2, InRunFacts
<1>4. NoRow \in Row /\ NoRow # KeepRow /\ tx[p].entry = Keep
  BY <1>1, <1>3, RowsDiffer DEF Running
<1>5. PICK t : t = [tx[p] EXCEPT !.row = NoRow]
  OBVIOUS
<1>6. t \in Writes /\ t.row = NoRow /\ t.entry = Keep /\ t.work = tx[p].work
  BY <1>3, <1>4, <1>5 DEF Writes
<1>7. /\ Write(p, t) /\ pc' = [pc EXCEPT ![p] = "entry"] /\ UNCHANGED <<transactional, disk, job, edits, failures>>
  BY <1>5 DEF ClearProgress, Goto
<1>8. SameRun(p) /\ pc'[p] = "entry" /\ job'[p] = job[p]
  BY <1>3, <1>7 DEF SameRun, Typed
<1>9. Current(p)' = Current(p) /\ Version(p)' = Version(p)
  BY <1>8, SameRunSameScript
<1>10. /\ All(p)' = Did(p) \cup t.work
       /\ RowNow(p)' = IF job[p].auto /\ t.row # KeepRow THEN t.row ELSE RowNow(p)
       /\ RowToBe(p)' = IF t.row = KeepRow THEN RowNow(p) ELSE t.row
       /\ transactional => Did(p)' = Did(p) /\ tx'[p].work = t.work
       /\ transactional' => repeats' = {}
  BY <1>1, <1>2, <1>6, <1>7, <1>8, WriteAdds
<1>11. RowNow(p)' \in {NoRow, RowNow(p)} /\ RowToBe(p)' = NoRow /\ All(p)' = All(p)
  BY <1>4, <1>6, <1>10 DEF All
<1>12. RowFits(p, RowNow(p))'
  BY <1>2, <1>8, <1>9, <1>11 DEF RowFits
<1>13. RunHolds(p)'
  <2>1. Holds(All(p), Behind(Current(p), Version(p), job[p].at + 1, 0)) /\ (transactional => Did(p) \cap tx[p].work = {})
    BY <1>1, <1>2 DEF RunHolds
  <2>2. QED
    BY <2>1, <1>2, <1>6, <1>7, <1>8, <1>9, <1>10, <1>11, <1>12 DEF RunHolds, Holds
<1>14. \A m \in Migrations : DoneFits(m)'
  <2>1. CASE ~job[p].auto
    <3>1. UNCHANGED db
      BY <2>1, <1>7 DEF Write
    <3>2. QED
      BY <3>1, <1>7, DoneStays
  <2>2. CASE job[p].auto
    <3>1. Effect(job[p].m, job[p].way, t)
      BY <2>2, <1>1, <1>2, <1>6, <1>7, WriteTakesEffect DEF Now
    <3>2. Resumable(p, NoRow, Did(p) \cup t.work)
      BY <2>2, <1>2 DEF Resumable
    <3>3. (IF t.row = KeepRow THEN RowNow(p) ELSE t.row) = NoRow
      BY <1>4, <1>6
    <3>4. Resumable(p, IF t.row = KeepRow THEN RowNow(p) ELSE t.row, Did(p) \cup t.work)
      BY <3>2, <3>3
    <3>5. QED
      BY <3>1, <3>4, <1>1, <1>6, <1>7, ResumableFits
  <2>3. QED
    BY <2>1, <2>2
<1>15. QED
  BY <1>10, <1>13, <1>14, WorkStepKeeps

(* At the end of a segment the row of the next one stands at what is       *)
(* behind the run.                                                         *)
LEMMA NextSegmentStands ==
    ASSUME PlanInv, NEW p \in Procs, pc[p] \in InRun, AtEnd(p), ~LastSegment(p),
           NEW X, Holds(X, Behind(Current(p), Version(p), job[p].at + 1, 0))
    PROVE  Resumable(p, NextSegment(p), X) /\ RowFits(p, NextSegment(p))
<1>1. /\ NextSegment(p).cursor = 0 /\ NextSegment(p) # NoRow
      /\ NextSegment(p).hash = job[p].files[job[p].m].up
      /\ NextSegment(p).segment = SegmentOf(Current(p), job[p].at) + 1
      /\ job[p].at \in 1..Len(Current(p)) /\ job[p].at + 1 \in 1..Len(Current(p))
      /\ EndsSegment(Current(p), job[p].at)
      /\ SegmentOf(Current(p), job[p].at + 1) = NextSegment(p).segment
  BY NextSegmentIsThere
<1>2. /\ job[p].way = "up" => NextSegment(p).hash = Version(p)
      /\ job[p].way \in {"up", "down"}
  BY <1>1, RunsScript, InRunFacts DEF Ways
<1>3. PICK u \in Seq(UnitKinds) : u = Current(p)
  BY InRunFacts
<1>4. PICK i \in 1..Len(u) : i = job[p].at
  BY <1>1, <1>3
<1>5. SegmentOf(u, i) \in Nat /\ SegmentOf(u, i + 1) = SegmentOf(u, i) + 1 /\ i + 1 \in 1..Len(u)
  BY <1>1, <1>3, <1>4, CutsAreFinite
<1>6. Chunked(u)
  <2>1. "chunk" \in {u[i], u[i + 1]}
    BY <1>5, NextUnitsSegment
  <2>2. i \in DOMAIN u /\ i + 1 \in DOMAIN u
    BY <1>5
  <2>3. QED
    BY <2>1, <2>2 DEF Chunked
<1>7. WorkBefore(u, Version(p), SegmentOf(u, i) + 1, 0) = Behind(u, Version(p), i + 1, 0)
  <2>1. EndsSegment(u, i) /\ i # Len(u)
    BY <1>1, <1>3, <1>4, <1>5
  <2>2. QED
    BY <2>1, BehindSegment
<1>8. Holds(X, WorkBefore(u, Version(p), NextSegment(p).segment, NextSegment(p).cursor))
  <2>1. NextSegment(p).segment = SegmentOf(u, i) + 1 /\ NextSegment(p).cursor = 0
    BY <1>1, <1>3, <1>4
  <2>2. Holds(X, Behind(u, Version(p), i + 1, 0))
    BY <1>3, <1>4
  <2>3. QED
    BY <2>1, <2>2, <1>7
<1>9. QED
  BY <1>1, <1>2, <1>3, <1>6, <1>8 DEF Resumable, RowHolds, RowFits

LEMMA MoveProgressWorks ==
    ASSUME OneApplies, WorkInv, NEW p \in Procs, MoveProgress(p), PlanInv'
    PROVE  WorkInv'
<1>1. pc[p] = "entry" /\ pc[p] \in InRun /\ ~LastSegment(p) /\ ~Entered(p)
  BY DEF MoveProgress, InRun, Entered
<1>2. /\ PlanInv /\ RunHolds(p) /\ RowFits(p, RowNow(p)) /\ (job[p].auto => ~transactional)
  BY <1>1, RunFacts
<1>3. /\ Typed /\ Running(p) /\ job[p] \in Jobs /\ job[p].m \in Migrations /\ tx[p] \in Writes /\ job[p].auto \in BOOLEAN
  BY <1>1, <1>2, InRunFacts
<1>4. AtEnd(p) /\ tx[p].entry = Keep /\ (job[p].auto => tx[p] = Nothing)
  BY <1>1, <1>3 DEF Running
<1>5. NextSegment(p) \in Row /\ NextSegment(p) # KeepRow /\ NextSegment(p).cursor = 0
  BY <1>1, <1>2, <1>4, NextSegmentIsThere
<1>6. PICK t : t = [tx[p] EXCEPT !.row = NextSegment(p)]
  OBVIOUS
<1>7. t \in Writes /\ t.row = NextSegment(p) /\ t.entry = Keep /\ t.work = tx[p].work
  BY <1>3, <1>4, <1>5, <1>6 DEF Writes
<1>8. /\ Write(p, t) /\ pc' = [pc EXCEPT ![p] = "commit"] /\ UNCHANGED <<transactional, disk, job, edits, failures>>
  BY <1>6 DEF MoveProgress, Goto, NextSegment
<1>9. SameRun(p) /\ pc'[p] = "commit" /\ job'[p] = job[p]
  BY <1>3, <1>8 DEF SameRun, Typed
<1>10. Current(p)' = Current(p) /\ Version(p)' = Version(p)
  BY <1>9, SameRunSameScript
<1>11. ~LastSegment(p)' /\ NextSegment(p)' = NextSegment(p)
  BY <1>1, <1>9, <1>10 DEF LastSegment, NextSegment
<1>12. /\ All(p)' = Did(p) \cup t.work
       /\ RowNow(p)' = IF job[p].auto /\ t.row # KeepRow THEN t.row ELSE RowNow(p)
       /\ RowToBe(p)' = IF t.row = KeepRow THEN RowNow(p) ELSE t.row
       /\ transactional => Did(p)' = Did(p) /\ tx'[p].work = t.work
       /\ transactional' => repeats' = {}
  BY <1>1, <1>2, <1>7, <1>8, <1>9, WriteAdds
<1>13. RowNow(p)' \in {NextSegment(p), RowNow(p)} /\ RowToBe(p)' = NextSegment(p) /\ All(p)' = All(p)
  BY <1>5, <1>7, <1>12 DEF All
<1>14. Holds(All(p), Behind(Current(p), Version(p), job[p].at + 1, 0)) /\ (transactional => Did(p) \cap tx[p].work = {})
  BY <1>1, <1>2 DEF RunHolds
<1>15. Resumable(p, NextSegment(p), All(p)) /\ RowFits(p, NextSegment(p))
  BY <1>1, <1>2, <1>4, <1>14, NextSegmentStands
<1>16. RowFits(p, RowNow(p))'
  BY <1>2, <1>9, <1>10, <1>13, <1>15 DEF RowFits
<1>17. tx'[p].row.cursor = 0
  <2>1. tx'[p] = (IF job[p].auto THEN Nothing ELSE t) /\ Nothing.row.cursor = 0
    BY <1>1, <1>2, <1>7, <1>8, WriteTakesEffect, RowsDiffer
  <2>2. QED
    BY <2>1, <1>5, <1>7
<1>18. RunHolds(p)'
  BY <1>2, <1>7, <1>8, <1>9, <1>10, <1>11, <1>12, <1>13, <1>14, <1>16, <1>17 DEF RunHolds, Holds
<1>19. \A m \in Migrations : DoneFits(m)'
  <2>1. CASE ~job[p].auto
    <3>1. UNCHANGED db
      BY <2>1, <1>8 DEF Write
    <3>2. QED
      BY <3>1, <1>8, DoneStays
  <2>2. CASE job[p].auto
    <3>1. Effect(job[p].m, job[p].way, t)
      BY <2>2, <1>1, <1>2, <1>7, <1>8, WriteTakesEffect DEF Now
    <3>2. (IF t.row = KeepRow THEN RowNow(p) ELSE t.row) = NextSegment(p) /\ Did(p) \cup t.work = All(p)
      BY <1>5, <1>7 DEF All
    <3>3. Resumable(p, IF t.row = KeepRow THEN RowNow(p) ELSE t.row, Did(p) \cup t.work)
      BY <1>15, <3>2
    <3>4. QED
      BY <3>1, <3>3, <1>1, <1>7, <1>8, ResumableFits
  <2>3. QED
    BY <2>1, <2>2
<1>20. QED
  BY <1>12, <1>18, <1>19, WorkStepKeeps

LEMMA WriteEntryWorks ==
    ASSUME OneApplies, WorkInv, NEW p \in Procs, WriteEntry(p), PlanInv'
    PROVE  WorkInv'
<1>1. pc[p] = "entry" /\ pc[p] \in InRun /\ LastSegment(p) /\ ~Entered(p)
  BY DEF WriteEntry, InRun, Entered
<1>2. /\ PlanInv /\ RunHolds(p) /\ RowFits(p, RowNow(p)) /\ (job[p].auto => ~transactional)
  BY <1>1, RunFacts
<1>3. /\ Typed /\ Running(p) /\ job[p] \in Jobs /\ job[p].m \in Migrations /\ tx[p] \in Writes /\ job[p].auto \in BOOLEAN
      /\ job[p].files[job[p].m].up \in Versions /\ job[p].at \in Nat /\ Current(p) \in Seq(UnitKinds)
  BY <1>1, <1>2, InRunFacts
<1>4. AtEnd(p) /\ tx[p].entry = Keep /\ tx[p].row \in {KeepRow, NoRow} /\ (job[p].auto => tx[p] = Nothing)
  BY <1>1, <1>3 DEF Running
<1>5. EntryOf(p) \in {0} \cup Versions
  BY <1>3 DEF EntryOf
<1>6. PICK t : t = [tx[p] EXCEPT !.entry = EntryOf(p)]
  OBVIOUS
<1>7. t \in Writes /\ t.row = tx[p].row /\ t.entry = EntryOf(p) /\ t.work = tx[p].work
  BY <1>3, <1>4, <1>5, <1>6 DEF Writes
<1>8. /\ Write(p, t) /\ pc' = [pc EXCEPT ![p] = "commit"] /\ UNCHANGED <<transactional, disk, job, edits, failures>>
  BY <1>6 DEF WriteEntry, Goto, EntryOf
<1>9. SameRun(p) /\ pc'[p] = "commit" /\ job'[p] = job[p]
  BY <1>3, <1>8 DEF SameRun, Typed
<1>10. Current(p)' = Current(p) /\ Version(p)' = Version(p)
  BY <1>9, SameRunSameScript
<1>11. LastSegment(p)'
  BY <1>1, <1>9, <1>10 DEF LastSegment
<1>12. /\ All(p)' = Did(p) \cup t.work
       /\ RowNow(p)' = IF job[p].auto /\ t.row # KeepRow THEN t.row ELSE RowNow(p)
       /\ RowToBe(p)' = IF t.row = KeepRow THEN RowNow(p) ELSE t.row
       /\ transactional => Did(p)' = Did(p) /\ tx'[p].work = t.work
       /\ transactional' => repeats' = {}
  BY <1>1, <1>2, <1>7, <1>8, <1>9, WriteAdds
<1>13. Nothing.row = KeepRow /\ Nothing.row.cursor = 0 /\ KeepRow.cursor = 0 /\ NoRow.cursor = 0
  BY RowsDiffer
<1>14. /\ Holds(All(p), Behind(Current(p), Version(p), job[p].at + 1, 0)) /\ RowToBe(p) = NoRow
       /\ transactional => Did(p) \cap tx[p].work = {}
  BY <1>1, <1>2 DEF RunHolds
<1>15. RowNow(p)' \in {NoRow, RowNow(p)} /\ RowToBe(p)' = NoRow /\ All(p)' = All(p)
  BY <1>4, <1>7, <1>12, <1>14 DEF All, RowToBe
<1>16. RowFits(p, RowNow(p))'
  BY <1>2, <1>9, <1>10, <1>15 DEF RowFits
<1>17. tx'[p].row.cursor = 0
  <2>1. tx'[p] = (IF job[p].auto THEN Nothing ELSE t)
    BY <1>1, <1>2, <1>7, <1>8, WriteTakesEffect
  <2>2. QED
    BY <2>1, <1>4, <1>7, <1>13
<1>18. RunHolds(p)'
  BY <1>2, <1>7, <1>8, <1>9, <1>10, <1>11, <1>12, <1>14, <1>15, <1>16, <1>17 DEF RunHolds, Holds
<1>19. \A m \in Migrations : DoneFits(m)'
  <2>1. CASE ~job[p].auto
    <3>1. UNCHANGED db
      BY <2>1, <1>8 DEF Write
    <3>2. QED
      BY <3>1, <1>8, DoneStays
  <2>2. CASE job[p].auto
    <3>1. Effect(job[p].m, job[p].way, t)
      BY <2>2, <1>1, <1>2, <1>7, <1>8, WriteTakesEffect DEF Now
    <3>2. (IF t.row = KeepRow THEN RowNow(p) ELSE t.row) = NoRow /\ Did(p) \cup t.work = All(p)
      BY <1>7, <1>14 DEF All, RowToBe
    <3>3. Holds(Did(p) \cup t.work, WorkOf(Current(p), Version(p)))
      <4>1. Behind(Current(p), Version(p), job[p].at + 1, 0) = WorkOf(Current(p), Version(p))
        BY <1>1, <1>3, BehindTheEnd DEF LastSegment
      <4>2. QED
        BY <4>1, <3>2, <1>14
    <3>4. QED
      BY <3>1, <3>2, <3>3, <1>1, <1>7, <1>8, EntryCompletes
  <2>3. QED
    BY <2>1, <2>2
<1>20. QED
  BY <1>12, <1>18, <1>19, WorkStepKeeps

(* A transaction that commits leaves what it did with its row.             *)
LEMMA BatchRowStands ==
    ASSUME WorkInv, NEW p \in Procs, pc[p] = "commit", InBatch(p), ~Entered(p)
    PROVE  /\ Resumable(p, tx[p].row, All(p)) /\ RowFits(p, tx[p].row)
           /\ tx[p].row.segment = SegmentOf(Current(p), job[p].at) /\ tx[p].row.cursor = job[p].cursor
           /\ tx[p].row # KeepRow
<1>1. pc[p] \in InRun
  BY DEF InRun
<1>2. PlanInv /\ RunHolds(p)
  BY <1>1, RunFacts
<1>3. PICK c \in 1..Batches : c = job[p].cursor
  BY DEF InBatch
<1>4. /\ job[p].at \in DOMAIN Current(p) /\ Current(p)[job[p].at] = "chunk" /\ tx[p] = BatchWrites(p, c)
      /\ c \in 0..Batches
  BY <1>3 DEF InBatch
<1>5. tx[p].row = [hash |-> job[p].files[job[p].m].up, segment |-> SegmentOf(Current(p), job[p].at), cursor |-> c]
  BY <1>1, <1>2, <1>4, BatchWritesRow
<1>6. PICK u \in Seq(UnitKinds) : u = Current(p)
  BY <1>1, <1>2, InRunFacts
<1>7. PICK i \in 1..Len(u) : i = job[p].at
  BY <1>4, <1>6
<1>8. u[i] = "chunk" /\ Chunked(u)
  BY <1>4, <1>6, <1>7 DEF Chunked
<1>9. /\ NoRow.cursor = 0 /\ KeepRow.cursor = 0
  BY RowsDiffer
<1>10. tx[p].row.cursor = c /\ tx[p].row.segment = SegmentOf(u, i) /\ tx[p].row.hash = job[p].files[job[p].m].up
  BY <1>5, <1>6, <1>7
<1>11. tx[p].row # NoRow /\ tx[p].row # KeepRow /\ tx[p].row.cursor > 0
  BY <1>9, <1>10
<1>12. Holds(All(p), Behind(u, Version(p), i, c))
  BY <1>2, <1>3, <1>6, <1>7, <1>11 DEF RunHolds
<1>13. WorkBefore(u, Version(p), SegmentOf(u, i), c) = Behind(u, Version(p), i, c)
  <2>1. \A cc \in 0..Batches : WorkBefore(u, Version(p), SegmentOf(u, i), cc) = Behind(u, Version(p), i, cc)
    BY <1>8, BehindSegment
  <2>2. QED
    BY <1>4, <2>1
<1>14. Holds(All(p), WorkBefore(u, Version(p), tx[p].row.segment, tx[p].row.cursor))
  BY <1>10, <1>12, <1>13
<1>15. job[p].way = "up" => tx[p].row.hash = Version(p)
  BY <1>1, <1>2, <1>10, RunsScript
<1>16. job[p].way \in {"up", "down"}
  BY <1>1, <1>2, InRunFacts DEF Ways
<1>17. QED
  BY <1>3, <1>6, <1>7, <1>8, <1>10, <1>11, <1>14, <1>15, <1>16 DEF Resumable, RowHolds, RowFits

LEMMA CommitFits ==
    ASSUME WorkInv, NEW p \in Procs, pc[p] = "commit", Publish(p, tx[p]), transactional' = transactional
    PROVE  /\ transactional' => repeats' = {}
           /\ \A m \in Migrations : DoneFits(m)'
<1>1. pc[p] \in InRun
  BY DEF InRun
<1>2. /\ PlanInv /\ RunHolds(p) /\ (job[p].auto => ~transactional) /\ (transactional => repeats = {})
      /\ \A m \in Migrations : DoneFits(m)
  BY <1>1, RunFacts
<1>3. /\ Typed /\ Running(p) /\ job[p].m \in Migrations /\ tx[p] \in Writes
      /\ job[p].at \in Nat /\ Current(p) \in Seq(UnitKinds)
  BY <1>1, <1>2, InRunFacts
<1>4. Effect(job[p].m, job[p].way, tx[p])
  BY <1>3, PublishTakesEffect
<1>5. transactional' => repeats' = {}
  <2> SUFFICES ASSUME transactional PROVE repeats' = {}
    BY DEF WorkInv
  <2>1. ~Entered(p)
    BY <1>2 DEF Entered
  <2>2. Did(p) \cap tx[p].work = {}
    BY <1>2, <2>1 DEF RunHolds
  <2>3. {<<job[p].m, job[p].way, x>> : x \in tx[p].work \cap done[job[p].m][job[p].way]} = {}
    BY <2>2 DEF Did
  <2>4. QED
    BY <1>2, <1>4, <2>3 DEF Effect
<1>6. CASE /\ InBatch(p) /\ tx[p].entry = Keep /\ ~Entered(p)
  <2>1. Resumable(p, tx[p].row, All(p)) /\ tx[p].row # KeepRow
    BY <1>6, BatchRowStands
  <2>2. Resumable(p, IF tx[p].row = KeepRow THEN RowNow(p) ELSE tx[p].row, Did(p) \cup tx[p].work)
    BY <2>1 DEF All
  <2>3. QED
    BY <1>1, <1>3, <1>4, <1>5, <1>6, <2>2, ResumableFits
<1>7. CASE /\ InMove(p) /\ tx[p].entry = Keep /\ tx[p].row.cursor = 0 /\ ~LastSegment(p) /\ ~Entered(p)
  <2>1. AtEnd(p) /\ ~(tx[p].row.cursor > 0)
    BY <1>7 DEF InMove
  <2>2. RowToBe(p) = NextSegment(p) /\ Holds(All(p), Behind(Current(p), Version(p), job[p].at + 1, 0))
    BY <1>2, <1>7, <2>1 DEF RunHolds
  <2>3. Resumable(p, NextSegment(p), All(p))
    BY <1>1, <1>2, <1>7, <2>1, <2>2, NextSegmentStands
  <2>4. Resumable(p, IF tx[p].row = KeepRow THEN RowNow(p) ELSE tx[p].row, Did(p) \cup tx[p].work)
    BY <2>2, <2>3 DEF All, RowToBe
  <2>5. QED
    BY <1>1, <1>3, <1>4, <1>5, <1>7, <2>4, ResumableFits
<1>8. CASE /\ InEntry(p) /\ tx[p].row.cursor = 0 /\ LastSegment(p) /\ ~Entered(p) /\ tx[p].entry = EntryOf(p)
  <2>1. ~(tx[p].row.cursor > 0)
    BY <1>8
  <2>2. RowToBe(p) = NoRow /\ Holds(All(p), Behind(Current(p), Version(p), job[p].at + 1, 0))
    BY <1>2, <1>8, <2>1 DEF RunHolds
  <2>3. Behind(Current(p), Version(p), job[p].at + 1, 0) = WorkOf(Current(p), Version(p))
    BY <1>3, <1>8, BehindTheEnd DEF LastSegment
  <2>4. Holds(Did(p) \cup tx[p].work, WorkOf(Current(p), Version(p)))
    BY <2>2, <2>3 DEF All
  <2>5. (IF tx[p].row = KeepRow THEN RowNow(p) ELSE tx[p].row) = NoRow
    BY <2>2 DEF RowToBe
  <2>6. QED
    BY <1>1, <1>3, <1>4, <1>5, <1>8, <2>4, <2>5, EntryCompletes
<1>9. CASE tx[p] = Nothing
  <2>1. Nothing.work = {} /\ Nothing.row = KeepRow /\ Nothing.entry = Keep
    BY RowsDiffer
  <2>2. ASSUME NEW m \in Migrations PROVE DoneFits(m)'
    <3>1. /\ ledger'[m] = ledger[m] /\ \A w \in Ways : progress'[m][w] = progress[m][w] /\ done'[m][w] = done[m][w]
      BY <1>4, <1>9, <2>1 DEF Effect
    <3>2. m \in Applied' <=> m \in Applied
      BY <3>1 DEF Applied
    <3>3. /\ progress'[m]["up"] = progress[m]["up"] /\ done'[m]["up"] = done[m]["up"]
          /\ progress'[m]["down"] = progress[m]["down"] /\ done'[m]["down"] = done[m]["down"]
      BY <3>1 DEF Ways
    <3>4. DoneFits(m)
      BY <1>2
    <3>5. QED
      BY <3>1, <3>2, <3>3, <3>4 DEF DoneFits, RowHolds, Holds
  <2>3. QED
    BY <1>5, <2>2
<1>10. QED
  <2>1. job[p].auto \/ ~job[p].auto
    OBVIOUS
  <2>2. QED
    BY <1>2, <1>6, <1>7, <1>8, <1>9, <2>1, CommitFacts

LEMMA CommitFailsWorks ==
    ASSUME OneApplies, WorkInv, NEW p \in Procs, CommitFails(p), PlanInv'
    PROVE  WorkInv'
<1>1. pc[p] = "commit" /\ (Publish(p, tx[p]) \/ UNCHANGED db) /\ transactional' = transactional /\ Leave(p)
  BY DEF CommitFails
<1>2. (transactional' => repeats' = {}) /\ \A m \in Migrations : DoneFits(m)'
  BY <1>1, CommitFits, DoneStays
<1>3. pc'[p] \notin InRun
  BY <1>1 DEF Leave, Goto, InRun, WorkInv, PlanInv, Typed
<1>4. QED
  BY <1>2, <1>3, WorkStepKeeps

LEMMA CommitWorks ==
    ASSUME OneApplies, WorkInv, NEW p \in Procs, Commit(p), PlanInv'
    PROVE  WorkInv'
<1>1. pc[p] = "commit" /\ pc[p] \in InRun /\ Publish(p, tx[p]) /\ Committed(p)
      /\ tx' = [tx EXCEPT ![p] = Nothing] /\ UNCHANGED <<transactional, disk, edits, failures>>
  BY DEF Commit, InRun
<1>2. /\ PlanInv /\ RunHolds(p) /\ (job[p].auto => ~transactional) /\ RowFits(p, RowNow(p))
  BY <1>1, RunFacts
<1>3. /\ Typed /\ Running(p) /\ job[p].m \in Migrations /\ tx[p] \in Writes /\ job[p] \in Jobs
      /\ job[p].at \in Nat /\ Current(p) \in Seq(UnitKinds)
  BY <1>1, <1>2, InRunFacts
<1>4. Effect(job[p].m, job[p].way, tx[p])
  BY <1>1, <1>3, PublishTakesEffect
<1>5. (transactional' => repeats' = {}) /\ \A m \in Migrations : DoneFits(m)'
  BY <1>1, CommitFits
<1>6. tx'[p] = Nothing /\ Nothing.work = {}
  BY <1>1, <1>3, RowsDiffer DEF Typed
<1>7. /\ done'[job[p].m][job[p].way] = All(p)
      /\ progress'[job[p].m][job[p].way] = RowToBe(p)
  BY <1>4 DEF Effect, All, Did, RowNow, RowToBe
<1>8. CASE /\ InBatch(p) /\ ~job[p].auto /\ tx[p].row.cursor > 0
           /\ Current(p) # << >> /\ Current(p)[job[p].at] = "chunk" /\ ~Entered(p)
  <2>1. pc' = [pc EXCEPT ![p] = "run"] /\ UNCHANGED job
    BY <1>1, <1>8 DEF Committed, Goto
  <2>2. SameRun(p) /\ pc'[p] = "run" /\ ~Entered(p)' /\ job'[p] = job[p]
    BY <1>3, <2>1 DEF SameRun, Typed, Entered
  <2>3. Current(p)' = Current(p) /\ Version(p)' = Version(p)
    BY <2>2, SameRunSameScript
  <2>4. /\ RowFits(p, tx[p].row) /\ tx[p].row # KeepRow
        /\ tx[p].row.segment = SegmentOf(Current(p), job[p].at) /\ tx[p].row.cursor = job[p].cursor
    BY <1>1, <1>8, BatchRowStands
  <2>5. RowNow(p)' = tx[p].row /\ Did(p)' = All(p) /\ All(p)' = All(p)
    BY <1>6, <1>7, <2>2, <2>4 DEF RowNow, Did, All, RowToBe
  <2>6. Holds(All(p), Behind(Current(p), Version(p), job[p].at, job[p].cursor))
    BY <1>1, <1>2, <1>8 DEF RunHolds
  <2>7. RowFits(p, RowNow(p))'
    BY <2>2, <2>3, <2>4, <2>5 DEF RowFits
  <2>8. RunHolds(p)'
    BY <1>1, <1>6, <1>8, <2>2, <2>3, <2>4, <2>5, <2>6, <2>7 DEF RunHolds, Holds
  <2>9. QED
    BY <1>5, <2>8, WorkStepKeeps
<1>9. CASE /\ InMove(p) /\ tx[p].row.cursor = 0 /\ ~LastSegment(p) /\ ~Entered(p)
  <2>1. PICK i \in Nat : i = job[p].at
    BY <1>3
  <2>2. /\ pc' = [pc EXCEPT ![p] = "run"]
        /\ job' = [job EXCEPT ![p] = [job[p] EXCEPT !.at = i + 1, !.cursor = 0, !.auto = FALSE]]
    BY <1>1, <1>9, <2>1 DEF Committed, Goto
  <2>3. job'[p] = [job[p] EXCEPT !.at = i + 1, !.cursor = 0, !.auto = FALSE] /\ pc'[p] = "run"
    BY <1>3, <2>2 DEF Typed
  <2>4. /\ job'[p].at = i + 1 /\ job'[p].cursor = 0 /\ job'[p].auto = FALSE /\ SameRun(p) /\ ~Entered(p)'
    BY <1>3, <2>3 DEF Jobs, SameRun, Entered
  <2>5. Current(p)' = Current(p) /\ Version(p)' = Version(p) /\ job'[p].m = job[p].m /\ job'[p].way = job[p].way
    BY <2>4, SameRunSameScript DEF SameRun
  <2>6. AtEnd(p) /\ ~(tx[p].row.cursor > 0)
    BY <1>9 DEF InMove
  <2>7. RowToBe(p) = NextSegment(p) /\ Holds(All(p), Behind(Current(p), Version(p), i + 1, 0))
    BY <1>1, <1>2, <1>9, <2>1, <2>6 DEF RunHolds
  <2>8. RowFits(p, NextSegment(p))
    BY <1>1, <1>2, <1>9, <2>1, <2>6, <2>7, NextSegmentStands
  <2>9. /\ NextSegment(p).cursor = 0 /\ NextSegment(p).segment = SegmentOf(Current(p), i + 1)
    BY <1>1, <1>2, <1>9, <2>1, <2>6, NextSegmentIsThere
  <2>10. RowNow(p)' = NextSegment(p) /\ Did(p)' = All(p) /\ All(p)' = All(p)
    BY <1>6, <1>7, <2>5, <2>7 DEF RowNow, Did, All
  <2>11. RowFits(p, RowNow(p))'
    BY <2>5, <2>8, <2>10 DEF RowFits
  <2>12. RunHolds(p)'
    BY <1>1, <1>6, <2>3, <2>4, <2>5, <2>7, <2>9, <2>10, <2>11 DEF RunHolds, Holds
  <2>13. QED
    BY <1>5, <2>12, WorkStepKeeps
<1>10. CASE InEntry(p) /\ tx[p].row.cursor = 0 /\ LastSegment(p)
  <2>1. pc' = [pc EXCEPT ![p] = "next"]
    BY <1>1, <1>10 DEF Committed, Goto
  <2>2. pc'[p] \notin InRun
    BY <1>3, <2>1 DEF Typed, InRun
  <2>3. QED
    BY <1>5, <2>2, WorkStepKeeps
<1>11. QED
  BY <1>1, <1>2, <1>8, <1>9, <1>10, CommitFacts

LEMMA BeginWorks ==
    ASSUME OneApplies, KindsStand, WorkInv, NEW p \in Procs, Begin(p), PlanInv'
    PROVE  WorkInv'
<1>1. PlanInv /\ \A n \in Migrations : DoneFits(n)
  BY DEF WorkInv
<1>2. PICK u, row : \E m \in Migrations, way \in Ways : BeginsAt(p, m, way, u, row)
  BY <1>1, BeginBegins
<1>3. PICK m \in Migrations, way \in {"up", "down"} : BeginsAt(p, m, way, u, row)
  BY <1>2 DEF Ways
<1>4. StepOf(p) /\ UNCHANGED db /\ transactional' = transactional
  BY <1>1, BeginBegins DEF StepOf
<1>5. UNCHANGED <<ledger, progress, done, repeats>>
  BY <1>4 DEF db
<1>6. (transactional' => repeats' = {}) /\ \A n \in Migrations : DoneFits(n)'
  BY <1>4, DoneStays
<1>7. /\ u = Script(p, m, way) /\ u \in Seq(UnitKinds) /\ u = Current(p)'
      /\ row = (IF Chunked(u) THEN progress[m][way] ELSE NoRow) /\ row \in Row
      /\ row # NoRow => row.hash = job[p].files[m].up
      /\ job'[p].m = m /\ job'[p].way = way /\ job'[p].files = job[p].files
      /\ ~job'[p].auto /\ tx'[p] = Nothing /\ job'[p].cursor = row.cursor
      /\ \/ /\ pc'[p] = "run" /\ job'[p].at \in DOMAIN u /\ SegmentOf(u, job'[p].at) = row.segment
            /\ row.cursor # 0 => u[job'[p].at] = "chunk"
            /\ \A j \in DOMAIN u : SegmentOf(u, j) = row.segment => job'[p].at <= j
         \/ pc'[p] = "entry" /\ u = << >> /\ job'[p].at = 1
      /\ way = "up" <=> m \notin Applied
  BY <1>3 DEF BeginsAt
<1>8. PICK v : v = Version(p)'
  OBVIOUS
<1>9. /\ pc[p] # "idle" /\ \A n \in Migrations : job[p].files[n].down = 1
  BY <1>1 DEF PlanInv, RunFits, Begin
<1>10. /\ way = "up" => u = UpScript[m][v] /\ v = job[p].files[m].up /\ v \in Versions
       /\ way = "down" => u = DownScript[m][1] /\ v = 1
  <2>1. job[p].files[m].up \in Versions
    BY <1>1 DEF PlanInv, Typed, Jobs, Files
  <2>2. v = (IF way = "up" THEN job[p].files[m].up ELSE job[p].files[m].down)
    BY <1>7, <1>8 DEF Version
  <2>3. u = (IF way = "up" THEN UpScript[m][job[p].files[m].up] ELSE DownScript[m][job[p].files[m].down])
    BY <1>7 DEF Script
  <2>4. QED
    BY <1>9, <2>1, <2>2, <2>3
<1>11. DoneFits(m) /\ RowsPoint
  BY <1>1 DEF PlanInv
<1>12. (progress[m][way] = row /\ Chunked(u)) \/ (row = NoRow /\ progress[m][way] = NoRow)
  <2>1. CASE Chunked(u)
    BY <1>7, <2>1
  <2>2. CASE ~Chunked(u) /\ way = "up"
    <3>1. progress[m]["up"] # NoRow => Chunked(UpScript[m][progress[m]["up"].hash]) /\ progress[m]["up"].hash \in Versions
      BY <1>7, <1>11, <2>2 DEF DoneFits, RowHolds, RowsPoint
    <3>2. progress[m]["up"] # NoRow => Chunked(UpScript[m][v])
      BY <1>10, <2>2, <3>1 DEF KindsStand
    <3>3. QED
      BY <1>7, <1>10, <2>2, <3>2
  <2>3. CASE ~Chunked(u) /\ way = "down"
    <3>1. progress[m]["down"] # NoRow => Chunked(DownScript[m][1])
      BY <1>7, <1>11, <2>3 DEF DoneFits, RowHolds
    <3>2. QED
      BY <1>7, <1>10, <2>3, <3>1
  <2>4. QED
    BY <1>3, <2>1, <2>2, <2>3
<1>13. row = progress[m][way]
  BY <1>12
<1>14. /\ Did(p)' = done[m][way] /\ RowNow(p)' = row
  BY <1>5, <1>7, <1>13 DEF Did, RowNow
<1>15. All(p)' = done[m][way] /\ Did(p)' \cap tx'[p].work = {} /\ RowToBe(p)' = row
  BY <1>7, <1>14, RowsDiffer DEF All, RowToBe
<1>16. /\ row = NoRow => (transactional => done[m][way] = {})
       /\ row # NoRow => Holds(done[m][way], WorkBefore(u, v, row.segment, row.cursor))
       /\ row # NoRow => way = "down" \/ row.hash = v
  <2>1. CASE way = "up"
    <3>1. m \notin Applied /\ u = UpScript[m][v] /\ row = progress[m]["up"] /\ (row # NoRow => row.hash = v)
      BY <1>7, <1>10, <1>13, <2>1
    <3>2. IF row = NoRow THEN transactional => done[m]["up"] = {}
          ELSE RowHolds(UpScript[m][row.hash], row.hash, row, done[m]["up"])
      BY <1>11, <3>1 DEF DoneFits
    <3>3. QED
      BY <2>1, <3>1, <3>2 DEF RowHolds
  <2>2. CASE way = "down"
    <3>1. m \in Applied /\ u = DownScript[m][1] /\ v = 1 /\ row = progress[m]["down"]
      BY <1>7, <1>10, <1>13, <2>2
    <3>2. IF row = NoRow THEN transactional => done[m]["down"] = {}
          ELSE RowHolds(DownScript[m][1], 1, row, done[m]["down"])
      BY <1>11, <3>1 DEF DoneFits
    <3>3. QED
      BY <2>2, <3>1, <3>2 DEF RowHolds
  <2>3. QED
    BY <1>3, <2>1, <2>2
<1>17. Holds(done[m][way], WorkBefore(u, v, row.segment, row.cursor))
  <2>1. CASE row = NoRow
    <3>1. WorkBefore(u, v, row.segment, row.cursor) = {}
      BY <1>7, <2>1, NothingBehind, RowsDiffer
    <3>2. QED
      BY <1>16, <2>1, <3>1 DEF Holds
  <2>2. CASE row # NoRow
    BY <1>16, <2>2
  <2>3. QED
    BY <2>1, <2>2
<1>18. RowFits(p, RowNow(p))'
  <2>1. ~Chunked(u) => row = NoRow
    BY <1>7
  <2>2. QED
    BY <1>7, <1>8, <1>14, <1>16, <2>1 DEF RowFits
<1>19. CASE /\ pc'[p] = "run" /\ job'[p].at \in DOMAIN u /\ SegmentOf(u, job'[p].at) = row.segment
            /\ row.cursor # 0 => u[job'[p].at] = "chunk"
            /\ \A j \in DOMAIN u : SegmentOf(u, j) = row.segment => job'[p].at <= j
  <2>1. PICK i \in 1..Len(u) : i = job'[p].at
    BY <1>7, <1>19
  <2>2. row.cursor \in 0..Batches
    BY <1>7 DEF Row
  <2>3. WorkBefore(u, v, row.segment, row.cursor) = Behind(u, v, i, row.cursor)
    <3>1. SegmentOf(u, i) = row.segment /\ (row.cursor = 0 \/ u[i] = "chunk")
          /\ \A j \in DOMAIN u : SegmentOf(u, j) = row.segment => i <= j
      BY <1>19, <2>1
    <3>2. QED
      BY <1>7, <2>2, <3>1, BehindFirst
  <2>4. Holds(done[m][way], Behind(u, v, i, row.cursor))
    BY <1>17, <2>3
  <2>5. row.cursor = (IF u[i] = "chunk" THEN row.cursor ELSE 0)
    BY <1>19, <2>1
  <2>6. RunHolds(p)'
    BY <1>4, <1>7, <1>8, <1>14, <1>15, <1>18, <1>19, <2>1, <2>4, <2>5 DEF RunHolds, Holds
  <2>7. QED
    BY <1>6, <2>6, WorkStepKeeps
<1>20. CASE pc'[p] = "entry" /\ u = << >> /\ job'[p].at = 1
  <2>1. ~Chunked(u)
    BY <1>20 DEF Chunked
  <2>2. row = NoRow
    BY <1>12, <2>1
  <2>3. Behind(u, v, 1 + 1, 0) = {}
    <3>1. WorkOf(u, v) = {}
      BY <1>20 DEF WorkOf
    <3>2. QED
      BY <3>1 DEF Behind
  <2>4. Holds(done[m][way], Behind(u, v, 1 + 1, 0))
    BY <1>16, <2>2, <2>3 DEF Holds
  <2>5. RunHolds(p)'
    BY <1>4, <1>7, <1>8, <1>14, <1>15, <1>18, <1>20, <2>2, <2>4 DEF RunHolds, Holds
  <2>6. QED
    BY <1>6, <2>5, WorkStepKeeps
<1>21. QED
  BY <1>7, <1>19, <1>20

LEMMA OtherStepsWork ==
    ASSUME OneApplies, WorkInv, NEW p \in Procs, PlanInv',
           StartAny(p) \/ ReturnReport(p) \/ Refuse(p) \/ Interrupt(p) \/ EntryRefused(p)
                          \/ StatementRefused(p)
    PROVE  WorkInv'
<1>1. UNCHANGED db /\ transactional' = transactional /\ (Leave(p) \/ pc' = [pc EXCEPT ![p] = "next"])
  BY DEF StartAny, Start, Goto, ReturnReport, Refuse, Interrupt, EntryRefused, StatementRefused
<1>2. (transactional' => repeats' = {}) /\ \A m \in Migrations : DoneFits(m)'
  BY <1>1, DoneStays
<1>3. pc'[p] \notin InRun
  BY <1>1 DEF Leave, Goto, InRun, WorkInv, PlanInv, Typed
<1>4. QED
  BY <1>2, <1>3, WorkStepKeeps

(* Where nothing of the runs and the database changes.                     *)
LEMMA NothingWorks ==
    ASSUME WorkInv, UNCHANGED <<transactional, pc, job, tx>>, UNCHANGED db, PlanInv'
    PROVE  WorkInv'
<1>1. UNCHANGED <<ledger, progress, done, repeats>>
  BY DEF db
<1>2. (transactional' => repeats' = {}) /\ \A m \in Migrations : DoneFits(m)'
  BY DoneStays
<1>3. ASSUME NEW p \in Procs, pc'[p] \in {"run", "close", "entry", "commit"} PROVE RunHolds(p)'
  <2>1. Current(p)' = Current(p) /\ Version(p)' = Version(p)
    BY DEF Current, Version, Script
  <2>2. /\ (LastSegment(p)' <=> LastSegment(p)) /\ NextSegment(p)' = NextSegment(p)
        /\ Did(p)' = Did(p) /\ RowNow(p)' = RowNow(p)
    BY <1>1, <2>1 DEF LastSegment, NextSegment, Did, RowNow
  <2>3. All(p)' = All(p) /\ RowToBe(p)' = RowToBe(p) /\ (Entered(p)' <=> Entered(p))
        /\ (RowFits(p, RowNow(p))' <=> RowFits(p, RowNow(p)))
    BY <2>1, <2>2 DEF All, RowToBe, Entered, RowFits
  <2>4. RunHolds(p)
    BY <1>3 DEF WorkInv
  <2>5. QED
    BY <2>1, <2>2, <2>3, <2>4 DEF RunHolds, Holds
<1>4. QED
  BY <1>2, <1>3 DEF WorkInv

LEMMA NextWorks ==
    ASSUME OneApplies, DownsStand, KindsStand, WorkInv, [Next]_vars
    PROVE  WorkInv'
<1>1. PlanInv'
  BY NextKeeps DEF WorkInv
<1>2. CASE UNCHANGED vars
  <2>1. UNCHANGED <<transactional, pc, job, tx>> /\ UNCHANGED db
    BY <1>2 DEF vars, db
  <2>2. QED
    BY <1>1, <2>1, NothingWorks
<1>3. ASSUME NEW p \in Procs, StartAny(p) \/ Advance(p) \/ CommitFails(p) \/ Interrupt(p)
      PROVE  WorkInv'
  <2>1. CASE StartAny(p) \/ ReturnReport(p) \/ Refuse(p) \/ Interrupt(p) \/ EntryRefused(p)
                            \/ StatementRefused(p)
    BY <1>1, <2>1, OtherStepsWork
  <2>2. CASE Begin(p)
    BY <1>1, <2>2, BeginWorks
  <2>3. CASE ImplicitCommit(p)
    BY <1>1, <2>3, ImplicitCommitWorks
  <2>4. CASE Statement(p)
    BY <1>1, <2>4, StatementWorks
  <2>5. CASE Batch(p)
    BY <1>1, <2>5, BatchWorks
  <2>6. CASE ClearProgress(p)
    BY <1>1, <2>6, ClearProgressWorks
  <2>7. CASE MoveProgress(p)
    BY <1>1, <2>7, MoveProgressWorks
  <2>8. CASE WriteEntry(p)
    BY <1>1, <2>8, WriteEntryWorks
  <2>9. CASE Commit(p)
    BY <1>1, <2>9, CommitWorks
  <2>10. CASE CommitFails(p)
    BY <1>1, <2>10, CommitFailsWorks
  <2>11. QED
    BY <1>3, <2>1, <2>2, <2>3, <2>4, <2>5, <2>6, <2>7, <2>8, <2>9, <2>10 DEF Advance
<1>4. ASSUME NEW m \in Migrations, NEW way \in EditWays, Edit(m, way)
      PROVE  WorkInv'
  <2>1. UNCHANGED <<transactional, pc, job, tx>> /\ UNCHANGED db
    BY <1>4 DEF Edit
  <2>2. QED
    BY <1>1, <2>1, NothingWorks
<1>5. QED
  BY <1>2, <1>3, <1>4 DEF Next

LEMMA WorkBegins == Init => WorkInv
<1> SUFFICES ASSUME Init PROVE WorkInv
  OBVIOUS
<1>1. PlanInv
  BY InitHolds
<1>2. ASSUME NEW m \in Migrations PROVE DoneFits(m)
  <2>1. /\ m \notin Applied /\ progress[m]["up"] = NoRow /\ progress[m]["down"] = NoRow
        /\ done[m]["up"] = {} /\ done[m]["down"] = {}
    BY DEF Init, Applied, Ways
  <2>2. QED
    BY <2>1 DEF DoneFits
<1>3. QED
  BY <1>1, <1>2 DEF WorkInv, Init

LEMMA WorkAlways ==
    ASSUME OneApplies, DownsStand, KindsStand
    PROVE  Spec => []WorkInv
<1>1. WorkInv /\ [Next]_vars => WorkInv'
  BY NextWorks
<1>2. QED
  BY <1>1, WorkBegins, PTL DEF Spec

(* A migration with a ledger row has had all of the version recorded run,  *)
(* and one without it has been rolled back in full or not at all; where    *)
(* DDL is transactional nothing else has run (run_in_tx, run_resumable,    *)
(* insert_ledger_sql).                                                     *)
THEOREM LedgerTellsTheWork ==
    ASSUME OneApplies, DownsStand, KindsStand
    PROVE  Spec => []LedgerMatchesWork
<1>1. WorkInv => LedgerMatchesWork
  <2> SUFFICES ASSUME WorkInv, NEW m \in Migrations
               PROVE  LET wanted == IF m \in Applied THEN WorkOf(UpScript[m][ledger[m]], ledger[m])
                                    ELSE WorkOf(DownScript[m][disk[m].down], disk[m].down)
                          did == done[m][IF m \in Applied THEN "up" ELSE "down"]
                      IN /\ wanted \subseteq did \/ (m \notin Applied /\ did = {})
                         /\ transactional => did \subseteq wanted
    BY DEF LedgerMatchesWork
  <2>1. DoneFits(m) /\ disk[m].down = 1
    BY DEF WorkInv, PlanInv
  <2>2. QED
    BY <2>1 DEF DoneFits, Holds
<1>2. QED
  BY WorkAlways, <1>1, PTL

(* A progress row stands exactly at the work its run has committed, and    *)
(* nothing is committed twice, where DDL is transactional: a resumed run   *)
(* neither skips nor repeats a batch (run_resumable, Resume::chunks).      *)
THEOREM ResumedRunsAreExact ==
    ASSUME OneApplies, DownsStand, KindsStand
    PROVE  Spec => []ProgressIsExact
<1>1. WorkInv => ProgressIsExact
  <2> SUFFICES ASSUME WorkInv PROVE ProgressIsExact
    OBVIOUS
  <2>1. NothingRepeated
    BY DEF NothingRepeated, WorkInv
  <2>2. ASSUME transactional, NEW m \in Migrations, NEW w \in Ways
        PROVE  LET row == progress[m][w]
                   v == IF w = "up" THEN row.hash ELSE disk[m].down
                   u == IF w = "up" THEN UpScript[m][v] ELSE DownScript[m][v]
               IN IF row # NoRow
                  THEN done[m][w] = WorkBefore(u, v, row.segment, row.cursor)
                  ELSE (w = "up" <=> m \notin Applied) => done[m][w] = {}
    <3>1. DoneFits(m) /\ disk[m].down = 1
      BY DEF WorkInv, PlanInv
    <3>2. CASE w = "up"
      <4>1. progress[m]["up"] # NoRow =>
               LET v == progress[m]["up"].hash
               IN Holds(done[m]["up"], WorkBefore(UpScript[m][v], v, progress[m]["up"].segment, progress[m]["up"].cursor))
        BY <3>1 DEF DoneFits, RowHolds
      <4>2. progress[m]["up"] = NoRow /\ m \notin Applied => done[m]["up"] = {}
        BY <2>2, <3>1 DEF DoneFits
      <4>3. progress[m]["up"] # NoRow =>
               LET v == progress[m]["up"].hash
               IN done[m]["up"] = WorkBefore(UpScript[m][v], v, progress[m]["up"].segment, progress[m]["up"].cursor)
        BY <2>2, <4>1 DEF Holds
      <4>4. QED
        BY <3>2, <4>2, <4>3
    <3>3. CASE w = "down"
      <4>1. progress[m]["down"] # NoRow =>
               Holds(done[m]["down"], WorkBefore(DownScript[m][1], 1, progress[m]["down"].segment, progress[m]["down"].cursor))
        BY <3>1 DEF DoneFits, RowHolds
      <4>2. progress[m]["down"] = NoRow /\ m \in Applied => done[m]["down"] = {}
        BY <2>2, <3>1 DEF DoneFits
      <4>3. progress[m]["down"] # NoRow =>
               done[m]["down"] = WorkBefore(DownScript[m][1], 1, progress[m]["down"].segment, progress[m]["down"].cursor)
        BY <2>2, <4>1 DEF Holds
      <4>4. QED
        BY <3>1, <3>3, <4>2, <4>3
    <3>4. QED
      BY <3>2, <3>3 DEF Ways
  <2>3. QED
    BY <2>1, <2>2 DEF ProgressIsExact
<1>2. QED
  BY WorkAlways, <1>1, PTL

-----------------------------------------------------------------------------
(* Many processes that apply the same plain migrations.                    *)

(* No up.mig has a chunked unit.                                           *)
PlainUps == \A m \in Migrations, v \in Versions : ~Chunked(UpScript[m][v])

(* Nobody rolls back.                                                      *)
NobodyRollsBack == Directions \subseteq {"up"}

(* A run of plain migrations is one transaction, with its ledger row last. *)
Applies(p) ==
    /\ pc[p] # "close" /\ job[p].down = {} /\ ~job[p].auto
    /\ pc[p] \in {"idle", "next"} => tx[p] = Nothing
    /\ pc[p] \in {"run", "entry", "commit"} =>
          job[p].m \in Migrations /\ job[p].way = "up" /\ tx[p].row = KeepRow
    /\ pc[p] = "run" => job[p].at \in DOMAIN Current(p)
    /\ pc[p] \in {"entry", "commit"} => LastSegment(p)
    /\ tx[p].entry = (IF pc[p] = "commit" THEN EntryOf(p) ELSE Keep)
    /\ pc[p] = "commit" => ledger[job[p].m] = 0

(* Nothing is done without its ledger row, and no two processes hold the   *)
(* row of one migration.                                                   *)
ApplyInv ==
    /\ Typed /\ repeats = {}
    /\ \A m \in Migrations : done[m]["up"] # {} => ledger[m] # 0
    /\ \A p \in Procs : Applies(p)
    /\ \A p \in Procs, q \in Procs : p # q /\ pc[p] = "commit" /\ pc[q] = "commit" => job[p].m # job[q].m

OthersStay(p) ==
    \A q \in Procs \ {p} : pc'[q] = pc[q] /\ job'[q] = job[q] /\ tx'[q] = tx[q]

LEMMA OthersApply ==
    ASSUME ApplyInv, NEW p \in Procs, OthersStay(p), NEW q \in Procs \ {p},
           pc[q] = "commit" => ledger'[job[q].m] = ledger[job[q].m]
    PROVE  Applies(q)'
<1>1. Applies(q) /\ pc'[q] = pc[q] /\ job'[q] = job[q] /\ tx'[q] = tx[q]
  BY DEF ApplyInv, OthersStay
<1>2. Current(q)' = Current(q) /\ EntryOf(q)' = EntryOf(q)
  BY <1>1 DEF Current, Script, EntryOf
<1>3. LastSegment(q)' <=> LastSegment(q)
  BY <1>1, <1>2 DEF LastSegment
<1>4. QED
  BY <1>1, <1>2, <1>3 DEF Applies

(* A step that leaves the database alone.                                  *)
LEMMA LocalStepApplies ==
    ASSUME ApplyInv, NEW p \in Procs, StepOf(p), OthersStay(p), UNCHANGED db, Applies(p)',
           \A q \in Procs \ {p} : pc'[p] = "commit" /\ pc[q] = "commit" => job'[p].m # job[q].m
    PROVE  ApplyInv'
<1>1. UNCHANGED <<ledger, progress, done, repeats>>
  BY DEF db
<1>2. Typed'
  BY <1>1 DEF ApplyInv, Typed, StepOf
<1>3. \A q \in Procs : Applies(q)'
  BY <1>1, OthersApply
<1>4. \A r \in Procs, q \in Procs : r # q /\ pc'[r] = "commit" /\ pc'[q] = "commit" => job'[r].m # job'[q].m
  BY DEF OthersStay, ApplyInv
<1>5. QED
  BY <1>1, <1>2, <1>3, <1>4 DEF ApplyInv

LEMMA LeavingApplies ==
    ASSUME ApplyInv, NEW p \in Procs, Leave(p)
    PROVE  /\ pc'[p] = "idle" /\ OthersStay(p) /\ Applies(p)'
           /\ pc' \in [Procs -> {"idle", "next", "run", "close", "entry", "commit"}]
           /\ job' \in [Procs -> Jobs] /\ tx' \in [Procs -> Writes]
<1>1. Typed /\ Nothing \in Writes /\ NoJob \in Jobs /\ Nothing.entry = Keep
  BY NoJobIsTyped, RowsDiffer DEF ApplyInv
<1>2. /\ pc' = [pc EXCEPT ![p] = "idle"] /\ job' = [job EXCEPT ![p] = NoJob]
      /\ tx' = [tx EXCEPT ![p] = Nothing]
  BY DEF Leave, Goto
<1>3. pc'[p] = "idle" /\ job'[p] = NoJob /\ tx'[p] = Nothing
  BY <1>1, <1>2 DEF Typed
<1>4. NoJob.down = {} /\ ~NoJob.auto
  BY DEF NoJob
<1>5. Applies(p)'
  BY <1>1, <1>3, <1>4 DEF Applies
<1>6. QED
  BY <1>1, <1>2, <1>3, <1>5 DEF Typed, OthersStay

LEMMA EndingApplies ==
    ASSUME ApplyInv, NEW p \in Procs, ReturnReport(p) \/ Refuse(p) \/ Interrupt(p) \/ EntryRefused(p)
                                      \/ StatementRefused(p)
    PROVE  ApplyInv'
<1>1. Leave(p) /\ UNCHANGED <<transactional, disk, edits>> /\ UNCHANGED db /\ failures' \in 0..MaxFailures
  BY DEF ReturnReport, Refuse, Interrupt, EntryRefused, StatementRefused, ApplyInv, Typed
<1>2. StepOf(p) /\ OthersStay(p) /\ Applies(p)' /\ pc'[p] # "commit"
  BY <1>1, LeavingApplies DEF StepOf
<1>3. QED
  BY <1>1, <1>2, LocalStepApplies

LEMMA StartApplies ==
    ASSUME NobodyRollsBack, ApplyInv, NEW p \in Procs, StartAny(p)
    PROVE  ApplyInv'
<1>1. PICK have \in 0..N, direction \in {"up"}, n \in 0..N, ack \in BOOLEAN : Start(p, have, direction, n, ack)
  BY DEF StartAny, NobodyRollsBack
<1>2. KeepMax(direction, n, have) = have
  BY DEF KeepMax
<1>3. Typed /\ Applies(p)
  BY DEF ApplyInv
<1>4. /\ pc[p] = "idle" /\ UNCHANGED <<transactional, disk, tx, edits, failures>> /\ UNCHANGED db
      /\ pc' = [pc EXCEPT ![p] = "next"]
      /\ job' = [job EXCEPT ![p] = [NoJob EXCEPT
           !.down = {m \in Reversible(have) : m > have},
           !.up = {m \in 1..have \ Applied : m <= have},
           !.target = {m \in 1..have : m <= have},
           !.files = disk,
           !.ack = ack]]
  BY <1>1, <1>2 DEF Start, Goto
<1>5. {m \in Reversible(have) : m > have} = {}
  BY DEF Reversible
<1>6. PICK up \in SUBSET Migrations : up = {m \in 1..have \ Applied : m <= have}
  <2>1. 1..have \subseteq Migrations
    BY DEF Migrations
  <2>2. {m \in 1..have \ Applied : m <= have} \in SUBSET Migrations
    BY <2>1
  <2>3. QED
    BY <2>2
<1>7. PICK target \in SUBSET Migrations : target = {m \in 1..have : m <= have}
  <2>1. 1..have \subseteq Migrations
    BY DEF Migrations
  <2>2. {m \in 1..have : m <= have} \in SUBSET Migrations
    BY <2>1
  <2>3. QED
    BY <2>2
<1>8. PICK j : j = [NoJob EXCEPT !.down = {}, !.up = up, !.target = target, !.files = disk, !.ack = ack]
  OBVIOUS
<1>9. job' = [job EXCEPT ![p] = j]
  BY <1>4, <1>5, <1>6, <1>7, <1>8
<1>10. j \in Jobs /\ j.down = {} /\ ~j.auto
  <2>1. NoJob \in Jobs /\ ~NoJob.auto
    BY NoJobIsTyped DEF NoJob
  <2>2. disk \in [Migrations -> Files] /\ {} \in SUBSET Migrations
    BY <1>3 DEF Typed
  <2>3. QED
    BY <2>1, <2>2, <1>8 DEF Jobs
<1>11. job' \in [Procs -> Jobs] /\ job'[p] = j
  BY <1>3, <1>9, <1>10 DEF Typed
<1>12. StepOf(p) /\ OthersStay(p) /\ pc'[p] = "next" /\ tx'[p] = tx[p]
  BY <1>3, <1>4, <1>9, <1>11 DEF StepOf, Typed, OthersStay
<1>13. Applies(p)'
  BY <1>3, <1>4, <1>10, <1>11, <1>12 DEF Applies
<1>14. QED
  BY <1>4, <1>12, <1>13, LocalStepApplies

(* The script of a run, and its last segment.                              *)
LEMMA PlainRun ==
    ASSUME PlainUps, Typed, NEW p \in Procs, NEW m \in Migrations
    PROVE  Script(p, m, "up") \in Seq(UnitKinds) /\ ~Chunked(Script(p, m, "up"))
<1>1. job[p].files[m].up \in Versions
  BY DEF Typed, Jobs, Files
<1>2. QED
  BY <1>1 DEF Script, PlainUps

LEMMA PlainCurrent ==
    ASSUME PlainUps, ApplyInv, NEW p \in Procs, pc[p] \in {"run", "entry", "commit"}
    PROVE  /\ Current(p) \in Seq(UnitKinds) /\ ~Chunked(Current(p)) /\ Typed /\ Applies(p)
           /\ job[p].m \in Migrations /\ job[p].way = "up" /\ tx[p] \in Writes /\ job[p] \in Jobs
           /\ Version(p) \in Versions /\ EntryOf(p) \in Versions /\ job[p].at \in Nat
           /\ \A i \in DOMAIN Current(p) : Current(p)[i] # "chunk"
<1>1. Typed /\ Applies(p)
  BY DEF ApplyInv
<1>2. job[p].m \in Migrations /\ job[p].way = "up"
  BY <1>1 DEF Applies
<1>3. Current(p) = Script(p, job[p].m, "up")
  BY <1>2 DEF Current
<1>4. Current(p) \in Seq(UnitKinds) /\ ~Chunked(Current(p))
  BY <1>1, <1>2, <1>3, PlainRun
<1>5. /\ Version(p) \in Versions /\ job[p].at \in Nat /\ tx[p] \in Writes /\ job[p].files[job[p].m].up \in Versions
  BY <1>1, <1>2, RunIsTyped
<1>6. job[p] \in Jobs
  BY <1>1 DEF Typed
<1>7. \A i \in DOMAIN Current(p) : Current(p)[i] # "chunk"
  BY <1>4 DEF Chunked
<1>8. QED
  BY <1>1, <1>2, <1>4, <1>5, <1>6, <1>7 DEF EntryOf

LEMMA BeginApplies ==
    ASSUME PlainUps, ApplyInv, NEW p \in Procs, Begin(p)
    PROVE  ApplyInv'
<1>1. Typed /\ Applies(p) /\ pc[p] = "next"
  BY DEF ApplyInv, Begin
<1>2. job[p] \in Jobs /\ job[p].up \in SUBSET Migrations /\ job[p].up # {} /\ job[p].down = {}
  BY <1>1 DEF Typed, Jobs, Begin, Applies
<1>3. PICK m \in Migrations : m = Min(job[p].up)
  <2>1. job[p].up \in SUBSET Nat
    BY <1>2 DEF Migrations
  <2>2. Min(job[p].up) \in job[p].up
    BY <1>2, <2>1, LeastIsThere
  <2>3. QED
    BY <1>2, <2>2
<1>4. NextRun(p)[1] = m /\ NextRun(p)[2] = "up"
  BY <1>2, <1>3 DEF NextRun
<1>5. PICK u \in Seq(UnitKinds) : u = Script(p, m, "up") /\ ~Chunked(u)
  BY <1>1, PlainRun
<1>6. ResumeAt(u, NoRow).at = 1 /\ ResumeAt(u, NoRow).cursor = 0 /\ (u = << >> <=> ~(1 <= Len(u)))
  BY <1>5, PlainStartsAtOne
<1>7. /\ job' = [job EXCEPT ![p] = [job[p] EXCEPT
             !.down = job[p].down \ {m}, !.up = job[p].up \ {m}, !.m = m, !.way = "up", !.at = 1,
             !.cursor = 0, !.auto = FALSE]]
      /\ pc' = [pc EXCEPT ![p] = IF 1 <= Len(u) THEN "run" ELSE "entry"]
      /\ UNCHANGED <<transactional, disk, tx, edits, failures>> /\ UNCHANGED db
  BY <1>4, <1>5, <1>6 DEF Begin, Goto
<1>8. PICK j : j = [job[p] EXCEPT
             !.down = job[p].down \ {m}, !.up = job[p].up \ {m}, !.m = m, !.way = "up", !.at = 1,
             !.cursor = 0, !.auto = FALSE]
  OBVIOUS
<1>9. /\ j \in Jobs /\ j.down = {} /\ ~j.auto /\ j.m = m /\ j.way = "up" /\ j.at = 1 /\ j.files = job[p].files
  <2>1. /\ job[p].down \ {m} = {} /\ {} \in SUBSET Migrations /\ job[p].up \ {m} \in SUBSET Migrations
        /\ m \in 0..N /\ 1 \in Nat /\ 0 \in 0..Batches /\ "up" \in Ways
    BY <1>2 DEF Migrations, Ways
  <2>2. QED
    BY <1>2, <1>8, <2>1 DEF Jobs
<1>10. job' \in [Procs -> Jobs] /\ job'[p] = j
  BY <1>1, <1>7, <1>8, <1>9 DEF Typed
<1>11. /\ StepOf(p) /\ OthersStay(p) /\ tx'[p] = tx[p]
       /\ pc'[p] = (IF 1 <= Len(u) THEN "run" ELSE "entry")
  BY <1>1, <1>7, <1>8, <1>10 DEF StepOf, Typed, OthersStay
<1>12. Current(p)' = u
  BY <1>5, <1>9, <1>10 DEF Current, Script
<1>13. tx[p] = Nothing /\ Nothing.row = KeepRow /\ Nothing.entry = Keep
  BY <1>1, RowsDiffer DEF Applies
<1>14. (1 <= Len(u) => 1 \in DOMAIN u) /\ (~(1 <= Len(u)) => 1 >= Len(u))
  BY <1>5
<1>15. Applies(p)'
  BY <1>6, <1>9, <1>10, <1>11, <1>12, <1>13, <1>14 DEF Applies, LastSegment
<1>16. pc'[p] # "commit"
  BY <1>11
<1>17. QED
  BY <1>7, <1>11, <1>15, <1>16, LocalStepApplies

LEMMA StatementApplies ==
    ASSUME PlainUps, ApplyInv, NEW p \in Procs, Statement(p)
    PROVE  ApplyInv'
<1>1. pc[p] = "run"
  BY DEF Statement
<1>2. /\ Current(p) \in Seq(UnitKinds) /\ ~Chunked(Current(p)) /\ Typed /\ Applies(p)
      /\ tx[p] \in Writes /\ job[p] \in Jobs /\ Version(p) \in Versions
  BY <1>1, PlainCurrent
<1>3. PICK u \in Seq(UnitKinds) : u = Current(p)
  BY <1>2
<1>4. PICK i \in 1..Len(u) : i = job[p].at
  BY <1>1, <1>2, <1>3 DEF Applies
<1>5. PICK t : t = StatementWrites(p)
  OBVIOUS
<1>6. t \in Writes /\ t.row = tx[p].row /\ t.entry = tx[p].entry
  <2>1. <<Version(p), i, 0>> \in Work
    BY <1>2 DEF Work
  <2>2. t = [tx[p] EXCEPT !.work = @ \cup {<<Version(p), i, 0>>}]
    BY <1>4, <1>5 DEF StatementWrites
  <2>3. QED
    BY <1>2, <2>1, <2>2 DEF Writes
<1>7. /\ tx' = [tx EXCEPT ![p] = t] /\ UNCHANGED db /\ UNCHANGED <<transactional, disk, edits, failures>>
      /\ \/ /\ EndsSegment(u, i) /\ job' = job
            /\ pc' = [pc EXCEPT ![p] = IF Chunked(u) THEN "close" ELSE "entry"]
         \/ ~EndsSegment(u, i) /\ job' = [job EXCEPT ![p] = [job[p] EXCEPT !.at = i + 1]] /\ pc' = pc
  BY <1>2, <1>3, <1>4, <1>5 DEF Statement, Goto, StatementWrites, Write, Applies
<1>8. /\ SameRun(p) /\ job' \in [Procs -> Jobs] /\ job'[p].auto = job[p].auto
      /\ job'[p].at = (IF EndsSegment(u, i) THEN i ELSE i + 1)
  <2>1. CASE EndsSegment(u, i)
    BY <2>1, <1>2, <1>4, <1>7 DEF SameRun, Typed
  <2>2. CASE ~EndsSegment(u, i)
    <3>1. PICK j : j = [job[p] EXCEPT !.at = i + 1]
      OBVIOUS
    <3>2. /\ j \in Jobs /\ j.at = i + 1 /\ j.auto = job[p].auto /\ j.down = job[p].down /\ j.up = job[p].up
          /\ j.target = job[p].target /\ j.files = job[p].files /\ j.m = job[p].m /\ j.way = job[p].way
      <4>1. i + 1 \in Nat
        OBVIOUS
      <4>2. QED
        BY <4>1, <3>1, <1>2 DEF Jobs
    <3>3. job' \in [Procs -> Jobs] /\ job'[p] = j
      BY <2>2, <3>1, <3>2, <1>2, <1>7 DEF Typed
    <3>4. QED
      BY <2>2, <3>2, <3>3 DEF SameRun
  <2>3. QED
    BY <2>1, <2>2
<1>9. /\ pc' \in [Procs -> {"idle", "next", "run", "close", "entry", "commit"}]
      /\ pc'[p] = (IF EndsSegment(u, i) THEN "entry" ELSE "run")
  BY <1>1, <1>2, <1>3, <1>7 DEF Typed
<1>10. tx' \in [Procs -> Writes] /\ tx'[p] = t
  BY <1>2, <1>6, <1>7 DEF Typed
<1>11. StepOf(p) /\ OthersStay(p)
  BY <1>2, <1>7, <1>8, <1>9, <1>10 DEF StepOf, Typed, OthersStay
<1>12. Current(p)' = u
  BY <1>3, <1>8, SameRunSameScript
<1>13. /\ EndsSegment(u, i) => i >= Len(u)
       /\ ~EndsSegment(u, i) => i + 1 \in DOMAIN u
  <2>1. ASSUME EndsSegment(u, i), i # Len(u) PROVE FALSE
    <3>1. i + 1 \in 1..Len(u)
      BY <2>1
    <3>2. SegmentOf(u, i) = 0 /\ SegmentOf(u, i + 1) = 0
      BY <1>2, <1>3, <3>1, PlainIsOneSegment
    <3>3. QED
      BY <2>1, <3>2 DEF EndsSegment
  <2>2. QED
    BY <2>1, SegmentEnds
<1>14. Applies(p)'
  BY <1>1, <1>2, <1>6, <1>8, <1>9, <1>10, <1>12, <1>13 DEF Applies, LastSegment, SameRun
<1>15. QED
  BY <1>7, <1>9, <1>11, <1>14, LocalStepApplies

LEMMA WriteEntryApplies ==
    ASSUME PlainUps, ApplyInv, NEW p \in Procs, WriteEntry(p)
    PROVE  ApplyInv'
<1>1. pc[p] = "entry"
  BY DEF WriteEntry
<1>2. /\ Typed /\ Applies(p) /\ tx[p] \in Writes /\ EntryOf(p) \in Versions /\ job[p].way = "up"
      /\ job[p].m \in Migrations
  BY <1>1, PlainCurrent
<1>3. PICK t : t = [tx[p] EXCEPT !.entry = EntryOf(p)]
  OBVIOUS
<1>4. t \in Writes /\ t.row = tx[p].row /\ t.entry = EntryOf(p)
  BY <1>2, <1>3 DEF Writes
<1>5. /\ tx' = [tx EXCEPT ![p] = t] /\ UNCHANGED db /\ pc' = [pc EXCEPT ![p] = "commit"]
      /\ UNCHANGED <<transactional, disk, job, edits, failures>> /\ ledger[job[p].m] = 0
      /\ ~EntryLocked(p)
  BY <1>2, <1>3 DEF WriteEntry, Write, Goto, EntryOf, EntryFits, Applies
<1>6. tx'[p] = t /\ pc'[p] = "commit" /\ job'[p] = job[p] /\ StepOf(p) /\ OthersStay(p)
  BY <1>2, <1>4, <1>5 DEF StepOf, Typed, OthersStay
<1>7. Current(p)' = Current(p) /\ EntryOf(p)' = EntryOf(p) /\ ledger' = ledger
  BY <1>5, <1>6 DEF Current, Script, EntryOf, db
<1>8. LastSegment(p)'
  BY <1>1, <1>2, <1>6, <1>7 DEF Applies, LastSegment
<1>9. Applies(p)'
  BY <1>1, <1>2, <1>4, <1>5, <1>6, <1>7, <1>8 DEF Applies
<1>10. ASSUME NEW q \in Procs \ {p}, pc[q] = "commit" PROVE job[p].m # job[q].m
  <2>1. tx[q].entry = EntryOf(q) /\ EntryOf(q) \in Versions
    BY <1>10, PlainCurrent DEF Applies
  <2>2. tx[q].entry # Keep
    BY <2>1, RowsDiffer
  <2>3. QED
    BY <1>5, <2>2 DEF EntryLocked
<1>11. QED
  BY <1>5, <1>6, <1>9, <1>10, LocalStepApplies

(* The transaction of a run takes effect, with its ledger row.             *)
LEMMA PublishApplies ==
    ASSUME PlainUps, ApplyInv, NEW p \in Procs, pc[p] = "commit", Publish(p, tx[p]),
           StepOf(p), OthersStay(p), pc'[p] # "commit", Applies(p)'
    PROVE  ApplyInv'
<1>1. /\ Typed /\ Applies(p) /\ tx[p] \in Writes /\ EntryOf(p) \in Versions /\ job[p].way = "up"
      /\ job[p].m \in Migrations
  BY PlainCurrent
<1>2. PICK m \in Migrations : m = job[p].m
  BY <1>1
<1>3. DbTyped' /\ Effect(m, "up", tx[p])
  <2>1. DbTyped' /\ Effect(job[p].m, job[p].way, tx[p])
    BY <1>1, PublishTakesEffect
  <2>2. QED
    BY <2>1, <1>1, <1>2
<1>4. tx[p].entry \in Versions /\ ledger[m] = 0
  BY <1>1, <1>2 DEF Applies
<1>5. tx[p].entry # Keep /\ tx[p].entry # 0
  BY <1>4, RowsDiffer
<1>6. done[m]["up"] = {}
  BY <1>4 DEF ApplyInv
<1>7. /\ ledger'[m] = tx[p].entry
      /\ \A n \in Migrations \ {m} : done'[n] = done[n] /\ ledger'[n] = ledger[n]
      /\ repeats' = repeats
  <2>1. {<<m, "up", x>> : x \in tx[p].work \cap done[m]["up"]} = {}
    BY <1>6
  <2>2. QED
    BY <2>1, <1>3, <1>5 DEF Effect
<1>8. repeats' = {} /\ \A n \in Migrations : done'[n]["up"] # {} => ledger'[n] # 0
  BY <1>5, <1>7 DEF ApplyInv
<1>9. ASSUME NEW q \in Procs \ {p} PROVE Applies(q)'
  <2>1. pc[q] = "commit" => ledger'[job[q].m] = ledger[job[q].m]
    <3>1. ASSUME pc[q] = "commit" PROVE job[q].m \in Migrations \ {m}
      <4>1. job[q].m \in Migrations
        BY <3>1, PlainCurrent
      <4>2. QED
        BY <3>1, <4>1, <1>2 DEF ApplyInv
    <3>2. QED
      BY <3>1, <1>7
  <2>2. QED
    BY <2>1, OthersApply
<1>10. \A q \in Procs : Applies(q)'
  BY <1>9
<1>11. \A r \in Procs, q \in Procs : r # q /\ pc'[r] = "commit" /\ pc'[q] = "commit" => job'[r].m # job'[q].m
  <2> SUFFICES ASSUME NEW r \in Procs, NEW q \in Procs, r # q, pc'[r] = "commit", pc'[q] = "commit"
               PROVE  job'[r].m # job'[q].m
    OBVIOUS
  <2>1. r \in Procs \ {p} /\ q \in Procs \ {p}
    OBVIOUS
  <2>2. /\ pc[r] = "commit" /\ job'[r] = job[r]
        /\ pc[q] = "commit" /\ job'[q] = job[q]
    BY <2>1 DEF OthersStay
  <2>3. job[r].m # job[q].m
    BY <2>2 DEF ApplyInv
  <2>4. QED
    BY <2>2, <2>3
<1>12. Typed'
  BY <1>1, <1>3 DEF Typed, StepOf, DbTyped
<1>13. QED
  BY <1>8, <1>10, <1>11, <1>12 DEF ApplyInv

LEMMA CommitApplies ==
    ASSUME PlainUps, ApplyInv, NEW p \in Procs, Commit(p)
    PROVE  ApplyInv'
<1>1. /\ pc[p] = "commit" /\ Publish(p, tx[p]) /\ tx' = [tx EXCEPT ![p] = Nothing] /\ Committed(p)
      /\ UNCHANGED <<transactional, disk, edits, failures>>
  BY DEF Commit
<1>2. Typed /\ Applies(p) /\ Nothing \in Writes /\ Nothing.entry = Keep /\ KeepRow.cursor = 0
  BY <1>1, PlainCurrent, RowsDiffer
<1>3. LastSegment(p) /\ ~(tx[p].row.cursor > 0)
  BY <1>1, <1>2 DEF Applies
<1>4. pc' = [pc EXCEPT ![p] = "next"] /\ UNCHANGED job
  BY <1>1, <1>3 DEF Committed, Goto
<1>5. /\ StepOf(p) /\ OthersStay(p) /\ pc'[p] = "next" /\ tx'[p] = Nothing /\ job'[p] = job[p]
  BY <1>1, <1>2, <1>4 DEF StepOf, Typed, OthersStay
<1>6. Applies(p)'
  BY <1>2, <1>5 DEF Applies
<1>7. QED
  BY <1>1, <1>5, <1>6, PublishApplies

LEMMA CommitFailsApplies ==
    ASSUME PlainUps, ApplyInv, NEW p \in Procs, CommitFails(p)
    PROVE  ApplyInv'
<1>1. /\ pc[p] = "commit" /\ (Publish(p, tx[p]) \/ UNCHANGED db) /\ Leave(p)
      /\ UNCHANGED <<transactional, disk, edits>> /\ failures' \in 0..MaxFailures
  BY DEF CommitFails, ApplyInv, Typed
<1>2. StepOf(p) /\ OthersStay(p) /\ Applies(p)' /\ pc'[p] # "commit"
  BY <1>1, LeavingApplies DEF StepOf
<1>3. QED
  BY <1>1, <1>2, PublishApplies, LocalStepApplies

(* Where no unit is chunked, no segment is closed and no row is moved.     *)
LEMMA NoChunksNoRows ==
    ASSUME PlainUps, ApplyInv, NEW p \in Procs, Batch(p) \/ ClearProgress(p) \/ MoveProgress(p)
    PROVE  FALSE
<1>1. Applies(p)
  BY DEF ApplyInv
<1>2. CASE Batch(p)
  <2>1. pc[p] = "run" /\ Current(p)[job[p].at] = "chunk"
    BY <1>2 DEF Batch
  <2>2. job[p].at \in DOMAIN Current(p)
    BY <1>1, <2>1 DEF Applies
  <2>3. QED
    BY <2>1, <2>2, PlainCurrent
<1>3. CASE ClearProgress(p) \/ MoveProgress(p)
  BY <1>1, <1>3 DEF ClearProgress, MoveProgress, Applies
<1>4. QED
  BY <1>2, <1>3

LEMMA EditIsTyped ==
    ASSUME disk \in [Migrations -> Files], edits \in 0..MaxEdits, NEW m \in Migrations, NEW way \in EditWays,
           Edit(m, way)
    PROVE  disk' \in [Migrations -> Files] /\ edits' \in 0..MaxEdits
<1>1. PICK v \in Versions : disk' = [disk EXCEPT ![m][way] = v]
  BY DEF Edit
<1>2. PICK f : f = [disk[m] EXCEPT ![way] = v]
  OBVIOUS
<1>3. f \in Files
  <2>1. way = "up" \/ way = "down"
    BY DEF Ways
  <2>2. disk[m] \in Files
    OBVIOUS
  <2>3. QED
    BY <1>2, <2>1, <2>2 DEF Files
<1>4. disk' = [disk EXCEPT ![m] = f]
  BY <1>1, <1>2
<1>5. disk' \in [Migrations -> Files]
  BY <1>3, <1>4
<1>6. edits' = edits + 1 /\ edits < MaxEdits
  BY DEF Edit
<1>7. QED
  BY <1>5, <1>6

LEMMA NextApplies ==
    ASSUME PlainUps, NobodyRollsBack, transactional, ApplyInv, [Next]_vars
    PROVE  ApplyInv'
<1>1. ASSUME UNCHANGED <<ledger, progress, done, repeats, pc, job, tx, failures>>,
             disk' \in [Migrations -> Files], transactional' = transactional, edits' \in 0..MaxEdits
      PROVE  ApplyInv'
  <2>1. ASSUME NEW p \in Procs PROVE Applies(p)' 
    <3>1. Current(p)' = Current(p) /\ EntryOf(p)' = EntryOf(p)
      BY <1>1 DEF Current, Script, EntryOf
    <3>2. LastSegment(p)' <=> LastSegment(p)
      BY <1>1, <3>1 DEF LastSegment
    <3>3. Applies(p)
      BY DEF ApplyInv
    <3>4. QED
      BY <1>1, <3>1, <3>2, <3>3 DEF Applies
  <2>2. Typed'
    BY <1>1 DEF ApplyInv, Typed
  <2>3. QED
    BY <1>1, <2>1, <2>2 DEF ApplyInv
<1>2. CASE UNCHANGED vars
  BY <1>1, <1>2 DEF vars, ApplyInv, Typed
<1>3. ASSUME NEW p \in Procs, StartAny(p) \/ Advance(p) \/ CommitFails(p) \/ Interrupt(p)
      PROVE  ApplyInv'
  <2>1. ~ImplicitCommit(p)
    BY DEF ImplicitCommit
  <2>2. QED
    BY <1>3, <2>1, StartApplies, EndingApplies, BeginApplies, StatementApplies, NoChunksNoRows, WriteEntryApplies,
       CommitApplies, CommitFailsApplies DEF Advance
<1>4. ASSUME NEW m \in Migrations, NEW way \in EditWays, Edit(m, way)
      PROVE  ApplyInv'
  <2>1. Typed /\ disk \in [Migrations -> Files] /\ edits \in 0..MaxEdits
    BY DEF ApplyInv, Typed
  <2>2. disk' \in [Migrations -> Files] /\ edits' \in 0..MaxEdits
    BY <1>4, <2>1, EditIsTyped
  <2>3. UNCHANGED <<transactional, ledger, progress, done, repeats, pc, job, tx, failures>>
    BY <1>4 DEF Edit, db
  <2>4. QED
    BY <1>1, <2>2, <2>3
<1>5. QED
  BY <1>2, <1>3, <1>4 DEF Next

LEMMA ApplyBegins == Init => ApplyInv
<1> SUFFICES ASSUME Init PROVE ApplyInv
  OBVIOUS
<1>1. Typed /\ repeats = {} /\ \A m \in Migrations : done[m]["up"] = {}
  BY InitHolds DEF PlanInv, Init, Ways
<1>2. \A p \in Procs : pc[p] = "idle" /\ job[p] = NoJob /\ tx[p] = Nothing
  BY DEF Init
<1>3. Nothing.entry = Keep /\ NoJob.down = {} /\ ~NoJob.auto
  BY RowsDiffer DEF NoJob
<1>4. \A p \in Procs : Applies(p)
  BY <1>2, <1>3 DEF Applies
<1>5. QED
  BY <1>1, <1>2, <1>4 DEF ApplyInv

LEMMA KindStays ==
    ASSUME [Next]_vars
    PROVE  transactional' = transactional
<1>1. ASSUME NEW p \in Procs, StartAny(p) \/ Advance(p) \/ CommitFails(p) \/ Interrupt(p)
      PROVE  transactional' = transactional
  BY <1>1 DEF StartAny, Start, Advance, CommitFails, Interrupt, ReturnReport, Refuse, Begin, ImplicitCommit,
              Statement, Batch, ClearProgress, MoveProgress, WriteEntry, EntryRefused, StatementRefused, Commit
<1>2. QED
  BY <1>1 DEF Next, Edit, vars

-----------------------------------------------------------------------------
(* Many processes apply, whether DDL is transactional or not.              *)

(* A run of a plain migration: below it everything is applied, what is     *)
(* behind it is done or will be with its transaction, and in autocommit    *)
(* each of its writes has taken effect.                                    *)
PlainRunHolds(p) ==
    LET u == Current(p)
        v == Version(p)
    IN
    /\ job[p].m \in Migrations /\ job[p].way = "up" /\ tx[p].row = KeepRow
    /\ 1..(job[p].m - 1) \subseteq Applied
    /\ job[p].auto => tx[p] = Nothing /\ ~transactional
    /\ tx[p].entry = (IF pc[p] = "commit" /\ ~job[p].auto THEN EntryOf(p) ELSE Keep)
    /\ transactional => tx[p].work \subseteq WorkOf(u, v)
    /\ pc[p] = "run" => job[p].at \in DOMAIN u /\ Behind(u, v, job[p].at, 0) \subseteq All(p)
    /\ pc[p] # "run" => LastSegment(p) /\ WorkOf(u, v) \subseteq All(p)
    /\ pc[p] = "commit" /\ job[p].auto => job[p].m \in Applied

(* What is left of p's plan: its target is below or among the migrations   *)
(* it has still to run, whatever the ledger has gained since it was read.  *)
StillPlanned(p) ==
    /\ job[p].up \subseteq job[p].target
    /\ \A x \in job[p].target : 1..x \subseteq job[p].target
    /\ job[p].target \subseteq job[p].up \cup Applied \cup (IF pc[p] = "next" THEN {} ELSE {job[p].m})

AppliesFits(p) ==
    /\ pc[p] # "close" /\ job[p].down = {}
    /\ pc[p] \in {"idle", "next"} => tx[p] = Nothing
    /\ pc[p] \in {"run", "entry", "commit"} => PlainRunHolds(p)
    /\ pc[p] # "idle" => StillPlanned(p)

LedgerFits ==
    /\ \A m \in Applied : 1..m \subseteq Applied
    /\ \A m \in Migrations :
        /\ done[m]["down"] = {}
        /\ m \in Applied => Holds(done[m]["up"], WorkOf(UpScript[m][ledger[m]], ledger[m]))

TogetherInv == Typed /\ LedgerFits /\ \A p \in Procs : AppliesFits(p)

(* The ledger and the work that is done only grow.                         *)
Grows == Applied \subseteq Applied' /\ \A m \in Migrations : done[m]["up"] \subseteq done'[m]["up"]

LEMMA OthersTogether ==
    ASSUME TogetherInv, NEW p \in Procs, StepOf(p), OthersStay(p), Grows, NEW q \in Procs \ {p}
    PROVE  AppliesFits(q)'
<1>1. AppliesFits(q) /\ pc'[q] = pc[q] /\ job'[q] = job[q] /\ tx'[q] = tx[q] /\ transactional' = transactional
  BY DEF TogetherInv, OthersStay, StepOf
<1>2. /\ Current(q)' = Current(q) /\ EntryOf(q)' = EntryOf(q) /\ Version(q)' = Version(q)
      /\ (LastSegment(q)' <=> LastSegment(q))
  BY <1>1 DEF Current, Script, EntryOf, Version, LastSegment
<1>3. StillPlanned(q) => StillPlanned(q)'
  BY <1>1 DEF StillPlanned, Grows
<1>4. ASSUME PlainRunHolds(q) PROVE PlainRunHolds(q)'
  <2>1. All(q) \subseteq All(q)'
    BY <1>1, <1>4 DEF All, Did, PlainRunHolds, Grows
  <2>2. QED
    BY <1>1, <1>2, <1>4, <2>1 DEF PlainRunHolds, Grows
<1>5. QED
  BY <1>1, <1>3, <1>4 DEF AppliesFits

(* A step of p, and what it leaves.                                        *)
LEMMA TogetherStep ==
    ASSUME TogetherInv, NEW p \in Procs, StepOf(p), OthersStay(p), DbTyped', Grows, LedgerFits', AppliesFits(p)'
    PROVE  TogetherInv'
<1>1. Typed'
  BY DEF TogetherInv, Typed, StepOf, DbTyped
<1>2. \A q \in Procs : AppliesFits(q)'
  BY OthersTogether
<1>3. QED
  BY <1>1, <1>2 DEF TogetherInv

LEMMA NothingGrows ==
    ASSUME TogetherInv, UNCHANGED db, transactional' = transactional
    PROVE  DbTyped' /\ Grows /\ LedgerFits' /\ Applied' = Applied /\ done' = done /\ ledger' = ledger
<1>1. UNCHANGED <<ledger, progress, done, repeats>>
  BY DEF db
<1>2. DbTyped' /\ Applied' = Applied
  BY <1>1 DEF TogetherInv, Typed, DbTyped, Applied
<1>3. Grows
  BY <1>1, <1>2 DEF Grows
<1>4. LedgerFits'
  BY <1>1, <1>2 DEF TogetherInv, LedgerFits, Holds
<1>5. QED
  BY <1>1, <1>2, <1>3, <1>4

(* The writes of a run take effect. A ledger row comes with, or after, all *)
(* of the work of its script.                                              *)
LEMMA EffectGrows ==
    ASSUME TogetherInv, NEW m \in Migrations, NEW t \in Writes, Effect(m, "up", t),
           transactional' = transactional, t.entry # 0,
           transactional /\ t.entry = Keep => t.work = {},
           t.entry # Keep => /\ 1..(m - 1) \subseteq Applied
                             /\ Holds(done[m]["up"] \cup t.work, WorkOf(UpScript[m][t.entry], t.entry))
    PROVE  /\ Grows /\ LedgerFits'
           /\ done'[m]["up"] = done[m]["up"] \cup t.work
           /\ Applied' = IF t.entry = Keep THEN Applied ELSE Applied \cup {m}
<1>1. LedgerFits
  BY DEF TogetherInv
<1>2. Applied' = IF t.entry = Keep THEN Applied ELSE Applied \cup {m}
  BY AppliedFollows DEF TogetherInv
<1>3. /\ done'[m]["up"] = done[m]["up"] \cup t.work
      /\ done'[m]["down"] = IF t.entry = Keep THEN done[m]["down"] ELSE {}
      /\ ledger'[m] = IF t.entry = Keep THEN ledger[m] ELSE t.entry
      /\ \A n \in Migrations \ {m} : done'[n] = done[n] /\ ledger'[n] = ledger[n]
  BY DEF Effect, Ways
<1>4. Grows
  BY <1>2, <1>3 DEF Grows
<1>5. ASSUME NEW n \in Applied' PROVE 1..n \subseteq Applied'
  <2>1. CASE n \in Applied
    BY <1>1, <1>2, <2>1 DEF LedgerFits
  <2>2. CASE n \notin Applied
    <3>1. n = m /\ t.entry # Keep /\ 1..(m - 1) \subseteq Applied
      BY <1>2, <1>5, <2>2
    <3>2. \A x \in 1..m : x \in 1..(m - 1) \/ x = m
      BY DEF Migrations
    <3>3. QED
      BY <1>2, <3>1, <3>2
  <2>3. QED
    BY <2>1, <2>2
<1>6. ASSUME NEW n \in Migrations
      PROVE  /\ done'[n]["down"] = {}
             /\ n \in Applied' => Holds(done'[n]["up"], WorkOf(UpScript[n][ledger'[n]], ledger'[n]))
  <2>1. /\ done[n]["down"] = {}
        /\ n \in Applied => Holds(done[n]["up"], WorkOf(UpScript[n][ledger[n]], ledger[n]))
    BY <1>1 DEF LedgerFits
  <2>2. CASE n # m
    BY <1>2, <1>3, <2>1, <2>2
  <2>3. CASE n = m /\ t.entry # Keep
    BY <1>3, <2>1, <2>3
  <2>4. CASE n = m /\ t.entry = Keep
    <3>1. n \in Applied' => n \in Applied
      BY <1>2, <2>4
    <3>2. transactional => done'[m]["up"] = done[m]["up"]
      BY <1>3, <2>4
    <3>3. QED
      BY <1>3, <2>1, <2>4, <3>1, <3>2 DEF Holds
  <2>5. QED
    BY <2>2, <2>3, <2>4
<1>7. LedgerFits'
  BY <1>5, <1>6 DEF LedgerFits, Holds
<1>8. QED
  BY <1>2, <1>3, <1>4, <1>7

LEMMA EndingTogether ==
    ASSUME TogetherInv, NEW p \in Procs,
           \/ ReturnReport(p) \/ Refuse(p) \/ Interrupt(p)
           \/ EntryRefused(p) \/ StatementRefused(p)
    PROVE  TogetherInv'
<1>1. Typed /\ Nothing \in Writes /\ NoJob \in Jobs
  BY NoJobIsTyped, RowsDiffer DEF TogetherInv
<1>2. /\ pc' = [pc EXCEPT ![p] = "idle"] /\ job' = [job EXCEPT ![p] = NoJob]
      /\ tx' = [tx EXCEPT ![p] = Nothing]
      /\ UNCHANGED <<transactional, disk, edits>> /\ UNCHANGED db /\ failures' \in 0..MaxFailures
  BY <1>1 DEF ReturnReport, Refuse, Interrupt, EntryRefused, StatementRefused, Leave, Goto, Typed
<1>3. StepOf(p) /\ OthersStay(p) /\ pc'[p] = "idle" /\ job'[p] = NoJob /\ tx'[p] = Nothing
  BY <1>1, <1>2 DEF StepOf, Typed, OthersStay
<1>4. AppliesFits(p)'
  BY <1>3 DEF AppliesFits, NoJob
<1>5. QED
  BY <1>2, <1>3, <1>4, NothingGrows, TogetherStep

LEMMA StartTogether ==
    ASSUME NobodyRollsBack, TogetherInv, NEW p \in Procs, StartAny(p)
    PROVE  TogetherInv'
<1>1. PICK have \in 0..N, direction \in {"up"}, n \in 0..N, ack \in BOOLEAN : Start(p, have, direction, n, ack)
  BY DEF StartAny, NobodyRollsBack
<1>2. KeepMax(direction, n, have) = have
  BY DEF KeepMax
<1>3. Typed /\ AppliesFits(p)
  BY DEF TogetherInv
<1>4. /\ pc[p] = "idle" /\ UNCHANGED <<transactional, disk, tx, edits, failures>> /\ UNCHANGED db
      /\ pc' = [pc EXCEPT ![p] = "next"]
      /\ job' = [job EXCEPT ![p] = [NoJob EXCEPT
           !.down = {m \in Reversible(have) : m > have},
           !.up = {m \in 1..have \ Applied : m <= have},
           !.target = {m \in 1..have : m <= have},
           !.files = disk,
           !.ack = ack]]
  BY <1>1, <1>2 DEF Start, Goto
<1>5. {m \in Reversible(have) : m > have} = {}
  BY DEF Reversible
<1>6. 1..have \in SUBSET Migrations /\ 1..have \ Applied \in SUBSET Migrations
  BY DEF Migrations
<1>7. {m \in 1..have \ Applied : m <= have} = 1..have \ Applied /\ {m \in 1..have : m <= have} = 1..have
  OBVIOUS
<1>8. PICK up \in SUBSET Migrations : up = {m \in 1..have \ Applied : m <= have} /\ up = 1..have \ Applied
  BY <1>6, <1>7
<1>9. PICK target \in SUBSET Migrations : target = {m \in 1..have : m <= have} /\ target = 1..have
  BY <1>6, <1>7
<1>10. PICK j : j = [NoJob EXCEPT !.down = {}, !.up = up, !.target = target, !.files = disk, !.ack = ack]
  OBVIOUS
<1>11. job' = [job EXCEPT ![p] = j]
  BY <1>4, <1>5, <1>8, <1>9, <1>10
<1>12. j \in Jobs /\ j.down = {} /\ j.up = up /\ j.target = target
  <2>1. NoJob \in Jobs
    BY NoJobIsTyped
  <2>2. disk \in [Migrations -> Files] /\ {} \in SUBSET Migrations
    BY <1>3 DEF Typed
  <2>3. QED
    BY <2>1, <2>2, <1>10 DEF Jobs
<1>13. job' \in [Procs -> Jobs] /\ job'[p] = j
  BY <1>3, <1>11, <1>12 DEF Typed
<1>14. StepOf(p) /\ OthersStay(p) /\ pc'[p] = "next" /\ tx'[p] = tx[p]
  BY <1>3, <1>4, <1>11, <1>13 DEF StepOf, Typed, OthersStay
<1>15. DbTyped' /\ Grows /\ LedgerFits' /\ Applied' = Applied
  BY <1>4, NothingGrows
<1>16. StillPlanned(p)'
  <2>1. up \subseteq target /\ target \subseteq up \cup Applied
    BY <1>8, <1>9
  <2>2. \A x \in target : 1..x \subseteq target
    BY <1>9
  <2>3. QED
    BY <2>1, <2>2, <1>12, <1>13, <1>14, <1>15 DEF StillPlanned
<1>17. AppliesFits(p)'
  BY <1>3, <1>4, <1>12, <1>13, <1>14, <1>16 DEF AppliesFits
<1>18. QED
  BY <1>14, <1>15, <1>17, TogetherStep

(* What is known of a run.                                                 *)
LEMMA TogetherRun ==
    ASSUME PlainUps, TogetherInv, NEW p \in Procs, pc[p] \in {"run", "entry", "commit"}
    PROVE  /\ Typed /\ LedgerFits /\ PlainRunHolds(p) /\ StillPlanned(p) /\ job[p].down = {}
           /\ job[p].m \in Migrations /\ job[p].way = "up" /\ tx[p] \in Writes /\ job[p] \in Jobs
           /\ Current(p) \in Seq(UnitKinds) /\ ~Chunked(Current(p))
           /\ Version(p) \in Versions /\ EntryOf(p) = Version(p) /\ job[p].at \in Nat
           /\ Current(p) = UpScript[job[p].m][Version(p)]
           /\ \A i \in DOMAIN Current(p) : Current(p)[i] # "chunk"
<1>1. Typed /\ AppliesFits(p) /\ LedgerFits
  BY DEF TogetherInv
<1>2. PlainRunHolds(p) /\ StillPlanned(p) /\ job[p].down = {} /\ job[p].m \in Migrations /\ job[p].way = "up"
  BY <1>1 DEF AppliesFits, PlainRunHolds
<1>3. /\ Current(p) = UpScript[job[p].m][Version(p)] /\ Version(p) \in Versions
      /\ Current(p) \in Seq(UnitKinds) /\ job[p].at \in Nat /\ tx[p] \in Writes
  BY <1>1, <1>2, RunIsTyped
<1>4. ~Chunked(Current(p))
  BY <1>2, <1>3 DEF PlainUps
<1>5. EntryOf(p) = Version(p)
  BY <1>2 DEF EntryOf, Version
<1>6. job[p] \in Jobs
  BY <1>1 DEF Typed
<1>7. \A i \in DOMAIN Current(p) : Current(p)[i] # "chunk"
  BY <1>4 DEF Chunked
<1>8. QED
  BY <1>1, <1>2, <1>3, <1>4, <1>5, <1>6, <1>7

LEMMA BeginTogether ==
    ASSUME PlainUps, TogetherInv, NEW p \in Procs, Begin(p)
    PROVE  TogetherInv'
<1>1. Typed /\ AppliesFits(p) /\ StillPlanned(p) /\ pc[p] = "next" /\ tx[p] = Nothing
  BY DEF TogetherInv, Begin, AppliesFits
<1>2. job[p] \in Jobs /\ job[p].up \in SUBSET Migrations /\ job[p].up # {} /\ job[p].down = {}
  BY <1>1 DEF Typed, Jobs, Begin, AppliesFits
<1>3. PICK m \in job[p].up : m = Min(job[p].up) /\ \A x \in job[p].up : m <= x
  <2>1. job[p].up \in SUBSET Nat
    BY <1>2 DEF Migrations
  <2>2. Min(job[p].up) \in job[p].up /\ \A x \in job[p].up : Min(job[p].up) <= x
    BY <1>2, <2>1, LeastIsThere
  <2>3. QED
    BY <2>2
<1>4. NextRun(p)[1] = m /\ NextRun(p)[2] = "up" /\ m \in Migrations
  BY <1>2, <1>3 DEF NextRun
<1>5. PICK u \in Seq(UnitKinds) : u = Script(p, m, "up") /\ ~Chunked(u)
  BY <1>1, <1>4, PlainRun
<1>6. ResumeAt(u, NoRow).at = 1 /\ ResumeAt(u, NoRow).cursor = 0 /\ (u = << >> <=> ~(1 <= Len(u)))
  BY <1>5, PlainStartsAtOne
<1>7. /\ job' = [job EXCEPT ![p] = [job[p] EXCEPT
             !.down = job[p].down \ {m}, !.up = job[p].up \ {m}, !.m = m, !.way = "up", !.at = 1,
             !.cursor = 0, !.auto = FALSE]]
      /\ pc' = [pc EXCEPT ![p] = IF 1 <= Len(u) THEN "run" ELSE "entry"]
      /\ UNCHANGED <<transactional, disk, tx, edits, failures>> /\ UNCHANGED db
  BY <1>4, <1>5, <1>6 DEF Begin, Goto
<1>8. PICK j : j = [job[p] EXCEPT
             !.down = job[p].down \ {m}, !.up = job[p].up \ {m}, !.m = m, !.way = "up", !.at = 1,
             !.cursor = 0, !.auto = FALSE]
  OBVIOUS
<1>9. /\ j \in Jobs /\ j.down = {} /\ ~j.auto /\ j.m = m /\ j.way = "up" /\ j.at = 1 /\ j.files = job[p].files
      /\ j.up = job[p].up \ {m} /\ j.target = job[p].target
  <2>1. /\ job[p].down \ {m} = {} /\ {} \in SUBSET Migrations /\ job[p].up \ {m} \in SUBSET Migrations
        /\ m \in 0..N /\ 1 \in Nat /\ 0 \in 0..Batches /\ "up" \in Ways
    BY <1>2, <1>4 DEF Migrations, Ways
  <2>2. QED
    BY <1>2, <1>8, <2>1 DEF Jobs
<1>10. job' \in [Procs -> Jobs] /\ job'[p] = j
  BY <1>1, <1>7, <1>8, <1>9 DEF Typed
<1>11. /\ StepOf(p) /\ OthersStay(p) /\ tx'[p] = Nothing /\ transactional' = transactional
       /\ pc'[p] = (IF 1 <= Len(u) THEN "run" ELSE "entry")
  BY <1>1, <1>7, <1>8, <1>10 DEF StepOf, Typed, OthersStay
<1>12. Current(p)' = u
  BY <1>5, <1>9, <1>10 DEF Current, Script
<1>13. DbTyped' /\ Grows /\ LedgerFits' /\ Applied' = Applied
  BY <1>7, NothingGrows
<1>14. 1..(m - 1) \subseteq Applied
  <2>1. ASSUME NEW x \in 1..(m - 1) PROVE x \in Applied
    <3>1. m \in Nat /\ x \in Nat /\ x < m /\ x \in 1..m
      BY <1>4 DEF Migrations
    <3>2. x \in job[p].target
      BY <3>1, <1>1, <1>3 DEF StillPlanned
    <3>3. x \notin job[p].up
      BY <3>1, <1>3
    <3>4. QED
      BY <3>2, <3>3, <1>1 DEF StillPlanned
  <2>2. QED
    BY <2>1
<1>15. PICK v : v = Version(p)'
  OBVIOUS
<1>16. Nothing.row = KeepRow /\ Nothing.entry = Keep /\ Nothing.work = {}
  BY RowsDiffer
<1>17. Behind(u, v, 1, 0) = {} /\ (~(1 <= Len(u)) => WorkOf(u, v) = {} /\ 1 >= Len(u)) /\ (1 <= Len(u) => 1 \in DOMAIN u)
  <2>1. ASSUME ~(1 <= Len(u)) PROVE WorkOf(u, v) = {}
    <3>1. DOMAIN u = {}
      BY <2>1
    <3>2. QED
      BY <3>1 DEF WorkOf
  <2>2. QED
    BY <2>1, NothingBehind
<1>18. PlainRunHolds(p)'
  BY <1>4, <1>9, <1>10, <1>11, <1>12, <1>13, <1>14, <1>15, <1>16, <1>17 DEF PlainRunHolds, LastSegment
<1>19. StillPlanned(p)'
  <2>1. /\ job'[p].up = job[p].up \ {m} /\ job'[p].target = job[p].target /\ job'[p].m = m /\ pc'[p] # "next"
    BY <1>9, <1>10, <1>11
  <2>2. QED
    BY <2>1, <1>1, <1>13 DEF StillPlanned
<1>20. AppliesFits(p)'
  BY <1>9, <1>10, <1>11, <1>18, <1>19 DEF AppliesFits
<1>21. QED
  BY <1>11, <1>13, <1>20, TogetherStep

(* A run's writes, in autocommit or in its transaction.                    *)
LEMMA WriteTogether ==
    ASSUME PlainUps, TogetherInv, NEW p \in Procs, pc[p] \in {"run", "entry"}, NEW t \in Writes, Write(p, t),
           transactional' = transactional, t.entry # 0,
           t.entry # Keep => WorkOf(UpScript[job[p].m][t.entry], t.entry) \subseteq All(p) \cup t.work
    PROVE  /\ DbTyped' /\ Grows /\ LedgerFits'
           /\ tx' \in [Procs -> Writes] /\ tx'[p] = (IF job[p].auto THEN Nothing ELSE t)
           /\ \A q \in Procs \ {p} : tx'[q] = tx[q]
           /\ done'[job[p].m]["up"] \cup tx'[p].work = done[job[p].m]["up"] \cup t.work
           /\ Applied' = (IF job[p].auto /\ t.entry # Keep THEN Applied \cup {job[p].m} ELSE Applied)
<1>1. /\ Typed /\ PlainRunHolds(p) /\ job[p].way = "up"
  BY TogetherRun
<1>2. PICK m \in Migrations : m = job[p].m
  BY <1>1 DEF PlainRunHolds
<1>3. Nothing.work = {} /\ Nothing.entry = Keep /\ Nothing \in Writes
  BY RowsDiffer
<1>4. CASE job[p].auto
  <2>1. DbTyped' /\ tx' \in [Procs -> Writes] /\ Effect(m, "up", t) /\ tx'[p] = tx[p]
    BY <1>1, <1>2, <1>4, WriteIsLater
  <2>2. tx[p] = Nothing /\ ~transactional /\ tx' = tx /\ 1..(m - 1) \subseteq Applied
    BY <1>1, <1>2, <1>4 DEF PlainRunHolds, Write
  <2>3. All(p) = done[m]["up"]
    BY <1>1, <1>2, <1>3, <2>2 DEF All, Did
  <2>4. t.entry # Keep => Holds(done[m]["up"] \cup t.work, WorkOf(UpScript[m][t.entry], t.entry))
    BY <1>2, <2>2, <2>3 DEF Holds
  <2>5. /\ Grows /\ LedgerFits' /\ done'[m]["up"] = done[m]["up"] \cup t.work
        /\ Applied' = IF t.entry = Keep THEN Applied ELSE Applied \cup {m}
    BY <2>1, <2>2, <2>4, EffectGrows
  <2>6. QED
    BY <1>2, <1>3, <1>4, <2>1, <2>2, <2>5
<1>5. CASE ~job[p].auto
  <2>1. tx' = [tx EXCEPT ![p] = t] /\ UNCHANGED db
    BY <1>5 DEF Write
  <2>2. tx' \in [Procs -> Writes] /\ tx'[p] = t /\ \A q \in Procs \ {p} : tx'[q] = tx[q]
    BY <1>1, <2>1 DEF Typed
  <2>3. DbTyped' /\ Grows /\ LedgerFits' /\ Applied' = Applied /\ done' = done
    BY <2>1, NothingGrows
  <2>4. QED
    BY <1>5, <2>2, <2>3
<1>6. QED
  BY <1>4, <1>5

LEMMA StatementTogether ==
    ASSUME PlainUps, TogetherInv, NEW p \in Procs, Statement(p)
    PROVE  TogetherInv'
<1>1. pc[p] = "run"
  BY DEF Statement
<1>2. /\ Current(p) \in Seq(UnitKinds) /\ ~Chunked(Current(p)) /\ Typed /\ PlainRunHolds(p) /\ StillPlanned(p)
      /\ tx[p] \in Writes /\ job[p] \in Jobs /\ Version(p) \in Versions /\ job[p].down = {}
      /\ job[p].m \in Migrations /\ job[p].way = "up"
  BY <1>1, TogetherRun
<1>3. PICK u \in Seq(UnitKinds) : u = Current(p)
  BY <1>2
<1>4. PICK i \in 1..Len(u) : i = job[p].at
  BY <1>1, <1>2, <1>3 DEF PlainRunHolds
<1>5. PICK v \in Versions : v = Version(p)
  BY <1>2
<1>6. PICK t : t = StatementWrites(p)
  OBVIOUS
<1>7. tx[p].row = KeepRow /\ tx[p].entry = Keep
  BY <1>1, <1>2 DEF PlainRunHolds
<1>8. t \in Writes /\ t.work = tx[p].work \cup {<<v, i, 0>>} /\ t.row = KeepRow /\ t.entry = Keep
  <2>1. <<v, i, 0>> \in Work
    BY <1>5 DEF Work
  <2>2. t = [tx[p] EXCEPT !.work = @ \cup {<<v, i, 0>>}]
    BY <1>4, <1>5, <1>6 DEF StatementWrites
  <2>3. QED
    BY <1>2, <1>7, <2>1, <2>2 DEF Writes
<1>9. Keep # 0
  BY RowsDiffer
<1>10. /\ Write(p, t) /\ UNCHANGED <<transactional, disk, edits, failures>>
       /\ \/ /\ EndsSegment(u, i) /\ job' = job
             /\ pc' = [pc EXCEPT ![p] = IF Chunked(u) THEN "close" ELSE "entry"]
          \/ ~EndsSegment(u, i) /\ job' = [job EXCEPT ![p] = [job[p] EXCEPT !.at = i + 1]] /\ pc' = pc
  BY <1>3, <1>4, <1>6 DEF Statement, Goto, StatementWrites
<1>11. /\ DbTyped' /\ Grows /\ LedgerFits' /\ Applied' = Applied
       /\ tx' \in [Procs -> Writes] /\ tx'[p] = (IF job[p].auto THEN Nothing ELSE t)
       /\ \A q \in Procs \ {p} : tx'[q] = tx[q]
       /\ done'[job[p].m]["up"] \cup tx'[p].work = done[job[p].m]["up"] \cup t.work
  BY <1>1, <1>8, <1>9, <1>10, WriteTogether
<1>12. /\ SameRun(p) /\ job' \in [Procs -> Jobs] /\ job'[p].auto = job[p].auto
       /\ job'[p].at = (IF EndsSegment(u, i) THEN i ELSE i + 1)
       /\ \A q \in Procs \ {p} : job'[q] = job[q]
  <2>1. CASE EndsSegment(u, i)
    BY <2>1, <1>2, <1>4, <1>10 DEF SameRun, Typed
  <2>2. CASE ~EndsSegment(u, i)
    <3>1. PICK j : j = [job[p] EXCEPT !.at = i + 1]
      OBVIOUS
    <3>2. /\ j \in Jobs /\ j.at = i + 1 /\ j.auto = job[p].auto /\ j.down = job[p].down /\ j.up = job[p].up
          /\ j.target = job[p].target /\ j.files = job[p].files /\ j.m = job[p].m /\ j.way = job[p].way
      <4>1. i + 1 \in Nat
        OBVIOUS
      <4>2. QED
        BY <4>1, <3>1, <1>2 DEF Jobs
    <3>3. job' \in [Procs -> Jobs] /\ job'[p] = j /\ \A q \in Procs \ {p} : job'[q] = job[q]
      <4>1. job' = [job EXCEPT ![p] = j]
        BY <2>2, <3>1, <1>10
      <4>2. QED
        BY <4>1, <3>2, <1>2 DEF Typed
    <3>4. QED
      BY <2>2, <3>2, <3>3 DEF SameRun
  <2>3. QED
    BY <2>1, <2>2
<1>13. /\ pc' \in [Procs -> {"idle", "next", "run", "close", "entry", "commit"}]
       /\ pc'[p] = (IF EndsSegment(u, i) THEN "entry" ELSE "run")
       /\ \A q \in Procs \ {p} : pc'[q] = pc[q]
  BY <1>1, <1>2, <1>3, <1>10 DEF Typed
<1>14. StepOf(p) /\ OthersStay(p)
  <2>1. failures' \in 0..MaxFailures /\ UNCHANGED <<transactional, disk, edits>>
    BY <1>2, <1>10 DEF Typed
  <2>2. QED
    BY <2>1, <1>11, <1>12, <1>13 DEF StepOf, OthersStay
<1>15. Current(p)' = u /\ Version(p)' = v
  BY <1>3, <1>5, <1>12, SameRunSameScript DEF SameRun, Version
<1>16. /\ EndsSegment(u, i) => i >= Len(u)
       /\ ~EndsSegment(u, i) => i + 1 \in DOMAIN u
  <2>1. ASSUME EndsSegment(u, i), i # Len(u) PROVE FALSE
    <3>1. i + 1 \in 1..Len(u)
      BY <2>1
    <3>2. SegmentOf(u, i) = 0 /\ SegmentOf(u, i + 1) = 0
      BY <1>2, <1>3, <3>1, PlainIsOneSegment
    <3>3. QED
      BY <2>1, <3>2 DEF EndsSegment
  <2>2. QED
    BY <2>1, SegmentEnds
<1>17. Behind(u, v, i + 1, 0) = Behind(u, v, i, 0) \cup {<<v, i, 0>>} /\ Behind(u, v, i + 1, 0) \subseteq WorkOf(u, v)
  <2>1. u[i] # "chunk"
    BY <1>2, <1>3 DEF Chunked
  <2>2. Behind(u, v, i + 1, 0) = Behind(u, v, i, 0) \cup {<<v, i, 0>>}
    BY <2>1, BehindStatement
  <2>3. QED
    BY <2>2 DEF Behind
<1>18. Behind(u, v, i + 1, 0) \subseteq All(p)'
  <2>1. Behind(u, v, i, 0) \subseteq done[job[p].m]["up"] \cup tx[p].work
    BY <1>1, <1>2, <1>3, <1>4, <1>5 DEF PlainRunHolds, All, Did
  <2>2. All(p)' = done'[job[p].m]["up"] \cup tx'[p].work
    BY <1>2, <1>12 DEF All, Did, SameRun
  <2>3. QED
    BY <1>8, <1>11, <1>17, <2>1, <2>2
<1>19. EndsSegment(u, i) => WorkOf(u, v) = Behind(u, v, i + 1, 0)
  BY <1>16, BehindTheEnd
<1>20. transactional' => tx'[p].work \subseteq WorkOf(u, v)
  <2>1. ASSUME transactional PROVE tx'[p] = t /\ tx[p].work \subseteq WorkOf(u, v)
    BY <2>1, <1>2, <1>3, <1>5, <1>11 DEF PlainRunHolds
  <2>2. QED
    BY <2>1, <1>8, <1>10, <1>17
<1>21. /\ tx'[p].row = KeepRow /\ tx'[p].entry = Keep
       /\ job'[p].auto => tx'[p] = Nothing /\ ~transactional'
  BY <1>2, <1>8, <1>10, <1>11, <1>12, RowsDiffer DEF PlainRunHolds
<1>22. PlainRunHolds(p)'
  <2>1. job'[p].m = job[p].m /\ job'[p].way = "up" /\ 1..(job[p].m - 1) \subseteq Applied
    BY <1>2, <1>12 DEF SameRun, PlainRunHolds
  <2>2. CASE EndsSegment(u, i)
    BY <2>1, <2>2, <1>2, <1>11, <1>12, <1>13, <1>15, <1>16, <1>18, <1>19, <1>20, <1>21 DEF PlainRunHolds, LastSegment
  <2>3. CASE ~EndsSegment(u, i)
    BY <2>1, <2>3, <1>2, <1>11, <1>12, <1>13, <1>15, <1>16, <1>18, <1>20, <1>21 DEF PlainRunHolds
  <2>4. QED
    BY <2>2, <2>3
<1>23. StillPlanned(p)'
  BY <1>1, <1>2, <1>11, <1>12, <1>13 DEF StillPlanned, SameRun
<1>24. AppliesFits(p)'
  BY <1>2, <1>12, <1>13, <1>22, <1>23 DEF AppliesFits, SameRun
<1>25. QED
  BY <1>11, <1>14, <1>24, TogetherStep

LEMMA ImplicitCommitTogether ==
    ASSUME PlainUps, TogetherInv, NEW p \in Procs, ImplicitCommit(p)
    PROVE  TogetherInv'
<1>1. /\ pc[p] = "run" /\ ~transactional /\ ~job[p].auto /\ Publish(p, tx[p])
      /\ tx' = [tx EXCEPT ![p] = Nothing] /\ job' = [job EXCEPT ![p] = [job[p] EXCEPT !.auto = TRUE]]
      /\ UNCHANGED <<transactional, disk, pc, edits, failures>>
  BY DEF ImplicitCommit
<1>2. /\ Typed /\ PlainRunHolds(p) /\ StillPlanned(p) /\ tx[p] \in Writes /\ job[p] \in Jobs
      /\ job[p].m \in Migrations /\ job[p].way = "up" /\ job[p].down = {}
  BY <1>1, TogetherRun
<1>3. PICK m \in Migrations : m = job[p].m
  BY <1>2
<1>4. tx[p].entry = Keep /\ Keep # 0 /\ Nothing \in Writes /\ Nothing.work = {} /\ Nothing.row = KeepRow /\ Nothing.entry = Keep
  BY <1>1, <1>2, RowsDiffer DEF PlainRunHolds
<1>5. DbTyped' /\ Effect(m, "up", tx[p])
  <2>1. DbTyped' /\ Effect(job[p].m, job[p].way, tx[p])
    BY <1>1, <1>2, PublishTakesEffect
  <2>2. QED
    BY <2>1, <1>2, <1>3
<1>6. /\ Grows /\ LedgerFits' /\ done'[m]["up"] = done[m]["up"] \cup tx[p].work /\ Applied' = Applied
  BY <1>1, <1>2, <1>4, <1>5, EffectGrows
<1>7. PICK j : j = [job[p] EXCEPT !.auto = TRUE]
  OBVIOUS
<1>8. /\ j \in Jobs /\ j.auto = TRUE /\ j.at = job[p].at /\ j.down = job[p].down /\ j.up = job[p].up
      /\ j.target = job[p].target /\ j.files = job[p].files /\ j.m = job[p].m /\ j.way = job[p].way
  BY <1>2, <1>7 DEF Jobs
<1>9. job' \in [Procs -> Jobs] /\ job'[p] = j /\ (\A q \in Procs \ {p} : job'[q] = job[q])
  <2>1. job' = [job EXCEPT ![p] = j]
    BY <1>1, <1>7
  <2>2. QED
    BY <2>1, <1>2, <1>8 DEF Typed
<1>10. SameRun(p)
  BY <1>8, <1>9 DEF SameRun
<1>11. tx' \in [Procs -> Writes] /\ tx'[p] = Nothing /\ \A q \in Procs \ {p} : tx'[q] = tx[q]
  BY <1>1, <1>2, <1>4 DEF Typed
<1>12. StepOf(p) /\ OthersStay(p) /\ pc'[p] = "run"
  BY <1>1, <1>2, <1>9, <1>11 DEF StepOf, OthersStay, Typed
<1>13. Current(p)' = Current(p) /\ Version(p)' = Version(p)
  BY <1>10, SameRunSameScript DEF SameRun, Version
<1>14. All(p)' = All(p)
  BY <1>2, <1>3, <1>4, <1>6, <1>10, <1>11 DEF All, Did, SameRun
<1>15. PlainRunHolds(p)'
  BY <1>1, <1>2, <1>4, <1>6, <1>8, <1>9, <1>11, <1>12, <1>13, <1>14 DEF PlainRunHolds
<1>16. StillPlanned(p)'
  BY <1>1, <1>2, <1>6, <1>10, <1>12 DEF StillPlanned, SameRun
<1>17. AppliesFits(p)'
  BY <1>2, <1>10, <1>12, <1>15, <1>16 DEF AppliesFits, SameRun
<1>18. QED
  BY <1>5, <1>6, <1>12, <1>17, TogetherStep

LEMMA WriteEntryTogether ==
    ASSUME PlainUps, TogetherInv, NEW p \in Procs, WriteEntry(p)
    PROVE  TogetherInv'
<1>1. pc[p] = "entry" /\ pc' = [pc EXCEPT ![p] = "commit"] /\ LastSegment(p)
      /\ UNCHANGED <<transactional, disk, job, edits, failures>>
  BY DEF WriteEntry, Goto
<1>2. /\ Typed /\ PlainRunHolds(p) /\ StillPlanned(p) /\ tx[p] \in Writes /\ job[p].down = {}
      /\ EntryOf(p) = Version(p) /\ Version(p) \in Versions /\ job[p].way = "up" /\ job[p].m \in Migrations
      /\ Current(p) = UpScript[job[p].m][Version(p)]
  BY <1>1, TogetherRun
<1>3. PICK t : t = [tx[p] EXCEPT !.entry = EntryOf(p)]
  OBVIOUS
<1>4. t \in Writes /\ t.row = KeepRow /\ t.entry = Version(p) /\ t.work = tx[p].work
  BY <1>2, <1>3 DEF Writes, PlainRunHolds
<1>5. Write(p, t)
  BY <1>3 DEF WriteEntry, EntryOf
<1>6. t.entry # 0 /\ t.entry # Keep /\ Nothing.row = KeepRow /\ Nothing.entry = Keep
  BY <1>2, <1>4, RowsDiffer
<1>7. WorkOf(UpScript[job[p].m][t.entry], t.entry) \subseteq All(p) \cup t.work
  BY <1>1, <1>2, <1>4 DEF PlainRunHolds
<1>8. /\ DbTyped' /\ Grows /\ LedgerFits'
      /\ tx' \in [Procs -> Writes] /\ tx'[p] = (IF job[p].auto THEN Nothing ELSE t)
      /\ \A q \in Procs \ {p} : tx'[q] = tx[q]
      /\ done'[job[p].m]["up"] \cup tx'[p].work = done[job[p].m]["up"] \cup t.work
      /\ Applied' = (IF job[p].auto /\ t.entry # Keep THEN Applied \cup {job[p].m} ELSE Applied)
  BY <1>1, <1>4, <1>5, <1>6, <1>7, WriteTogether
<1>9. pc'[p] = "commit" /\ job'[p] = job[p] /\ StepOf(p) /\ OthersStay(p)
  BY <1>1, <1>2, <1>8 DEF StepOf, Typed, OthersStay
<1>10. /\ Current(p)' = Current(p) /\ EntryOf(p)' = EntryOf(p) /\ Version(p)' = Version(p)
       /\ (LastSegment(p)' <=> LastSegment(p))
  BY <1>9 DEF Current, Script, EntryOf, Version, LastSegment
<1>11. All(p)' = All(p)
  BY <1>2, <1>4, <1>8, <1>9 DEF All, Did
<1>12. PlainRunHolds(p)'
  <2>1. CASE job[p].auto
    BY <2>1, <1>1, <1>2, <1>6, <1>8, <1>9, <1>10, <1>11 DEF PlainRunHolds
  <2>2. CASE ~job[p].auto
    BY <2>2, <1>1, <1>2, <1>4, <1>6, <1>8, <1>9, <1>10, <1>11 DEF PlainRunHolds
  <2>3. QED
    BY <2>1, <2>2
<1>13. StillPlanned(p)'
  BY <1>1, <1>2, <1>8, <1>9 DEF StillPlanned
<1>14. AppliesFits(p)'
  BY <1>2, <1>9, <1>12, <1>13 DEF AppliesFits
<1>15. QED
  BY <1>8, <1>9, <1>14, TogetherStep

(* What COMMIT leaves: the migration is in the ledger.                     *)
LEMMA PublishTogether ==
    ASSUME PlainUps, TogetherInv, transactional => ApplyInv, NEW p \in Procs, pc[p] = "commit",
           Publish(p, tx[p]), transactional' = transactional
    PROVE  DbTyped' /\ Grows /\ LedgerFits' /\ Applied' = Applied \cup {job[p].m}
<1>1. /\ Typed /\ PlainRunHolds(p) /\ tx[p] \in Writes /\ EntryOf(p) = Version(p) /\ Version(p) \in Versions
      /\ Current(p) = UpScript[job[p].m][Version(p)]
      /\ job[p].way = "up" /\ job[p].m \in Migrations
  BY TogetherRun
<1>2. PICK m \in Migrations : m = job[p].m
  BY <1>1
<1>3. DbTyped' /\ Effect(m, "up", tx[p])
  <2>1. DbTyped' /\ Effect(job[p].m, job[p].way, tx[p])
    BY <1>1, PublishTakesEffect
  <2>2. QED
    BY <2>1, <1>1, <1>2
<1>4. Nothing.work = {} /\ Nothing.entry = Keep /\ Keep # 0 /\ Version(p) # Keep /\ Version(p) # 0
  BY <1>1, RowsDiffer
<1>5. CASE job[p].auto
  <2>1. tx[p] = Nothing /\ m \in Applied /\ tx[p].entry = Keep /\ tx[p].work = {}
    BY <1>1, <1>2, <1>4, <1>5 DEF PlainRunHolds
  <2>2. Grows /\ LedgerFits' /\ Applied' = IF tx[p].entry = Keep THEN Applied ELSE Applied \cup {m}
    BY <1>1, <1>3, <1>4, <2>1, EffectGrows
  <2>3. QED
    BY <1>2, <1>3, <2>1, <2>2
<1>6. CASE ~job[p].auto
  <2>1. tx[p].entry = Version(p) /\ 1..(m - 1) \subseteq Applied
    BY <1>1, <1>2, <1>6 DEF PlainRunHolds
  <2>2. WorkOf(Current(p), Version(p)) \subseteq done[m]["up"] \cup tx[p].work
    BY <1>1, <1>2 DEF PlainRunHolds, All, Did
  <2>3. ASSUME transactional PROVE done[m]["up"] = {} /\ tx[p].work \subseteq WorkOf(Current(p), Version(p))
    <3>1. ledger[m] = 0
      BY <2>3, <1>2 DEF ApplyInv, Applies
    <3>2. done[m]["up"] = {}
      BY <2>3, <3>1 DEF ApplyInv
    <3>3. QED
      BY <2>3, <3>2, <1>1 DEF PlainRunHolds
  <2>4. Holds(done[m]["up"] \cup tx[p].work, WorkOf(Current(p), Version(p)))
    BY <2>2, <2>3 DEF Holds
  <2>5. Holds(done[m]["up"] \cup tx[p].work, WorkOf(UpScript[m][tx[p].entry], tx[p].entry))
    BY <2>1, <2>4, <1>1, <1>2
  <2>6. Grows /\ LedgerFits' /\ Applied' = IF tx[p].entry = Keep THEN Applied ELSE Applied \cup {m}
    BY <1>1, <1>3, <1>4, <2>1, <2>5, EffectGrows
  <2>7. QED
    BY <1>2, <1>3, <1>4, <2>1, <2>6
<1>7. QED
  BY <1>5, <1>6

LEMMA CommitTogether ==
    ASSUME PlainUps, TogetherInv, transactional => ApplyInv, NEW p \in Procs, Commit(p)
    PROVE  TogetherInv'
<1>1. /\ pc[p] = "commit" /\ Publish(p, tx[p]) /\ tx' = [tx EXCEPT ![p] = Nothing] /\ Committed(p)
      /\ UNCHANGED <<transactional, disk, edits, failures>>
  BY DEF Commit
<1>2. /\ Typed /\ PlainRunHolds(p) /\ StillPlanned(p) /\ job[p].down = {} /\ Nothing \in Writes /\ KeepRow.cursor = 0
  BY <1>1, TogetherRun, RowsDiffer
<1>3. LastSegment(p) /\ ~(tx[p].row.cursor > 0)
  BY <1>1, <1>2 DEF PlainRunHolds
<1>4. pc' = [pc EXCEPT ![p] = "next"] /\ UNCHANGED job
  BY <1>1, <1>3 DEF Committed, Goto
<1>5. /\ StepOf(p) /\ OthersStay(p) /\ pc'[p] = "next" /\ tx'[p] = Nothing /\ job'[p] = job[p]
  BY <1>1, <1>2, <1>4 DEF StepOf, Typed, OthersStay
<1>6. DbTyped' /\ Grows /\ LedgerFits' /\ Applied' = Applied \cup {job[p].m}
  BY <1>1, PublishTogether
<1>7. StillPlanned(p)'
  BY <1>1, <1>2, <1>5, <1>6 DEF StillPlanned
<1>8. AppliesFits(p)'
  BY <1>2, <1>5, <1>7 DEF AppliesFits
<1>9. QED
  BY <1>5, <1>6, <1>8, TogetherStep

LEMMA CommitFailsTogether ==
    ASSUME PlainUps, TogetherInv, transactional => ApplyInv, NEW p \in Procs, CommitFails(p)
    PROVE  TogetherInv'
<1>1. Typed /\ Nothing \in Writes /\ NoJob \in Jobs
  BY NoJobIsTyped, RowsDiffer DEF TogetherInv
<1>2. /\ pc[p] = "commit" /\ (Publish(p, tx[p]) \/ UNCHANGED db)
      /\ pc' = [pc EXCEPT ![p] = "idle"] /\ job' = [job EXCEPT ![p] = NoJob]
      /\ tx' = [tx EXCEPT ![p] = Nothing]
      /\ UNCHANGED <<transactional, disk, edits>> /\ failures' \in 0..MaxFailures
  BY <1>1 DEF CommitFails, Leave, Goto, Typed
<1>3. StepOf(p) /\ OthersStay(p) /\ pc'[p] = "idle" /\ job'[p] = NoJob /\ tx'[p] = Nothing
  BY <1>1, <1>2 DEF StepOf, Typed, OthersStay
<1>4. AppliesFits(p)'
  BY <1>3 DEF AppliesFits, NoJob
<1>5. DbTyped' /\ Grows /\ LedgerFits'
  BY <1>2, PublishTogether, NothingGrows
<1>6. QED
  BY <1>3, <1>4, <1>5, TogetherStep

LEMMA NextTogether ==
    ASSUME PlainUps, NobodyRollsBack, TogetherInv, transactional => ApplyInv, [Next]_vars
    PROVE  TogetherInv'
<1>1. ASSUME UNCHANGED <<transactional, ledger, progress, done, repeats, pc, job, tx, failures>>,
             disk' \in [Migrations -> Files], edits' \in 0..MaxEdits
      PROVE  TogetherInv'
  <2>1. Applied' = Applied
    BY <1>1 DEF Applied
  <2>2. Typed' /\ LedgerFits'
    BY <1>1, <2>1 DEF TogetherInv, Typed, LedgerFits, Holds
  <2>3. ASSUME NEW p \in Procs PROVE AppliesFits(p)'
    <3>1. /\ Current(p)' = Current(p) /\ EntryOf(p)' = EntryOf(p) /\ Version(p)' = Version(p) /\ All(p)' = All(p)
      BY <1>1 DEF Current, Script, EntryOf, Version, All, Did
    <3>2. LastSegment(p)' <=> LastSegment(p)
      BY <1>1, <3>1 DEF LastSegment
    <3>3. (PlainRunHolds(p) => PlainRunHolds(p)') /\ (StillPlanned(p) => StillPlanned(p)')
      BY <1>1, <2>1, <3>1, <3>2 DEF PlainRunHolds, StillPlanned
    <3>4. QED
      BY <1>1, <3>3 DEF TogetherInv, AppliesFits
  <2>4. QED
    BY <2>2, <2>3 DEF TogetherInv
<1>2. CASE UNCHANGED vars
  BY <1>1, <1>2 DEF vars, TogetherInv, Typed
<1>3. ASSUME NEW p \in Procs, StartAny(p) \/ Advance(p) \/ CommitFails(p) \/ Interrupt(p)
      PROVE  TogetherInv'
  <2>1. ~Batch(p)
    <3>1. ASSUME Batch(p) PROVE FALSE
      <4>1. pc[p] = "run" /\ Current(p)[job[p].at] = "chunk"
        BY <3>1 DEF Batch
      <4>2. job[p].at \in DOMAIN Current(p)
        BY <4>1, TogetherRun DEF PlainRunHolds
      <4>3. QED
        BY <4>1, <4>2, TogetherRun
    <3>2. QED
      BY <3>1
  <2>2. ~ClearProgress(p)
    BY DEF ClearProgress, TogetherInv, AppliesFits
  <2>3. ~MoveProgress(p)
    BY DEF MoveProgress, TogetherInv, AppliesFits, PlainRunHolds
  <2>4. QED
    BY <1>3, <2>1, <2>2, <2>3, StartTogether, EndingTogether, BeginTogether, ImplicitCommitTogether,
       StatementTogether, WriteEntryTogether, CommitTogether, CommitFailsTogether DEF Advance
<1>4. ASSUME NEW m \in Migrations, NEW way \in EditWays, Edit(m, way)
      PROVE  TogetherInv'
  <2>1. Typed /\ disk \in [Migrations -> Files] /\ edits \in 0..MaxEdits
    BY DEF TogetherInv, Typed
  <2>2. disk' \in [Migrations -> Files] /\ edits' \in 0..MaxEdits
    BY <1>4, <2>1, EditIsTyped
  <2>3. UNCHANGED <<transactional, ledger, progress, done, repeats, pc, job, tx, failures>>
    BY <1>4 DEF Edit, db
  <2>4. QED
    BY <1>1, <2>2, <2>3
<1>5. QED
  BY <1>2, <1>3, <1>4 DEF Next

LEMMA TogetherBegins == Init => TogetherInv
<1> SUFFICES ASSUME Init PROVE TogetherInv
  OBVIOUS
<1>1. Typed /\ \A m \in Migrations : done[m]["up"] = {} /\ done[m]["down"] = {}
  BY InitHolds DEF PlanInv, Init, Ways
<1>2. Applied = {}
  BY DEF Init, Applied
<1>3. \A p \in Procs : pc[p] = "idle" /\ job[p] = NoJob /\ tx[p] = Nothing
  BY DEF Init
<1>4. \A p \in Procs : AppliesFits(p)
  BY <1>3 DEF AppliesFits, NoJob
<1>5. QED
  BY <1>1, <1>2, <1>4 DEF TogetherInv, LedgerFits

LEMMA TogetherAlways ==
    ASSUME PlainUps, NobodyRollsBack
    PROVE  Spec => [](TogetherInv /\ (transactional => ApplyInv))
<1> DEFINE Inv == TogetherInv /\ (transactional => ApplyInv)
<1>1. Init => Inv
  BY ApplyBegins, TogetherBegins
<1>2. Inv /\ [Next]_vars => Inv'
  BY NextApplies, KindStays, NextTogether
<1>3. QED
  BY <1>1, <1>2, PTL DEF Spec

(* Processes that apply the same plain migrations at once, with DDL of     *)
(* either kind, any number of them, however they are interrupted and       *)
(* whatever is edited between their starts: apply reads the ledger once    *)
(* and takes no lock across its runs (migrate.rs), and still every report  *)
(* returned finds its target applied, the ledger has no hole, every row    *)
(* tells the work done, and where DDL is transactional nothing runs twice. *)
THEOREM ManyAppliersAgree ==
    ASSUME PlainUps, NobodyRollsBack
    PROVE  Spec => []AppliersAgree
<1> DEFINE Inv == TogetherInv /\ (transactional => ApplyInv)
<1>1. Inv => AppliersAgree
  <2> SUFFICES ASSUME Inv PROVE AppliersAgree
    OBVIOUS
  <2>1. NothingRepeated
    BY DEF NothingRepeated, ApplyInv
  <2>2. TargetIsApplied
    <3>1. \A m \in Applied : 1..m \subseteq Applied
      BY DEF TogetherInv, LedgerFits
    <3>2. ASSUME NEW p \in Procs, pc[p] = "next", job[p].down \cup job[p].up = {}
          PROVE  job[p].target \subseteq Applied
      BY <3>2 DEF TogetherInv, AppliesFits, StillPlanned
    <3>3. QED
      BY <3>1, <3>2 DEF TargetIsApplied
  <2>3. LedgerMatchesWork
    <3>1. ASSUME NEW m \in Migrations
          PROVE  /\ done[m]["down"] = {}
                 /\ m \in Applied => Holds(done[m]["up"], WorkOf(UpScript[m][ledger[m]], ledger[m]))
      BY DEF TogetherInv, LedgerFits
    <3>2. ASSUME NEW m \in Migrations
          PROVE  LET wanted == IF m \in Applied THEN WorkOf(UpScript[m][ledger[m]], ledger[m])
                               ELSE WorkOf(DownScript[m][disk[m].down], disk[m].down)
                     did == done[m][IF m \in Applied THEN "up" ELSE "down"]
                 IN  /\ wanted \subseteq did \/ (m \notin Applied /\ did = {})
                     /\ transactional => did \subseteq wanted
      <4>1. CASE m \in Applied
        BY <3>1, <4>1 DEF Holds
      <4>2. CASE m \notin Applied
        BY <3>1, <4>2
      <4>3. QED
        BY <4>1, <4>2
    <3>3. QED
      BY <3>2 DEF LedgerMatchesWork
  <2>4. QED
    BY <2>1, <2>2, <2>3 DEF AppliersAgree
<1>2. Spec => []Inv
  BY TogetherAlways
<1>3. QED
  BY <1>1, <1>2, PTL
================================================================================
