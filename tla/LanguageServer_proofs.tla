-------------------------- MODULE LanguageServer_proofs --------------------------
(* What LanguageServer promises of the published diagnostics and of the answers,   *)
(* proved for every tree of files, every number of handlers and every session.     *)
EXTENDS LanguageServer, SequenceTheorems, WellFoundedInduction, TLAPS

USE LanguageServerAssumption

\* ------------------------------------------------------------- the inductive invariant
\* Owner under manifests that need not be the present ones.
MarkedIn(ms, f) == {i \in DOMAIN Above[f] : ms[Above[f][i]] # "none"}
OwnerIn(ms, f) == IF MarkedIn(ms, f) = {} THEN f ELSE Above[f][Min(MarkedIn(ms, f))]
OutsideIn(ms, f) == OwnerIn(ms, f) \in Dirs /\ ms[OwnerIn(ms, f)] \in Dirs \ Range(Above[f])

Buffers == UNION {[D -> Texts] : D \in SUBSET Files}
Notice == [kind : {"text", "save", "close"}, file : Files, text : {0} \cup Texts]
Publication == [file : Files, key : Files \cup Dirs, texts : Buffers]
PendingType == [pubs : SUBSET Publication, stale : SUBSET Files]

Typed ==
    /\ disk \in [Files -> {0} \cup Texts] /\ manifests \in [Dirs -> Manifests]
    /\ overlays \in Buffers /\ editor \in Buffers /\ published \subseteq Files
    /\ inbox \in Seq(Notice) /\ \A i \in 1..Len(inbox) : inbox[i].kind = "text" => inbox[i].text # 0
    /\ events \in 0..MaxEvents /\ pending \in [Handlers -> PendingType] /\ DOMAIN shown = Files
    /\ Len(inbox) <= MaxInbox
    /\ \A k \in DOMAIN snapshots : snapshots[k] \in Buffers

\* A notification that sets what the server takes the buffer of a file to be.
Speaks(n, f) == n.file = f /\ n.kind # "save"
Tells(texts, n, f) ==
    IF n.kind = "text" THEN f \in DOMAIN texts /\ texts[f] = n.text ELSE f \notin DOMAIN texts
Agree(f) ==
    /\ f \in DOMAIN overlays <=> f \in DOMAIN editor
    /\ f \in DOMAIN editor => overlays[f] = editor[f]

\* The last notification about a buffer on its way tells what the editor holds; with none on
\* its way the server's copy does.
InboxTells ==
    \A f \in Files :
       /\ (\A i \in 1..Len(inbox) : ~Speaks(inbox[i], f)) => Agree(f)
       /\ \A i \in 1..Len(inbox) :
             Speaks(inbox[i], f) /\ (\A j \in 1..Len(inbox) : j > i => ~Speaks(inbox[j], f)) => Tells(editor, inbox[i], f)

SaveComes(f) == \E i \in 1..Len(inbox) : inbox[i].file = f /\ inbox[i].kind = "save"

\* The snapshots are those of the last refresh, made from the buffers as they still are; a
\* file saved since then has its notification on the way.
SnapshotsFit ==
    /\ DOMAIN snapshots = {OwnerIn(seen, f) : f \in DOMAIN overlays}
    /\ \A k \in DOMAIN snapshots : \A f \in DOMAIN snapshots[k] :
          f \in DOMAIN overlays => snapshots[k][f] = overlays[f]
    /\ \A f \in DOMAIN overlays :
          disk[f] # 0 /\ ~SaveComes(f) /\ ~OutsideIn(seen, f) => f \in DOMAIN snapshots[OwnerIn(seen, f)]

\* What the last refresh would have the editor show for a file.
Newest(f) == [key |-> OwnerIn(seen, f), texts |-> snapshots[OwnerIn(seen, f)]]

\* After a refresh that began alone every publish under way is its own.
ShownFits ==
    /\ ~overlapped => alone
    /\ alone =>
          /\ \A h \in Handlers :
                /\ \A p \in pending[h].pubs :
                      p.file \in published /\ [key |-> p.key, texts |-> p.texts] = Newest(p.file)
                /\ pending[h].stale \cap published = {}
          /\ \A f \in published :
                shown[f] = Newest(f) \/ \E h \in Handlers : \E p \in pending[h].pubs : p.file = f
    /\ ~overlapped =>
          \A f \in Files \ published : shown[f] = Nothing \/ \E h \in Handlers : f \in pending[h].stale

Inv == Typed /\ InboxTells /\ SnapshotsFit /\ PublishedOnce /\ ShownFits

\* ------------------------------------------------------------------ projects and sources
\* A set of numbers that is not empty has its least member, as Min says.
LEMMA LeastIsThere ==
    ASSUME NEW S \in SUBSET Nat, S # {}
    PROVE  Min(S) \in S
<1> DEFINE Less == {ss \in Nat \X Nat : ss[1] < ss[2]}
<1>1. IsWellFoundedOn(Less, Nat)
  BY NatLessThanWellFounded DEF OpToRel
<1>2. PICK x \in S : \A y \in S : ~(<<y, x>> \in Less)
  BY <1>1, WFMin
<1>3. ASSUME NEW y \in S PROVE x =< y
  <2>1. x \in Nat /\ y \in Nat
    OBVIOUS
  <2>2. CASE y < x
    <3>1. <<y, x>> \in Less
      BY <2>1, <2>2
    <3>2. QED
      BY <3>1, <1>2
  <2>3. QED
    BY <2>1, <2>2
<1>4. QED
  BY <1>3 DEF Min

\* A file is its own project, or a directory above it is.
LEMMA OwnerIsAbove ==
    ASSUME NEW ms, NEW f \in Files
    PROVE  OwnerIn(ms, f) = f \/ OwnerIn(ms, f) \in Range(Above[f]) \cap Dirs
<1>1. Above[f] \in Seq(Dirs)
  OBVIOUS
<1>2. CASE MarkedIn(ms, f) = {}
  BY <1>2 DEF OwnerIn
<1>3. CASE MarkedIn(ms, f) # {}
  <2>1. DOMAIN Above[f] \subseteq Nat /\ MarkedIn(ms, f) \in SUBSET Nat
    BY <1>1 DEF MarkedIn
  <2>2. Min(MarkedIn(ms, f)) \in MarkedIn(ms, f)
    BY <2>1, <1>3, LeastIsThere
  <2>3. Min(MarkedIn(ms, f)) \in DOMAIN Above[f]
    BY <2>2 DEF MarkedIn
  <2>4. OwnerIn(ms, f) = Above[f][Min(MarkedIn(ms, f))]
    BY <1>3 DEF OwnerIn
  <2>5. QED
    BY <1>1, <2>3, <2>4 DEF Range
<1>4. QED
  BY <1>2, <1>3

LEMMA OwnerNow ==
    ASSUME NEW f \in Files
    PROVE  Owner(f) = OwnerIn(manifests, f)
BY DEF Owner, OwnerIn, Marked, MarkedIn

LEMMA OutsideNow ==
    ASSUME NEW f \in Files
    PROVE  OutsideRoot(f) <=> OutsideIn(manifests, f)
BY OwnerNow DEF OutsideRoot, OutsideIn

\* A manifest whose `root` is a directory discovers the files on disk below it, any other none.
LEMMA DiscoverIsBelowRoot ==
    ASSUME NEW d
    PROVE  /\ Discover(d) \subseteq Files /\ \A f \in Discover(d) : disk[f] # 0
           /\ manifests[d] \notin Dirs => Discover(d) = {}
           /\ \A f \in Files : manifests[d] \in Range(Above[f]) /\ disk[f] # 0 => f \in Discover(d)
<1>1. Discover(d) = {f \in Files : manifests[d] \in Range(Above[f]) /\ disk[f] # 0}
  BY DEF Discover
<1>2. ASSUME NEW f \in Files PROVE Range(Above[f]) \subseteq Dirs
  <2>1. Above[f] \in Seq(Dirs)
    OBVIOUS
  <2>2. QED
    BY <2>1 DEF Range
<1>3. QED
  BY <1>1, <1>2

\* A project compiles files that are on disk or open, and among them each open one that it
\* owns and that is on disk, unless its `root` leaves the file out.
LEMMA SourcesAreThere ==
    ASSUME Typed, NEW buffers \in Buffers, NEW key \in {Owner(f) : f \in DOMAIN buffers}
    PROVE  /\ Sources(key, DOMAIN buffers) \subseteq Files
           /\ \A f \in Sources(key, DOMAIN buffers) : f \in DOMAIN buffers \/ disk[f] # 0
           /\ \A f \in DOMAIN buffers :
                 Owner(f) = key /\ disk[f] # 0 /\ ~OutsideIn(manifests, f) => f \in Sources(key, DOMAIN buffers)
<1> DEFINE open == DOMAIN buffers
<1>1. open \subseteq Files
  BY DEF Buffers
<1>2. ASSUME NEW f \in open, Owner(f) = key
      PROVE  f = key \/ (key \in Range(Above[f]) /\ key \in Dirs)
  BY <1>1, <1>2, OwnerNow, OwnerIsAbove
<1>3. PICK g \in open : Owner(g) = key
  OBVIOUS
<1>4. CASE key \in Files
  <2>1. Sources(key, open) = {key}
    BY <1>4 DEF Sources
  <2>2. \A f \in open : Owner(f) = key => f = key
    BY <1>2, <1>4
  <2>3. key \in open
    BY <2>2, <1>3
  <2>4. QED
    BY <2>1, <2>2, <2>3, <1>4
<1>5. CASE key \notin Files
  <2>1. CASE Discover(key) # {}
    <3>1. Sources(key, open) = Discover(key)
      BY <1>5, <2>1 DEF Sources
    <3>2. ASSUME NEW f \in open, Owner(f) = key, disk[f] # 0, ~OutsideIn(manifests, f)
          PROVE  f \in Discover(key)
      <4>1. key \in Dirs /\ key = OwnerIn(manifests, f)
        BY <1>1, <1>2, <1>5, <3>2, OwnerNow
      <4>2. manifests[key] \in Dirs
        BY <2>1, DiscoverIsBelowRoot
      <4>3. manifests[key] \in Range(Above[f])
        BY <4>1, <4>2, <3>2 DEF OutsideIn
      <4>4. QED
        BY <4>3, <3>2, <1>1, DiscoverIsBelowRoot
    <3>3. QED
      BY <3>1, <3>2, DiscoverIsBelowRoot
  <2>2. CASE Discover(key) = {}
    <3>1. Sources(key, open) = {f \in open : Owner(f) = key}
      BY <1>5, <2>2 DEF Sources
    <3>2. QED
      BY <3>1, <1>1
  <2>3. QED
    BY <2>1, <2>2
<1>6. QED
  BY <1>4, <1>5

\* What a refresh takes for its snapshots, of the buffers it is given.
Fresh(snaps, buffers) ==
    /\ DOMAIN snaps = {OwnerIn(manifests, f) : f \in DOMAIN buffers}
    /\ \A k \in DOMAIN snaps : snaps[k] \in Buffers
    /\ \A k \in DOMAIN snaps : \A f \in DOMAIN snaps[k] : f \in DOMAIN buffers => snaps[k][f] = buffers[f]
    /\ \A f \in DOMAIN buffers :
          disk[f] # 0 /\ ~OutsideIn(manifests, f) => f \in DOMAIN snaps[OwnerIn(manifests, f)]

LEMMA CompiledIsFresh ==
    ASSUME Typed, NEW buffers \in Buffers
    PROVE  Fresh(Compiled(buffers), buffers)
<1> DEFINE snaps == Compiled(buffers)
           open == DOMAIN buffers
<1>1. open \subseteq Files /\ \A f \in open : buffers[f] \in Texts
  BY DEF Buffers
<1>2. \A f \in open : Owner(f) = OwnerIn(manifests, f)
  BY <1>1, OwnerNow
<1>3. DOMAIN snaps = {Owner(f) : f \in open} /\ \A k \in DOMAIN snaps : snaps[k] = Compile(k, buffers)
  BY DEF Compiled
<1>4. DOMAIN snaps = {OwnerIn(manifests, f) : f \in open}
  BY <1>2, <1>3
<1>5. ASSUME NEW k \in DOMAIN snaps
      PROVE  /\ snaps[k] \in Buffers
             /\ \A f \in DOMAIN snaps[k] : f \in open => snaps[k][f] = buffers[f]
             /\ \A f \in open :
                   Owner(f) = k /\ disk[f] # 0 /\ ~OutsideIn(manifests, f) => f \in DOMAIN snaps[k]
  <2>1. snaps[k] = [f \in Sources(k, open) |-> IF f \in open THEN buffers[f] ELSE disk[f]]
    BY <1>3 DEF Compile
  <2>2. /\ Sources(k, open) \subseteq Files
        /\ \A f \in Sources(k, open) : f \in open \/ disk[f] # 0
        /\ \A f \in open :
              Owner(f) = k /\ disk[f] # 0 /\ ~OutsideIn(manifests, f) => f \in Sources(k, open)
    BY <1>3, SourcesAreThere
  <2>3. \A f \in Files : disk[f] # 0 => disk[f] \in Texts
    BY DEF Typed
  <2>4. snaps[k] \in [Sources(k, open) -> Texts]
    BY <2>1, <2>2, <2>3, <1>1
  <2>5. snaps[k] \in Buffers
    BY <2>2, <2>4 DEF Buffers
  <2>6. QED
    BY <2>1, <2>2, <2>5
<1>6. ASSUME NEW f \in open, disk[f] # 0, ~OutsideIn(manifests, f)
      PROVE  f \in DOMAIN snaps[OwnerIn(manifests, f)]
  <2>1. Owner(f) \in DOMAIN snaps
    BY <1>3
  <2>2. f \in DOMAIN snaps[Owner(f)]
    BY <2>1, <1>5, <1>6
  <2>3. QED
    BY <2>2, <1>2
<1>7. QED
  BY <1>4, <1>5, <1>6 DEF Fresh

\* A file is published once, from the project that owns it, with what that project compiled.
LEMMA PublishesFromOwners ==
    ASSUME Typed, NEW buffers \in Buffers, NEW snaps, Fresh(snaps, buffers)
    PROVE  \A p \in Publishes(snaps) :
              /\ p \in Publication
              /\ p = [file |-> p.file, key |-> OwnerIn(manifests, p.file), texts |-> snaps[OwnerIn(manifests, p.file)]]
<1> SUFFICES ASSUME NEW p \in Publishes(snaps)
             PROVE  /\ p \in Publication
                    /\ p = [file |-> p.file, key |-> OwnerIn(manifests, p.file),
                            texts |-> snaps[OwnerIn(manifests, p.file)]]
  OBVIOUS
<1>1. PICK k \in DOMAIN snaps : \E f \in {g \in DOMAIN snaps[k] : Owner(g) = k} :
         p = [file |-> f, key |-> k, texts |-> snaps[k]]
  BY DEF Publishes
<1>2. PICK f \in DOMAIN snaps[k] : Owner(f) = k /\ p = [file |-> f, key |-> k, texts |-> snaps[k]]
  BY <1>1
<1>3. snaps[k] \in Buffers
  BY DEF Fresh
<1>4. f \in Files
  BY <1>3, <1>2 DEF Buffers
<1>5. k = OwnerIn(manifests, f) /\ k \in Files \cup Dirs
  BY <1>2, <1>4, OwnerNow, OwnerIsAbove
<1>6. p.file = f
  BY <1>2
<1>7. p \in Publication
  BY <1>2, <1>3, <1>4, <1>5 DEF Publication
<1>8. QED
  BY <1>2, <1>5, <1>6, <1>7

\* ------------------------------------------------------------------------- what users do
LEMMA StartsWell == Init => Inv
<1> SUFFICES ASSUME Init PROVE Inv
  OBVIOUS
<1>1. <<>> \in [{} -> Texts] /\ DOMAIN << >> = {}
  OBVIOUS
<1>2. <<>> \in Buffers
  BY <1>1 DEF Buffers
<1>3. Idle \in PendingType
  BY DEF Idle, PendingType
<1>4. inbox \in Seq(Notice) /\ Len(inbox) = 0 /\ 1..Len(inbox) = {}
  BY DEF Init
<1>5. disk \in [Files -> {0} \cup Texts]
  BY DEF Init, Texts
<1>6. Typed
  BY <1>1, <1>2, <1>3, <1>4, <1>5 DEF Init, Typed, Manifests
<1>7. InboxTells
  BY <1>1, <1>4 DEF Init, InboxTells, Agree
<1>8. SnapshotsFit
  BY <1>1 DEF Init, SnapshotsFit
<1>9. \A h \in Handlers : pending[h].pubs = {} /\ pending[h].stale = {}
  BY DEF Init, Idle
<1>10. PublishedOnce
  BY <1>9 DEF PublishedOnce
<1>11. ShownFits
  BY <1>9 DEF Init, ShownFits
<1>12. QED
  BY <1>6, <1>7, <1>8, <1>10, <1>11 DEF Inv

\* A notification goes to the end of the queue.
LEMMA SentIsLast ==
    ASSUME Typed, NEW n \in Notice, Sends(n)
    PROVE  /\ inbox' \in Seq(Notice) /\ Len(inbox') = Len(inbox) + 1 /\ Len(inbox') <= MaxInbox
           /\ Len(inbox) \in Nat /\ inbox'[Len(inbox) + 1] = n
           /\ \A i \in 1..Len(inbox) : inbox'[i] = inbox[i]
           /\ 1..Len(inbox') = 1..Len(inbox) \cup {Len(inbox) + 1}
<1>1. inbox \in Seq(Notice) /\ Len(inbox) \in Nat /\ Len(inbox) < MaxInbox /\ inbox' = Append(inbox, n)
  BY DEF Typed, Sends
<1>2. Len(inbox') = Len(inbox) + 1 /\ inbox' \in Seq(Notice) /\ inbox'[Len(inbox) + 1] = n
  BY <1>1
<1>3. \A i \in 1..Len(inbox) : inbox'[i] = inbox[i]
  BY <1>1
<1>4. QED
  BY <1>1, <1>2, <1>3

\* What is sent about a buffer tells what the editor then holds, and nothing else changes.
SaysSo(n) ==
    \A f \in Files :
       IF Speaks(n, f) THEN Tells(editor', n, f)
       ELSE (f \in DOMAIN editor' <=> f \in DOMAIN editor) /\ (f \in DOMAIN editor => editor'[f] = editor[f])

LEMMA SendingTells ==
    ASSUME Typed, InboxTells, NEW n \in Notice, Sends(n), SaysSo(n), overlays' = overlays
    PROVE  InboxTells'
<1> SUFFICES ASSUME NEW f \in Files
             PROVE  /\ (\A i \in 1..Len(inbox') : ~Speaks(inbox'[i], f)) => Agree(f)'
                    /\ \A i \in 1..Len(inbox') :
                          Speaks(inbox'[i], f) /\ (\A j \in 1..Len(inbox') : j > i => ~Speaks(inbox'[j], f))
                             => Tells(editor', inbox'[i], f)
  BY DEF InboxTells, Speaks
<1>1. PICK last \in Nat : last = Len(inbox)
  BY SentIsLast
<1>2. /\ 1..Len(inbox') = 1..last \cup {last + 1} /\ inbox'[last + 1] = n
      /\ \A i \in 1..last : inbox'[i] = inbox[i]
  BY <1>1, SentIsLast
<1>3. /\ (\A i \in 1..last : ~Speaks(inbox[i], f)) => Agree(f)
      /\ \A i \in 1..last :
            Speaks(inbox[i], f) /\ (\A j \in 1..last : j > i => ~Speaks(inbox[j], f)) => Tells(editor, inbox[i], f)
  BY <1>1 DEF InboxTells
<1>4. CASE Speaks(n, f)
  <2>1. Tells(editor', n, f)
    BY <1>4 DEF SaysSo
  <2>2. ~(\A i \in 1..Len(inbox') : ~Speaks(inbox'[i], f))
    BY <1>2, <1>4
  <2>3. ASSUME NEW i \in 1..Len(inbox'), \A j \in 1..Len(inbox') : j > i => ~Speaks(inbox'[j], f)
        PROVE  inbox'[i] = n
    <3>1. last + 1 \in 1..Len(inbox') /\ ~(last + 1 > i)
      BY <1>2, <1>4, <2>3
    <3>2. i = last + 1
      BY <1>2, <3>1
    <3>3. QED
      BY <3>2, <1>2
  <2>4. ASSUME NEW i \in 1..Len(inbox'), \A j \in 1..Len(inbox') : j > i => ~Speaks(inbox'[j], f)
        PROVE  Tells(editor', inbox'[i], f)
    <3>1. inbox'[i] = n
      BY <2>3, <2>4
    <3>2. QED
      BY <3>1, <2>1 DEF Tells
  <2>5. QED
    BY <2>2, <2>4
<1>5. CASE ~Speaks(n, f)
  <2>1. (f \in DOMAIN editor' <=> f \in DOMAIN editor) /\ (f \in DOMAIN editor => editor'[f] = editor[f])
    BY <1>5 DEF SaysSo
  <2>2. ASSUME \A i \in 1..Len(inbox') : ~Speaks(inbox'[i], f)
        PROVE  Agree(f)'
    <3>1. \A i \in 1..last : ~Speaks(inbox[i], f)
      BY <2>2, <1>2
    <3>2. Agree(f)
      BY <3>1, <1>3
    <3>3. QED
      BY <3>2, <2>1 DEF Agree
  <2>3. ASSUME NEW i \in 1..Len(inbox'), Speaks(inbox'[i], f),
               \A j \in 1..Len(inbox') : j > i => ~Speaks(inbox'[j], f)
        PROVE  Tells(editor', inbox'[i], f)
    <3>1. i \in 1..last /\ inbox'[i] = inbox[i]
      BY <1>2, <1>5, <2>3
    <3>2. \A j \in 1..last : j > i => ~Speaks(inbox[j], f)
      BY <2>3, <1>2
    <3>3. Tells(editor, inbox[i], f)
      BY <3>1, <3>2, <2>3, <1>3
    <3>4. QED
      BY <3>1, <3>3, <2>1 DEF Tells
  <2>4. QED
    BY <2>2, <2>3
<1>6. QED
  BY <1>4, <1>5

\* A text comes to the disk only with a save on its way.
LEMMA SendingFits ==
    ASSUME Typed, SnapshotsFit, NEW n \in Notice, Sends(n),
           disk' = disk \/ (n.kind = "save" /\ disk' = [disk EXCEPT ![n.file] = editor[n.file]]),
           UNCHANGED <<overlays, snapshots, seen>>
    PROVE  SnapshotsFit'
<1>1. ASSUME NEW f, SaveComes(f) PROVE SaveComes(f)'
  <2>1. PICK i \in 1..Len(inbox) : inbox[i].file = f /\ inbox[i].kind = "save"
    BY <1>1 DEF SaveComes
  <2>2. i \in 1..Len(inbox') /\ inbox'[i] = inbox[i]
    BY SentIsLast
  <2>3. QED
    BY <2>1, <2>2 DEF SaveComes
<1>2. n.kind = "save" => SaveComes(n.file)'
  <2>1. Len(inbox) + 1 \in 1..Len(inbox') /\ inbox'[Len(inbox) + 1] = n
    BY SentIsLast
  <2>2. QED
    BY <2>1 DEF SaveComes
<1>3. ASSUME NEW f \in DOMAIN overlays', disk'[f] # 0, ~SaveComes(f)', ~OutsideIn(seen, f)
      PROVE  f \in DOMAIN snapshots'[OwnerIn(seen', f)]
  <2>1. disk'[f] = disk[f]
    <3>1. disk \in [Files -> {0} \cup Texts] /\ (n.kind = "save" => f # n.file)
      BY <1>2, <1>3 DEF Typed
    <3>2. f \in Files /\ n.file \in Files
      BY DEF Typed, Buffers, Notice
    <3>3. CASE disk' = disk
      BY <3>3
    <3>4. CASE n.kind = "save" /\ disk' = [disk EXCEPT ![n.file] = editor[n.file]]
      BY <3>1, <3>2, <3>4
    <3>5. QED
      BY <3>3, <3>4
  <2>2. f \in DOMAIN overlays /\ disk[f] # 0 /\ ~SaveComes(f)
    BY <1>1, <1>3, <2>1
  <2>3. f \in DOMAIN snapshots[OwnerIn(seen, f)]
    BY <2>2, <1>3 DEF SnapshotsFit
  <2>4. QED
    BY <2>3
<1>4. QED
  BY <1>3 DEF SnapshotsFit

ServerStays == UNCHANGED <<overlays, snapshots, published, pending, shown, seen, alone, overlapped>>

LEMMA SendingKeeps ==
    ASSUME Inv, NEW n \in Notice, Sends(n), SaysSo(n), n.kind = "text" => n.text # 0,
           disk' = disk \/ (n.kind = "save" /\ disk' = [disk EXCEPT ![n.file] = editor[n.file]]),
           disk' \in [Files -> {0} \cup Texts], editor' \in Buffers, events' \in 0..MaxEvents,
           manifests' = manifests, ServerStays
    PROVE  Inv'
<1>1. Typed /\ InboxTells /\ SnapshotsFit /\ PublishedOnce /\ ShownFits
  BY DEF Inv
<1>2. UNCHANGED <<overlays, snapshots, published, pending, shown, seen, alone, overlapped>>
  BY DEF ServerStays
<1>3. Typed'
  <2>1. ASSUME NEW i \in 1..Len(inbox'), inbox'[i].kind = "text" PROVE inbox'[i].text # 0
    <3>1. \A j \in 1..Len(inbox) : inbox[j].kind = "text" => inbox[j].text # 0
      BY <1>1 DEF Typed
    <3>2. \/ i = Len(inbox) + 1 /\ inbox'[i] = n
          \/ i \in 1..Len(inbox) /\ inbox'[i] = inbox[i]
      <4>1. /\ 1..Len(inbox') = 1..Len(inbox) \cup {Len(inbox) + 1} /\ inbox'[Len(inbox) + 1] = n
            /\ \A j \in 1..Len(inbox) : inbox'[j] = inbox[j]
        BY <1>1, SentIsLast
      <4>2. QED
        BY <4>1
    <3>3. QED
      BY <2>1, <3>1, <3>2
  <2>2. inbox' \in Seq(Notice) /\ Len(inbox') <= MaxInbox
    BY <1>1, SentIsLast
  <2>3. QED
    BY <1>1, <1>2, <2>1, <2>2 DEF Typed
<1>4. InboxTells'
  BY <1>1, <1>2, SendingTells
<1>5. SnapshotsFit'
  BY <1>1, <1>2, SendingFits
<1>6. PublishedOnce'
  BY <1>1, <1>2 DEF PublishedOnce
<1>7. ShownFits'
  BY <1>1, <1>2 DEF ShownFits, Newest
<1>8. QED
  BY <1>3, <1>4, <1>5, <1>6, <1>7 DEF Inv

LEMMA ActsAreCounted ==
    ASSUME Typed, Acts
    PROVE  events' \in 0..MaxEvents /\ events + 1 \in Texts /\ events + 1 # 0
BY DEF Typed, Acts, Texts

\* What the editor holds is what it sends.
LEMMA TypesKeeps ==
    ASSUME Inv, NEW f \in Files, Types(f), ServerStays
    PROVE  Inv'
<1> DEFINE n == [kind |-> "text", file |-> f, text |-> events + 1]
<1>1. Typed
  BY DEF Inv
<1>2. events' \in 0..MaxEvents /\ events + 1 \in Texts /\ events + 1 # 0
  BY <1>1, ActsAreCounted DEF Types
<1>3. Sends(n) /\ UNCHANGED <<disk, manifests>>
      /\ editor' = [g \in DOMAIN editor \cup {f} |-> IF g = f THEN events + 1 ELSE editor[g]]
  BY DEF Types
<1>4. n \in Notice /\ n.kind = "text" /\ n.text = events + 1 /\ n.file = f
  BY <1>2 DEF Notice
<1>5. DOMAIN editor \subseteq Files /\ editor \in [DOMAIN editor -> Texts]
  BY <1>1 DEF Typed, Buffers
<1>6. editor' \in [DOMAIN editor \cup {f} -> Texts]
  BY <1>2, <1>3, <1>5
<1>7. editor' \in Buffers
  BY <1>5, <1>6 DEF Buffers
<1>8. SaysSo(n)
  BY <1>3, <1>4, <1>5 DEF SaysSo, Speaks, Tells
<1>9. disk' \in [Files -> {0} \cup Texts]
  BY <1>1, <1>3 DEF Typed
<1> HIDE DEF n
<1>10. QED
  BY <1>2, <1>3, <1>4, <1>7, <1>8, <1>9, SendingKeeps

LEMMA OpensKeeps ==
    ASSUME Inv, NEW f \in Files, Opens(f), ServerStays
    PROVE  Inv'
<1> DEFINE n == [kind |-> "text", file |-> f, text |-> disk[f]]
<1>1. Typed
  BY DEF Inv
<1>2. events' \in 0..MaxEvents
  BY <1>1, ActsAreCounted DEF Opens
<1>3. Sends(n) /\ UNCHANGED <<disk, manifests>> /\ disk[f] # 0
      /\ editor' = [g \in DOMAIN editor \cup {f} |-> IF g = f THEN disk[f] ELSE editor[g]]
  BY DEF Opens
<1>4. disk \in [Files -> {0} \cup Texts]
  BY <1>1 DEF Typed
<1>5. disk[f] \in Texts
  BY <1>3, <1>4
<1>6. n \in Notice /\ n.kind = "text" /\ n.text = disk[f] /\ n.file = f
  BY <1>5 DEF Notice
<1>7. DOMAIN editor \subseteq Files /\ editor \in [DOMAIN editor -> Texts]
  BY <1>1 DEF Typed, Buffers
<1>8. editor' \in [DOMAIN editor \cup {f} -> Texts]
  BY <1>3, <1>5, <1>7
<1>9. editor' \in Buffers
  BY <1>7, <1>8 DEF Buffers
<1>10. SaysSo(n)
  BY <1>3, <1>6, <1>7 DEF SaysSo, Speaks, Tells
<1>11. disk' \in [Files -> {0} \cup Texts]
  BY <1>3, <1>4
<1> HIDE DEF n
<1>12. QED
  BY <1>2, <1>3, <1>6, <1>9, <1>10, <1>11, SendingKeeps

LEMMA SavesKeeps ==
    ASSUME Inv, NEW f \in Files, Saves(f), ServerStays
    PROVE  Inv'
<1> DEFINE n == [kind |-> "save", file |-> f, text |-> 0]
<1>1. Typed
  BY DEF Inv
<1>2. events' \in 0..MaxEvents
  BY <1>1, ActsAreCounted DEF Saves
<1>3. Sends(n) /\ UNCHANGED <<editor, manifests>> /\ disk' = [disk EXCEPT ![f] = editor[f]] /\ f \in DOMAIN editor
  BY DEF Saves
<1>4. n \in Notice /\ n.kind = "save" /\ n.file = f
  BY DEF Notice
<1>5. editor[f] \in Texts /\ editor' \in Buffers
  BY <1>1, <1>3 DEF Typed, Buffers
<1>6. disk' \in [Files -> {0} \cup Texts]
  BY <1>1, <1>3, <1>5 DEF Typed
<1>7. SaysSo(n)
  BY <1>3, <1>4 DEF SaysSo, Speaks
<1>8. n.kind = "save" /\ disk' = [disk EXCEPT ![n.file] = editor[n.file]]
  BY <1>3, <1>4
<1>9. n.kind # "text"
  BY <1>4
<1> HIDE DEF n
<1>10. QED
  BY <1>2, <1>3, <1>4, <1>5, <1>6, <1>7, <1>8, <1>9, SendingKeeps

LEMMA ClosesKeeps ==
    ASSUME Inv, NEW f \in Files, Closes(f), ServerStays
    PROVE  Inv'
<1> DEFINE n == [kind |-> "close", file |-> f, text |-> 0]
<1>1. Typed
  BY DEF Inv
<1>2. events' \in 0..MaxEvents
  BY <1>1, ActsAreCounted DEF Closes
<1>3. Sends(n) /\ UNCHANGED <<disk, manifests>>
      /\ editor' = [g \in DOMAIN editor \ {f} |-> editor[g]]
  BY DEF Closes, Restrict
<1>4. n \in Notice /\ n.kind = "close" /\ n.file = f
  BY DEF Notice
<1>5. DOMAIN editor \subseteq Files /\ editor \in [DOMAIN editor -> Texts]
  BY <1>1 DEF Typed, Buffers
<1>6. editor' \in [DOMAIN editor \ {f} -> Texts]
  BY <1>3, <1>5
<1>7. editor' \in Buffers
  BY <1>5, <1>6 DEF Buffers
<1>8. SaysSo(n)
  BY <1>3, <1>4, <1>5 DEF SaysSo, Speaks, Tells
<1>9. disk' \in [Files -> {0} \cup Texts]
  BY <1>1, <1>3 DEF Typed
<1>10. n.kind # "text"
  BY <1>4
<1> HIDE DEF n
<1>11. QED
  BY <1>2, <1>3, <1>4, <1>7, <1>8, <1>9, <1>10, SendingKeeps

\* A manifest that changes changes nothing the server holds.
LEMMA EditsManifestKeeps ==
    ASSUME Inv, NEW d \in Dirs, EditsManifest(d), ServerStays
    PROVE  Inv'
<1>1. Typed /\ InboxTells /\ SnapshotsFit /\ PublishedOnce /\ ShownFits
  BY DEF Inv
<1>2. UNCHANGED <<overlays, snapshots, published, pending, shown, seen, alone, overlapped, disk, editor, inbox>>
  BY DEF ServerStays, EditsManifest
<1>3. events' \in 0..MaxEvents
  BY <1>1, ActsAreCounted DEF EditsManifest
<1>4. manifests' \in [Dirs -> Manifests]
  <2>1. PICK m \in Manifests : manifests' = [manifests EXCEPT ![d] = m]
    BY DEF EditsManifest
  <2>2. QED
    BY <1>1, <2>1 DEF Typed
<1>5. Typed'
  BY <1>1, <1>2, <1>3, <1>4 DEF Typed
<1>6. InboxTells'
  BY <1>1, <1>2 DEF InboxTells, Agree
<1>7. SnapshotsFit'
  BY <1>1, <1>2 DEF SnapshotsFit, SaveComes
<1>8. PublishedOnce'
  BY <1>1, <1>2 DEF PublishedOnce
<1>9. ShownFits'
  BY <1>1, <1>2 DEF ShownFits, Newest
<1>10. QED
  BY <1>5, <1>6, <1>7, <1>8, <1>9 DEF Inv

LEMMA UserKeeps ==
    ASSUME Inv, User
    PROVE  Inv'
<1>1. ServerStays
  BY DEF User, ServerStays
<1>2. \/ \E f \in Files : Types(f) \/ Opens(f) \/ Saves(f) \/ Closes(f)
      \/ \E d \in Dirs : EditsManifest(d)
  BY DEF User
<1>3. QED
  BY <1>1, <1>2, TypesKeeps, OpensKeeps, SavesKeeps, ClosesKeeps, EditsManifestKeeps

\* ------------------------------------------------------------------------------ handlers
\* What a notification makes of the buffers.
Takes(n, buffers) ==
    /\ \A f \in Files :
          IF Speaks(n, f) THEN Tells(buffers, n, f)
          ELSE (f \in DOMAIN buffers <=> f \in DOMAIN overlays) /\ (f \in DOMAIN overlays => buffers[f] = overlays[f])

Handled(h, n, buffers) ==
    /\ inbox # <<>> /\ n = Head(inbox) /\ inbox' = Tail(inbox) /\ ~Busy(h)
    /\ overlays' = buffers /\ Refresh(h, buffers)
    /\ UNCHANGED <<disk, manifests, editor, shown, events>>

LEMMA HandleTakes ==
    ASSUME Typed, NEW h \in Handlers, Handle(h)
    PROVE  \E n \in Notice, buffers \in Buffers : Takes(n, buffers) /\ Handled(h, n, buffers)
<1> DEFINE n == Head(inbox)
           buffers == CASE n.kind = "text" -> [f \in DOMAIN overlays \cup {n.file} |-> IF f = n.file THEN n.text ELSE overlays[f]]
                        [] n.kind = "close" -> Restrict(overlays, DOMAIN overlays \ {n.file})
                        [] OTHER -> overlays
<1>1. Handled(h, n, buffers)
  BY DEF Handle, Handled
<1>2. inbox \in Seq(Notice) /\ inbox # <<>>
  BY DEF Typed, Handle
<1>3. n \in Notice /\ n = inbox[1] /\ 1 \in 1..Len(inbox)
  BY <1>2
<1>4. n.kind = "text" => n.text \in Texts
  BY <1>3 DEF Typed, Notice
<1>5. DOMAIN overlays \subseteq Files /\ overlays \in [DOMAIN overlays -> Texts]
  BY DEF Typed, Buffers
<1>6. n.file \in Files /\ n.kind \in {"text", "save", "close"}
  BY <1>3 DEF Notice
<1> HIDE DEF n
<1>7. buffers \in Buffers /\ Takes(n, buffers)
  <2>1. CASE n.kind = "text"
    <3>1. buffers = [f \in DOMAIN overlays \cup {n.file} |-> IF f = n.file THEN n.text ELSE overlays[f]]
      BY <2>1
    <3> HIDE DEF buffers
    <3>2. buffers \in [DOMAIN overlays \cup {n.file} -> Texts]
      BY <3>1, <2>1, <1>4, <1>5
    <3>3. buffers \in Buffers
      BY <3>2, <1>5, <1>6 DEF Buffers
    <3>4. Takes(n, buffers)
      BY <3>1, <2>1, <1>5, <1>6 DEF Takes, Speaks, Tells
    <3>5. QED
      BY <3>3, <3>4
  <2>2. CASE n.kind = "close"
    <3>1. buffers = [f \in DOMAIN overlays \ {n.file} |-> overlays[f]]
      BY <2>2 DEF Restrict
    <3> HIDE DEF buffers
    <3>2. buffers \in [DOMAIN overlays \ {n.file} -> Texts]
      BY <3>1, <1>5
    <3>3. buffers \in Buffers
      BY <3>2, <1>5 DEF Buffers
    <3>4. Takes(n, buffers)
      BY <3>1, <2>2, <1>5, <1>6 DEF Takes, Speaks, Tells
    <3>5. QED
      BY <3>3, <3>4
  <2>3. CASE n.kind = "save"
    <3>1. buffers = overlays
      BY <2>3
    <3>2. QED
      BY <3>1, <2>3 DEF Takes, Speaks, Typed
  <2>4. QED
    BY <1>6, <2>1, <2>2, <2>3
<1> HIDE DEF buffers
<1>8. QED
  BY <1>1, <1>3, <1>7

LEMMA HandlingTells ==
    ASSUME Typed, InboxTells, NEW h \in Handlers, NEW n \in Notice, NEW buffers \in Buffers,
           Takes(n, buffers), Handled(h, n, buffers)
    PROVE  InboxTells'
<1> SUFFICES ASSUME NEW f \in Files
             PROVE  /\ (\A i \in 1..Len(inbox') : ~Speaks(inbox'[i], f)) => Agree(f)'
                    /\ \A i \in 1..Len(inbox') :
                          Speaks(inbox'[i], f) /\ (\A j \in 1..Len(inbox') : j > i => ~Speaks(inbox'[j], f))
                             => Tells(editor', inbox'[i], f)
  BY DEF InboxTells, Speaks
<1>1. inbox \in Seq(Notice) /\ inbox # <<>> /\ inbox' = Tail(inbox) /\ n = inbox[1]
  BY DEF Typed, Handled
<1>2. PICK last \in Nat : Len(inbox) = last + 1
  <2>1. Len(inbox) \in Nat /\ Len(inbox) # 0
    BY <1>1
  <2>2. Len(inbox) - 1 \in Nat /\ Len(inbox) = (Len(inbox) - 1) + 1
    BY <2>1
  <2>3. QED
    BY <2>2
<1>3. Len(inbox') = last /\ \A i \in 1..last : inbox'[i] = inbox[i + 1]
  BY <1>1, <1>2
<1>4. /\ (\A i \in 1..(last + 1) : ~Speaks(inbox[i], f)) => Agree(f)
      /\ \A i \in 1..(last + 1) :
            Speaks(inbox[i], f) /\ (\A j \in 1..(last + 1) : j > i => ~Speaks(inbox[j], f)) => Tells(editor, inbox[i], f)
  BY <1>2 DEF InboxTells
<1>5. overlays' = buffers /\ editor' = editor
  BY DEF Handled
<1>6. ASSUME NEW j \in 1..(last + 1), j > 1
      PROVE  j - 1 \in 1..last /\ inbox'[j - 1] = inbox[j]
  <2>1. j - 1 \in 1..last /\ (j - 1) + 1 = j
    BY <1>6
  <2>2. QED
    BY <2>1, <1>3
<1>7. ASSUME \A i \in 1..Len(inbox') : ~Speaks(inbox'[i], f)
      PROVE  Agree(f)'
  <2>1. \A j \in 1..(last + 1) : j > 1 => ~Speaks(inbox[j], f)
    BY <1>3, <1>6, <1>7
  <2>2. CASE Speaks(n, f)
    <3>1. 1 \in 1..(last + 1)
      OBVIOUS
    <3>2. Tells(editor, n, f)
      BY <3>1, <2>1, <2>2, <1>1, <1>4
    <3>3. Tells(buffers, n, f)
      BY <2>2 DEF Takes
    <3>4. QED
      BY <3>2, <3>3, <1>5 DEF Tells, Agree
  <2>3. CASE ~Speaks(n, f)
    <3>1. \A j \in 1..(last + 1) : j = 1 \/ j > 1
      OBVIOUS
    <3>2. Agree(f)
      BY <3>1, <2>1, <2>3, <1>1, <1>4
    <3>3. (f \in DOMAIN buffers <=> f \in DOMAIN overlays) /\ (f \in DOMAIN overlays => buffers[f] = overlays[f])
      BY <2>3 DEF Takes
    <3>4. QED
      BY <3>2, <3>3, <1>5 DEF Agree
  <2>4. QED
    BY <2>2, <2>3
<1>8. ASSUME NEW i \in 1..Len(inbox'), Speaks(inbox'[i], f),
             \A j \in 1..Len(inbox') : j > i => ~Speaks(inbox'[j], f)
      PROVE  Tells(editor', inbox'[i], f)
  <2>1. i \in 1..last /\ i + 1 \in 1..(last + 1) /\ inbox'[i] = inbox[i + 1]
    BY <1>3
  <2>2. ASSUME NEW j \in 1..(last + 1), j > i + 1 PROVE ~Speaks(inbox[j], f)
    <3>1. j > 1 /\ j - 1 > i
      BY <2>1, <2>2
    <3>2. QED
      BY <3>1, <1>3, <1>6, <1>8
  <2>3. Tells(editor, inbox[i + 1], f)
    BY <2>1, <2>2, <1>4, <1>8
  <2>4. QED
    BY <2>1, <2>3, <1>5
<1>9. QED
  BY <1>7, <1>8

\* What a handler leaves to do when it has refreshed the snapshots.
LEMMA RefreshSets ==
    ASSUME Typed, NEW h \in Handlers, NEW buffers \in Buffers, Refresh(h, buffers)
    PROVE  /\ Fresh(snapshots', buffers) /\ seen' = manifests
           /\ published' = {p.file : p \in Publishes(snapshots')} /\ published' \subseteq Files
           /\ pending' \in [Handlers -> PendingType]
           /\ pending'[h].pubs = Publishes(snapshots') /\ pending'[h].stale = published \ published'
           /\ \A g \in Handlers \ {h} : pending'[g] = pending[g]
           /\ alone' = (\A g \in Handlers : ~Busy(g)) /\ overlapped' = (overlapped \/ ~alone')
<1>1. snapshots' = Compiled(buffers) /\ Fresh(snapshots', buffers)
  BY CompiledIsFresh DEF Refresh
<1>2. PICK pubs : pubs = Publishes(snapshots')
  OBVIOUS
<1>3. /\ published' = {p.file : p \in pubs} /\ seen' = manifests
      /\ pending' = [pending EXCEPT ![h] = [pubs |-> pubs, stale |-> published \ {p.file : p \in pubs}]]
      /\ alone' = (\A g \in Handlers : ~Busy(g)) /\ overlapped' = (overlapped \/ ~alone')
  BY <1>1, <1>2 DEF Refresh
<1>4. \A p \in pubs : p \in Publication
  BY <1>1, <1>2, PublishesFromOwners
<1>5. published' \subseteq Files
  BY <1>3, <1>4 DEF Publication
<1>6. [pubs |-> pubs, stale |-> published \ published'] \in PendingType
  BY <1>4 DEF PendingType, Typed
<1>7. pending' = [pending EXCEPT ![h] = [pubs |-> pubs, stale |-> published \ published']]
  BY <1>3
<1>8. pending \in [Handlers -> PendingType]
  BY DEF Typed
<1>9. pending' \in [Handlers -> PendingType]
  BY <1>6, <1>7, <1>8
<1>10. pending'[h] = [pubs |-> pubs, stale |-> published \ published']
  BY <1>7, <1>8
<1>11. \A g \in Handlers \ {h} : pending'[g] = pending[g]
  BY <1>7, <1>8
<1>12. QED
  BY <1>1, <1>2, <1>3, <1>5, <1>9, <1>10, <1>11

LEMMA HandlingKeeps ==
    ASSUME Inv, NEW h \in Handlers, NEW n \in Notice, NEW buffers \in Buffers,
           Takes(n, buffers), Handled(h, n, buffers)
    PROVE  Inv'
<1>1. Typed /\ InboxTells /\ SnapshotsFit /\ PublishedOnce /\ ShownFits
  BY DEF Inv
<1>2. /\ inbox # <<>> /\ inbox' = Tail(inbox) /\ ~Busy(h) /\ overlays' = buffers
      /\ UNCHANGED <<disk, manifests, editor, shown, events>>
  BY DEF Handled
<1>3. /\ Fresh(snapshots', buffers) /\ seen' = manifests
      /\ published' = {p.file : p \in Publishes(snapshots')} /\ published' \subseteq Files
      /\ pending' \in [Handlers -> PendingType]
      /\ pending'[h].pubs = Publishes(snapshots') /\ pending'[h].stale = published \ published'
      /\ \A g \in Handlers \ {h} : pending'[g] = pending[g]
      /\ alone' = (\A g \in Handlers : ~Busy(g)) /\ overlapped' = (overlapped \/ ~alone')
  BY <1>1, RefreshSets DEF Handled
<1>4. \A p \in Publishes(snapshots') :
         p = [file |-> p.file, key |-> OwnerIn(manifests, p.file), texts |-> snapshots'[OwnerIn(manifests, p.file)]]
  BY <1>1, <1>3, PublishesFromOwners
<1>5. Typed'
  <2>1. inbox \in Seq(Notice) /\ Len(inbox) <= MaxInbox
        /\ \A i \in 1..Len(inbox) : inbox[i].kind = "text" => inbox[i].text # 0
    BY <1>1 DEF Typed
  <2>2. /\ inbox' \in Seq(Notice) /\ Len(inbox') = Len(inbox) - 1 /\ Len(inbox) \in Nat
        /\ \A i \in 1..Len(inbox') : inbox'[i] = inbox[i + 1]
    BY <2>1, <1>2
  <2>3. Len(inbox') <= MaxInbox
    BY <2>1, <2>2
  <2>4. ASSUME NEW i \in 1..Len(inbox'), inbox'[i].kind = "text" PROVE inbox'[i].text # 0
    <3>1. i + 1 \in 1..Len(inbox)
      BY <2>2
    <3>2. QED
      BY <3>1, <2>1, <2>2, <2>4
  <2>5. \A k \in DOMAIN snapshots' : snapshots'[k] \in Buffers
    BY <1>3 DEF Fresh
  <2>6. QED
    BY <1>1, <1>2, <1>3, <2>2, <2>3, <2>4, <2>5 DEF Typed
<1>6. InboxTells'
  BY <1>1, HandlingTells
<1>7. SnapshotsFit'
  BY <1>2, <1>3 DEF Fresh, SnapshotsFit
<1>8. PublishedOnce'
  <2>1. ASSUME NEW g \in Handlers
        PROVE  /\ \A p, q \in pending'[g].pubs : p.file = q.file => p = q
               /\ {p.file : p \in pending'[g].pubs} \cap pending'[g].stale = {}
    <3>1. CASE g = h
      <4>1. \A p, q \in Publishes(snapshots') : p.file = q.file => p = q
        BY <1>4
      <4>2. {p.file : p \in Publishes(snapshots')} \cap (published \ published') = {}
        BY <1>3
      <4>3. QED
        BY <3>1, <4>1, <4>2, <1>3
    <3>2. CASE g # h
      <4>1. pending'[g] = pending[g]
        BY <3>2, <1>3
      <4>2. QED
        BY <4>1, <1>1 DEF PublishedOnce
    <3>3. QED
      BY <3>1, <3>2
  <2>2. QED
    BY <2>1 DEF PublishedOnce
<1>9. ShownFits'
  <2>1. ASSUME alone'
        PROVE  \A g \in Handlers : pending[g].pubs = {} /\ pending[g].stale = {}
    <3>1. \A g \in Handlers : ~Busy(g)
      BY <2>1, <1>3, Zenon
    <3>2. Idle.pubs = {} /\ Idle.stale = {}
      BY DEF Idle
    <3>3. QED
      BY <3>1, <3>2 DEF Busy
  <2>2. ASSUME alone', NEW g \in Handlers
        PROVE  /\ \A p \in pending'[g].pubs :
                     p.file \in published' /\ [key |-> p.key, texts |-> p.texts] = Newest(p.file)'
               /\ pending'[g].stale \cap published' = {}
    <3>1. CASE g = h
      <4>1. ASSUME NEW p \in Publishes(snapshots')
            PROVE  p.file \in published' /\ [key |-> p.key, texts |-> p.texts] = Newest(p.file)'
        <5>1. p.file \in published'
          BY <1>3
        <5>2. p.key = OwnerIn(manifests, p.file) /\ p.texts = snapshots'[OwnerIn(manifests, p.file)]
          BY <1>4
        <5>3. QED
          BY <5>1, <5>2, <1>3 DEF Newest
      <4>2. QED
        BY <3>1, <4>1, <1>3
    <3>2. CASE g # h
      <4>1. pending'[g] = pending[g]
        BY <3>2, <1>3
      <4>2. QED
        BY <4>1, <2>1, <2>2
    <3>3. QED
      BY <3>1, <3>2
  <2>3. ASSUME alone', NEW f \in published'
        PROVE  \E g \in Handlers : \E p \in pending'[g].pubs : p.file = f
    BY <1>3
  <2>4. ~overlapped' => alone' /\ ~overlapped
    BY <1>3
  <2>5. ASSUME ~overlapped', NEW f \in Files \ published'
        PROVE  shown'[f] = Nothing \/ \E g \in Handlers : f \in pending'[g].stale
    <3>1. CASE f \in published
      BY <3>1, <1>3
    <3>2. CASE f \notin published
      <4>1. \A g \in Handlers : pending[g].stale = {}
        BY <2>1, <2>4, <2>5
      <4>2. shown[f] = Nothing \/ \E g \in Handlers : f \in pending[g].stale
        BY <1>1, <2>4, <2>5, <3>2 DEF ShownFits
      <4>3. QED
        BY <4>1, <4>2, <1>2
    <3>3. QED
      BY <3>1, <3>2
  <2>6. QED
    BY <2>2, <2>3, <2>4, <2>5 DEF ShownFits, Newest
<1>10. QED
  BY <1>5, <1>6, <1>7, <1>8, <1>9 DEF Inv

LEMMA HandleKeeps ==
    ASSUME Inv, NEW h \in Handlers, Handle(h)
    PROVE  Inv'
<1>1. Typed
  BY DEF Inv
<1>2. PICK n \in Notice, buffers \in Buffers : Takes(n, buffers) /\ Handled(h, n, buffers)
  BY <1>1, HandleTakes
<1>3. QED
  BY <1>2, HandlingKeeps

\* A publish or a clear takes one entry from what its handler has to do.
LEMMA PublishKeeps ==
    ASSUME Inv, NEW h \in Handlers, Publish(h)
    PROVE  Inv'
<1>1. Typed /\ InboxTells /\ SnapshotsFit /\ PublishedOnce /\ ShownFits
  BY DEF Inv
<1>2. PICK p \in pending[h].pubs :
         /\ shown' = [shown EXCEPT ![p.file] = [key |-> p.key, texts |-> p.texts]]
         /\ pending' = [pending EXCEPT ![h].pubs = @ \ {p}]
         /\ UNCHANGED <<disk, manifests, editor, inbox, overlays, snapshots, published, seen, alone, overlapped, events>>
  BY DEF Publish
<1>3. pending \in [Handlers -> PendingType] /\ DOMAIN shown = Files
  BY <1>1 DEF Typed
<1>4. p \in Publication /\ p.file \in Files
  BY <1>3 DEF PendingType, Publication
<1>5. /\ pending' \in [Handlers -> PendingType]
      /\ pending'[h].pubs = pending[h].pubs \ {p} /\ pending'[h].stale = pending[h].stale
      /\ \A g \in Handlers \ {h} : pending'[g] = pending[g]
  BY <1>2, <1>3 DEF PendingType
<1>6. /\ DOMAIN shown' = Files /\ shown'[p.file] = [key |-> p.key, texts |-> p.texts]
      /\ \A f \in Files \ {p.file} : shown'[f] = shown[f]
  BY <1>2, <1>3, <1>4
<1>7. \A g \in Handlers : pending'[g].pubs \subseteq pending[g].pubs /\ pending'[g].stale = pending[g].stale
  BY <1>5
<1>8. \A g \in Handlers : \A q \in pending[g].pubs : q \in pending'[g].pubs \/ q.file = p.file
  BY <1>5
<1>9. Typed'
  BY <1>1, <1>2, <1>5, <1>6 DEF Typed
<1>10. InboxTells'
  BY <1>1, <1>2 DEF InboxTells, Agree
<1>11. SnapshotsFit'
  BY <1>1, <1>2 DEF SnapshotsFit, SaveComes
<1>12. PublishedOnce'
  BY <1>1, <1>7 DEF PublishedOnce
<1>13. ShownFits'
  <2>1. UNCHANGED <<alone, overlapped, published, seen, snapshots>>
    BY <1>2
  <2>2. ASSUME alone, NEW f \in published
        PROVE  shown'[f] = Newest(f) \/ \E g \in Handlers : \E q \in pending'[g].pubs : q.file = f
    <3>1. CASE f = p.file
      BY <3>1, <2>2, <1>1, <1>6 DEF ShownFits
    <3>2. CASE f # p.file
      <4>1. shown'[f] = shown[f]
        BY <3>2, <1>1, <1>6 DEF Typed
      <4>2. shown[f] = Newest(f) \/ \E g \in Handlers : \E q \in pending[g].pubs : q.file = f
        BY <2>2, <1>1 DEF ShownFits
      <4>3. QED
        BY <4>1, <4>2, <3>2, <1>8
    <3>3. QED
      BY <3>1, <3>2
  <2>3. ASSUME ~overlapped, NEW f \in Files \ published
        PROVE  shown'[f] = Nothing \/ \E g \in Handlers : f \in pending'[g].stale
    <3>1. alone /\ p.file \in published
      BY <1>1, <2>3 DEF ShownFits
    <3>2. shown'[f] = shown[f]
      BY <3>1, <1>6
    <3>3. QED
      BY <3>2, <2>3, <1>1, <1>7 DEF ShownFits
  <2>4. ASSUME alone, NEW g \in Handlers
        PROVE  /\ \A q \in pending'[g].pubs :
                     q.file \in published /\ [key |-> q.key, texts |-> q.texts] = Newest(q.file)
               /\ pending'[g].stale \cap published = {}
    BY <2>4, <1>1, <1>7 DEF ShownFits
  <2>5. \A f : Newest(f)' = Newest(f)
    BY <2>1 DEF Newest
  <2>6. ~overlapped => alone
    BY <1>1 DEF ShownFits
  <2>7. QED
    BY <2>1, <2>2, <2>3, <2>4, <2>5, <2>6 DEF ShownFits, Newest
<1>14. QED
  BY <1>9, <1>10, <1>11, <1>12, <1>13 DEF Inv

LEMMA ClearKeeps ==
    ASSUME Inv, NEW h \in Handlers, Clear(h)
    PROVE  Inv'
<1>1. Typed /\ InboxTells /\ SnapshotsFit /\ PublishedOnce /\ ShownFits
  BY DEF Inv
<1>2. PICK f \in pending[h].stale :
         /\ shown' = [shown EXCEPT ![f] = Nothing]
         /\ pending' = [pending EXCEPT ![h].stale = @ \ {f}]
         /\ UNCHANGED <<disk, manifests, editor, inbox, overlays, snapshots, published, seen, alone, overlapped, events>>
  BY DEF Clear
<1>3. pending \in [Handlers -> PendingType] /\ DOMAIN shown = Files
  BY <1>1 DEF Typed
<1>4. f \in Files
  BY <1>3 DEF PendingType
<1>5. /\ pending' \in [Handlers -> PendingType]
      /\ pending'[h].pubs = pending[h].pubs /\ pending'[h].stale = pending[h].stale \ {f}
      /\ \A g \in Handlers \ {h} : pending'[g] = pending[g]
  BY <1>2, <1>3 DEF PendingType
<1>6. /\ DOMAIN shown' = Files /\ shown'[f] = Nothing
      /\ \A g \in Files \ {f} : shown'[g] = shown[g]
  BY <1>2, <1>3, <1>4
<1>7. \A g \in Handlers : pending'[g].pubs = pending[g].pubs /\ pending'[g].stale \subseteq pending[g].stale
  BY <1>5
<1>8. \A g \in Handlers : pending[g].stale \subseteq pending'[g].stale \cup {f}
  BY <1>5
<1>9. Typed'
  BY <1>1, <1>2, <1>5, <1>6 DEF Typed
<1>10. InboxTells'
  BY <1>1, <1>2 DEF InboxTells, Agree
<1>11. SnapshotsFit'
  BY <1>1, <1>2 DEF SnapshotsFit, SaveComes
<1>12. PublishedOnce'
  BY <1>1, <1>7 DEF PublishedOnce
<1>13. ShownFits'
  <2>1. UNCHANGED <<alone, overlapped, published, seen, snapshots>>
    BY <1>2
  <2>2. ASSUME alone, NEW g \in published
        PROVE  shown'[g] = Newest(g) \/ \E k \in Handlers : \E q \in pending'[k].pubs : q.file = g
    <3>1. f \notin published /\ g \in Files
      BY <2>2, <1>1 DEF ShownFits, Typed
    <3>2. shown'[g] = shown[g]
      BY <3>1, <1>6
    <3>3. QED
      BY <3>2, <2>2, <1>1, <1>7 DEF ShownFits
  <2>3. ASSUME ~overlapped, NEW g \in Files \ published
        PROVE  shown'[g] = Nothing \/ \E k \in Handlers : g \in pending'[k].stale
    <3>1. CASE g = f
      BY <3>1, <1>6
    <3>2. CASE g # f
      <4>1. shown'[g] = shown[g]
        BY <3>2, <1>6
      <4>2. shown[g] = Nothing \/ \E k \in Handlers : g \in pending[k].stale
        BY <2>3, <1>1 DEF ShownFits
      <4>3. QED
        BY <4>1, <4>2, <3>2, <1>8
    <3>3. QED
      BY <3>1, <3>2
  <2>4. ASSUME alone, NEW g \in Handlers
        PROVE  /\ \A q \in pending'[g].pubs :
                     q.file \in published /\ [key |-> q.key, texts |-> q.texts] = Newest(q.file)
               /\ pending'[g].stale \cap published = {}
    BY <2>4, <1>1, <1>7 DEF ShownFits
  <2>5. \A g : Newest(g)' = Newest(g)
    BY <2>1 DEF Newest
  <2>6. ~overlapped => alone
    BY <1>1 DEF ShownFits
  <2>7. QED
    BY <2>1, <2>2, <2>3, <2>4, <2>5, <2>6 DEF ShownFits, Newest
<1>14. QED
  BY <1>9, <1>10, <1>11, <1>12, <1>13 DEF Inv

LEMMA Stutters == Inv /\ UNCHANGED vars => Inv'
<1> SUFFICES ASSUME Inv, UNCHANGED vars PROVE Inv'
  OBVIOUS
<1>1. Typed /\ InboxTells /\ SnapshotsFit /\ PublishedOnce /\ ShownFits
  BY DEF Inv
<1>2. Typed'
  BY <1>1 DEF vars, Typed
<1>3. InboxTells'
  BY <1>1 DEF vars, InboxTells, Agree
<1>4. SnapshotsFit'
  BY <1>1 DEF vars, SnapshotsFit, SaveComes
<1>5. PublishedOnce'
  BY <1>1 DEF vars, PublishedOnce
<1>6. ShownFits'
  BY <1>1 DEF vars, ShownFits, Newest
<1>7. QED
  BY <1>2, <1>3, <1>4, <1>5, <1>6 DEF Inv

LEMMA Always == Spec => []Inv
<1>1. Inv /\ [Next]_vars => Inv'
  <2> SUFFICES ASSUME Inv, [Next]_vars PROVE Inv'
    OBVIOUS
  <2>1. CASE User
    BY <2>1, UserKeeps
  <2>2. ASSUME NEW h \in Handlers, Handle(h) \/ Publish(h) \/ Clear(h) PROVE Inv'
    BY <2>2, HandleKeeps, PublishKeeps, ClearKeeps
  <2>3. CASE UNCHANGED vars
    BY <2>3, Stutters
  <2>4. QED
    BY <2>1, <2>2, <2>3 DEF Next
<1>2. QED
  BY StartsWell, <1>1, PTL DEF Spec

\* ------------------------------------------------------------------------------ theorems
\* A refresh publishes a file once, for the project that owns it, and clears none that it
\* publishes: Publishes (main.rs:84-112).
THEOREM FilesArePublishedOnce == Spec => []PublishedOnce
<1>1. Inv => PublishedOnce
  BY DEF Inv
<1>2. QED
  BY Always, <1>1, PTL

\* A request about an open file is answered from what its buffer holds, and it is answered
\* when the file is on disk and its manifest's `root` does not leave it out: the snapshots are
\* replaced with the buffers (main.rs:62-80, discover_allow_empty).
THEOREM AnswersComeFromBuffers == Spec => []AnswersFitBuffers
<1>1. Inv => AnswersFitBuffers
  <2> SUFFICES ASSUME Inv PROVE AnswersFitBuffers
    OBVIOUS
  <2>1. Typed /\ InboxTells /\ SnapshotsFit
    BY DEF Inv
  <2>2. /\ DOMAIN overlays \subseteq Files /\ overlays \in [DOMAIN overlays -> Texts]
        /\ DOMAIN editor \subseteq Files /\ editor \in [DOMAIN editor -> Texts]
    BY <2>1 DEF Typed, Buffers
  <2>3. ASSUME NEW f \in DOMAIN overlays PROVE Answer(f) \in {0, overlays[f]}
    BY <2>1 DEF Answer, SnapshotsFit
  <2>4. ASSUME inbox = <<>> PROVE overlays = editor
    <3>1. 1..Len(inbox) = {}
      BY <2>4
    <3>2. \A f \in Files : Agree(f)
      BY <2>1, <3>1 DEF InboxTells
    <3>3. DOMAIN overlays = DOMAIN editor
      BY <3>2, <2>2 DEF Agree
    <3>4. \A f \in DOMAIN editor : overlays[f] = editor[f]
      BY <3>2, <2>2 DEF Agree
    <3>5. QED
      BY <3>3, <3>4, <2>2
  <2>5. ASSUME inbox = <<>>, manifests = seen, NEW f \in DOMAIN editor, disk[f] # 0, ~OutsideRoot(f)
        PROVE  Answer(f) # 0
    <3>1. f \in DOMAIN overlays /\ f \in Files
      BY <2>2, <2>4, <2>5
    <3>2. Owner(f) = OwnerIn(seen, f)
      BY <3>1, <2>5, OwnerNow
    <3>3. 1..Len(inbox) = {}
      BY <2>5
    <3>4. ~SaveComes(f)
      BY <3>3 DEF SaveComes
    <3>5. ~OutsideIn(seen, f)
      BY <3>1, <2>5, OutsideNow
    <3>6. /\ OwnerIn(seen, f) \in DOMAIN snapshots /\ f \in DOMAIN snapshots[OwnerIn(seen, f)]
          /\ snapshots[OwnerIn(seen, f)][f] = overlays[f]
      BY <3>1, <3>4, <3>5, <2>1, <2>5 DEF SnapshotsFit
    <3>7. Answer(f) = overlays[f]
      BY <3>2, <3>6 DEF Answer
    <3>8. overlays[f] \in Texts /\ 0 \notin Texts
      BY <3>1, <2>2 DEF Texts
    <3>9. QED
      BY <3>7, <3>8
  <2>6. QED
    BY <2>3, <2>4, <2>5 DEF AnswersFitBuffers
<1>2. QED
  BY Always, <1>1, PTL

\* When everything has been handled after a refresh that ran alone, the editor shows of every
\* file what its project's snapshot gives, and nothing else if none has overlapped another:
\* refresh's publishes and clears (main.rs:114-135).
THEOREM EditorShowsTheSnapshots == Spec => []SettledIsExact
<1>1. Inv => SettledIsExact
  <2> SUFFICES ASSUME Inv, Quiet, alone, manifests = seen, NEW f \in Files
               PROVE  IF f \in published THEN shown[f] = [key |-> Owner(f), texts |-> snapshots[Owner(f)]]
                      ELSE ~overlapped => shown[f] = Nothing
    BY DEF SettledIsExact
  <2>1. ShownFits
    BY DEF Inv
  <2>2. \A h \in Handlers : pending[h].pubs = {} /\ pending[h].stale = {}
    <3>1. Idle.pubs = {} /\ Idle.stale = {}
      BY DEF Idle
    <3>2. QED
      BY <3>1 DEF Quiet, Busy
  <2>3. Newest(f) = [key |-> Owner(f), texts |-> snapshots[Owner(f)]]
    <3>1. Owner(f) = OwnerIn(seen, f)
      BY OwnerNow
    <3>2. QED
      BY <3>1 DEF Newest
  <2>4. CASE f \in published
    BY <2>1, <2>2, <2>3, <2>4 DEF ShownFits
  <2>5. CASE f \notin published
    BY <2>1, <2>2, <2>5 DEF ShownFits
  <2>6. QED
    BY <2>4, <2>5
<1>2. QED
  BY Always, <1>1, PTL
================================================================================
