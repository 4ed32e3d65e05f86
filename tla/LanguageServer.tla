----------------------------- MODULE LanguageServer -----------------------------
(* based-lsp: the editor's notifications, the handlers that recompile every open  *)
(* project and republish its diagnostics, and what the editor then shows.  The    *)
(* handlers are polled in one task, several at a time: one recompiles and sends   *)
(* its first publish before another runs, and may wait after each publish.        *)
(* Diagnostics of a file are the project and texts they were derived from.        *)
EXTENDS Naturals, Sequences, SequencesExt, FiniteSets

CONSTANTS
    Files, Dirs,
    Above,          \* the directories a file lies in, nearest first
    Rank,           \* the order of the files' paths
    Handlers,       \* the handlers tower-lsp runs at once
    MaxEvents,      \* bound on what the user does
    MaxInbox        \* bound on notifications under way

ASSUME LanguageServerAssumption ==
    /\ Above \in [Files -> Seq(Dirs)] /\ Rank \in [Files -> Nat] /\ IsInjective(Rank)
    /\ Files \cap Dirs = {} /\ {"none", "bad"} \cap Dirs = {} /\ MaxEvents \in Nat /\ MaxInbox \in Nat \ {0}

VARIABLES
    disk,                 \* the texts on disk, 0 for no file
    manifests,            \* each directory's based.toml: "none", "bad", or the directory its `root` names
    editor,               \* the texts of the open buffers
    inbox,                \* notifications sent and not yet handled
    overlays, snapshots, published,   \* State
    pending,              \* each handler's publishes and clears to come
    polled,               \* the handler that has yet to send its first, if any
    shown,                \* what the editor shows for a file
    seen,                 \* (history) the manifests at the last refresh
    alone, overlapped,    \* (history) the last refresh began alone; some did not
    events                \* (bound)

vars == <<disk, manifests, editor, inbox, overlays, snapshots, published, pending, polled, shown, seen,
          alone, overlapped, events>>

Nothing == << >>
Idle == [pubs |-> {}, stale |-> {}]
Busy(h) == pending[h] # Idle
Texts == 1..(MaxEvents + 1)
Manifests == {"none", "bad"} \cup Dirs

\* ------------------------------------------------------------------- a project's files
\* find_manifest_root, project_key: the nearest directory with a manifest, or the file itself.
Marked(f) == {i \in DOMAIN Above[f] : manifests[Above[f][i]] # "none"}
Owner(f) == IF Marked(f) = {} THEN f ELSE Above[f][Min(Marked(f))]

\* discover: the files below the `root` of d's manifest, which need not be below d.
Discover(d) == {f \in Files : manifests[d] \in Range(Above[f]) /\ disk[f] # 0}

\* (mutant) nothing is compiled under a manifest that does not parse
MutSources(key, open) == IF key \in Files THEN {key} ELSE Discover(key)

\* compile_manifest, compile_loose: under a manifest that cannot be used, or finds no file,
\* its open buffers.
Sources(key, open) ==
    IF key \in Files THEN {key}
    ELSE IF Discover(key) # {} THEN Discover(key)
    ELSE {f \in open : Owner(f) = key}

\* compile_paths: an open buffer before the disk.
Compile(key, buffers) ==
    [f \in Sources(key, DOMAIN buffers) |-> IF f \in DOMAIN buffers THEN buffers[f] ELSE disk[f]]

Compiled(buffers) == [key \in {Owner(f) : f \in DOMAIN buffers} |-> Compile(key, buffers)]

\* (mutant) a file is published from every project that reads it
MutPublishes(snaps) ==
    UNION {{[file |-> f, key |-> k, texts |-> snaps[k]] : f \in DOMAIN snaps[k]} : k \in DOMAIN snaps}

\* A file is published from the project that owns it.
Publishes(snaps) ==
    UNION {{[file |-> f, key |-> k, texts |-> snaps[k]] : f \in {g \in DOMAIN snaps[k] : Owner(g) = k}}
              : k \in DOMAIN snaps}

\* --------------------------------------------------------------------------- the server
\* (mutant) what was shown and no longer is compiled is forgotten
MutRefresh(h, buffers) ==
    LET pubs == Publishes(Compiled(buffers))
    IN /\ snapshots' = Compiled(buffers)
       /\ published' = {p.file : p \in pubs}
       /\ pending' = [pending EXCEPT ![h] = [pubs |-> pubs, stale |-> {}]]
       /\ polled' = IF pubs = {} THEN {} ELSE {h}
       /\ seen' = manifests
       /\ alone' = \A g \in Handlers : ~Busy(g)
       /\ overlapped' = (overlapped \/ ~alone')

\* refresh, to its first publish.
Refresh(h, buffers) ==
    LET pubs == Publishes(Compiled(buffers))
    IN /\ snapshots' = Compiled(buffers)
       /\ published' = {p.file : p \in pubs}
       /\ pending' = [pending EXCEPT ![h] = [pubs |-> pubs, stale |-> published \ {p.file : p \in pubs}]]
       /\ polled' = IF pubs = {} /\ published = {} THEN {} ELSE {h}
       /\ seen' = manifests
       /\ alone' = \A g \in Handlers : ~Busy(g)
       /\ overlapped' = (overlapped \/ ~alone')

\* (mutant) the buffer is stored when the refresh has been made
MutHandle(h) ==
    LET n == Head(inbox)
        buffers == CASE n.kind = "text" -> [f \in DOMAIN overlays \cup {n.file} |-> IF f = n.file THEN n.text ELSE overlays[f]]
                     [] n.kind = "close" -> Restrict(overlays, DOMAIN overlays \ {n.file})
                     [] OTHER -> overlays
    IN /\ inbox # <<>> /\ ~Busy(h) /\ polled = {}
       /\ inbox' = Tail(inbox) /\ overlays' = buffers
       /\ Refresh(h, overlays)
       /\ UNCHANGED <<disk, manifests, editor, shown, events>>

\* did_open, did_change, did_save, did_close and initialized, in the order they were sent.
Handle(h) ==
    LET n == Head(inbox)
        buffers == CASE n.kind = "text" -> [f \in DOMAIN overlays \cup {n.file} |-> IF f = n.file THEN n.text ELSE overlays[f]]
                     [] n.kind = "close" -> Restrict(overlays, DOMAIN overlays \ {n.file})
                     [] OTHER -> overlays
    IN /\ inbox # <<>> /\ ~Busy(h) /\ polled = {}
       /\ inbox' = Tail(inbox) /\ overlays' = buffers
       /\ Refresh(h, buffers)
       /\ UNCHANGED <<disk, manifests, editor, shown, events>>

\* publish_diagnostics: the projects in any order, a project's files in theirs.
Publish(h) ==
    \E p \in pending[h].pubs :
       /\ polled \subseteq {h} /\ polled' = {}
       /\ \A q \in pending[h].pubs : q.key = p.key => Rank[p.file] <= Rank[q.file]
       /\ shown' = [shown EXCEPT ![p.file] = [key |-> p.key, texts |-> p.texts]]
       /\ pending' = [pending EXCEPT ![h].pubs = @ \ {p}]
       /\ UNCHANGED <<disk, manifests, editor, inbox, overlays, snapshots, published, seen, alone, overlapped, events>>

Clear(h) ==
    \E f \in pending[h].stale :
       /\ pending[h].pubs = {}
       /\ polled \subseteq {h} /\ polled' = {}
       /\ shown' = [shown EXCEPT ![f] = Nothing]
       /\ pending' = [pending EXCEPT ![h].stale = @ \ {f}]
       /\ UNCHANGED <<disk, manifests, editor, inbox, overlays, snapshots, published, seen, alone, overlapped, events>>

\* What a request about a file is answered from: its text in its project's snapshot.
Answer(f) ==
    IF Owner(f) \in DOMAIN snapshots /\ f \in DOMAIN snapshots[Owner(f)] THEN snapshots[Owner(f)][f] ELSE 0

\* ----------------------------------------------------------------------------- the user
\* (external)
Sends(n) == Len(inbox) < MaxInbox /\ inbox' = Append(inbox, n)
Acts == events < MaxEvents /\ events' = events + 1
Types(f) ==
    /\ Acts /\ editor' = [g \in DOMAIN editor \cup {f} |-> IF g = f THEN events + 1 ELSE editor[g]]
    /\ Sends([kind |-> "text", file |-> f, text |-> events + 1]) /\ UNCHANGED <<disk, manifests>>
Opens(f) ==
    /\ Acts /\ f \notin DOMAIN editor /\ disk[f] # 0
    /\ editor' = [g \in DOMAIN editor \cup {f} |-> IF g = f THEN disk[f] ELSE editor[g]]
    /\ Sends([kind |-> "text", file |-> f, text |-> disk[f]]) /\ UNCHANGED <<disk, manifests>>
Saves(f) ==
    /\ Acts /\ f \in DOMAIN editor /\ disk' = [disk EXCEPT ![f] = editor[f]]
    /\ Sends([kind |-> "save", file |-> f, text |-> 0]) /\ UNCHANGED <<editor, manifests>>
Closes(f) ==
    /\ Acts /\ f \in DOMAIN editor /\ editor' = Restrict(editor, DOMAIN editor \ {f})
    /\ Sends([kind |-> "close", file |-> f, text |-> 0]) /\ UNCHANGED <<disk, manifests>>
EditsManifest(d) ==
    /\ Acts /\ \E m \in Manifests \ {manifests[d]} : manifests' = [manifests EXCEPT ![d] = m]
    /\ UNCHANGED <<disk, editor, inbox>>
User ==
    /\ \/ \E f \in Files : Types(f) \/ Opens(f) \/ Saves(f) \/ Closes(f)
       \/ \E d \in Dirs : EditsManifest(d)
    /\ UNCHANGED <<overlays, snapshots, published, pending, polled, shown, seen, alone, overlapped>>

Init ==
    /\ disk \in [Files -> {0, MaxEvents + 1}] /\ manifests = [d \in Dirs |-> d]
    /\ editor = <<>> /\ inbox = <<>> /\ overlays = <<>> /\ snapshots = <<>> /\ published = {}
    /\ pending = [h \in Handlers |-> Idle] /\ polled = {} /\ shown = [f \in Files |-> Nothing]
    /\ seen = manifests /\ alone = TRUE /\ overlapped = FALSE /\ events = 0

Next == User \/ \E h \in Handlers : Handle(h) \/ Publish(h) \/ Clear(h)

Spec == Init /\ [][Next]_vars
\* The serve loop polls every handler that can go on.
FairSpec == Spec /\ \A h \in Handlers : WF_vars(Handle(h)) /\ WF_vars(Publish(h)) /\ WF_vars(Clear(h))

\* --------------------------------------------------------------------------- properties
Quiet == inbox = <<>> /\ \A h \in Handlers : ~Busy(h)

\* The server's tables hold files and texts, and a project's snapshot only files.
TypeOK ==
    /\ disk \in [Files -> {0} \cup Texts] /\ manifests \in [Dirs -> Manifests]
    /\ DOMAIN overlays \subseteq Files /\ DOMAIN editor \subseteq Files /\ published \subseteq Files
    /\ Len(inbox) <= MaxInbox /\ events \in 0..MaxEvents
    /\ \A k \in DOMAIN snapshots : DOMAIN snapshots[k] \subseteq Files

\* A refresh publishes a file once, for the project that owns it, and clears none that it
\* publishes ("nested manifests never double-publish", main.rs:71-72).
PublishedOnce ==
    \A h \in Handlers :
       /\ \A p, q \in pending[h].pubs : p.file = q.file => p = q
       /\ {p.file : p \in pending[h].pubs} \cap pending[h].stale = {}

\* The manifest that owns the file has a `root` the file does not lie under: it is neither
\* a source of its project nor loose.
OutsideRoot(f) == Owner(f) \in Dirs /\ manifests[Owner(f)] \in Dirs \ Range(Above[f])

\* A request about an open file is answered from the text its buffer has, whatever is still
\* being published (a formatting edit replaces the whole document with it), and it is
\* answered if the file is on disk, under a manifest that does not parse too, unless the
\* manifest's `root` leaves the file out (project_key asks for the nearest manifest only).
AnswersFitBuffers ==
    /\ \A f \in DOMAIN overlays : Answer(f) \in {0, overlays[f]}
    /\ inbox = <<>> => overlays = editor
    /\ inbox = <<>> /\ manifests = seen =>
          \A f \in DOMAIN editor : disk[f] # 0 /\ ~OutsideRoot(f) => Answer(f) # 0

\* After a refresh that ran alone each file of an open project shows its project's
\* diagnostics; while none has overlapped another, every other file shows nothing.
SettledIsExact ==
    Quiet /\ alone /\ manifests = seen =>
       \A f \in Files :
          IF f \in published THEN shown[f] = [key |-> Owner(f), texts |-> snapshots[Owner(f)]]
          ELSE ~overlapped => shown[f] = Nothing

\* A file of no open project shows nothing once all is handled, however the refreshes ran:
\* "files dropped since last time are cleared" (main.rs:72).  It does not hold: the
\* older of two refreshes may publish the file after the newer one has cleared it.
DroppedIsCleared == Quiet /\ manifests = seen => \A f \in Files \ published : shown[f] = Nothing

\* What is typed into a file that is on disk is diagnosed once the user pauses, whether its
\* manifest parses or not, unless the manifest's `root` leaves the file out, no refresh has
\* read the manifests there are, or the last refresh did not run alone.
TypedIsDiagnosed ==
    \A f \in Files :
       f \in DOMAIN editor /\ disk[f] # 0
          ~> \/ f \notin DOMAIN editor \/ OutsideRoot(f) \/ manifests # seen \/ ~alone
             \/ shown[f] # Nothing /\ shown[f].texts[f] = editor[f]
================================================================================
