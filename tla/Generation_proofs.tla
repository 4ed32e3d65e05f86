---------------------------- MODULE Generation_proofs ----------------------------
(* What holds of Generation for any processes, outputs and versions, and for     *)
(* runs, failures, deaths, edits and takeovers without a bound.                  *)
EXTENDS Generation, SequenceTheorems, TLAPS

USE GenerationAssumption

\* ------------------------------------------------------------ the inductive invariant
Policies == {"check", "write", "force"}
Refused == {"stale", "invalid", "exists", "user_owned"}
Results == Refused \cup {"none", "ok", "hit", "error", "partial", "died"}
Compiling == {"discover", "bytes", "fingerprint", "match", "check"}
Renaming == {"recheck", "persist"}
PCs == Compiling \cup Renaming \cup {"idle", "preflight", "stage", "record", "done"}

Run ==
    [pc : PCs, policy : Policies, m : Nat, key : Nat, fp : Nat, b : Nat, at : Nat,
     changed : Seq(Files), written : SUBSET Files, replaced : SUBSET Files, result : Results]

Foreign == {None, User, Link, Imported}

Types ==
    /\ manifest \in Nat /\ bsl \in Nat
    /\ proc \in [Processes -> Run]
    /\ DOMAIN file = Files /\ file = [f \in Files |-> file[f]]
    /\ \A f \in Files : file[f] \in Foreign \/ \E m, b \in Nat : file[f] = Generated(m, b)

(* Where a run is in its sequences of files, and what it may be doing there.     *)
Place(p, run) ==
    /\ run.changed \in Seq(Range(Out(p)))
    /\ run.pc = "preflight" => run.at \in 1..Len(Out(p))
    /\ run.pc \in Renaming => run.at \in 1..Len(run.changed)
    /\ run.pc \in Compiling \cup {"stage"} => run.at = 1
    /\ run.pc \in Renaming \cup {"stage", "record"} => run.policy # "check"
    /\ run.pc \in {"bytes", "fingerprint", "match", "record"} => p \in Builds

(* What the run will report: nothing is replaced before the files are staged.    *)
Report(run) ==
    /\ run.written = run.replaced
    /\ run.pc \in Compiling \cup {"idle", "preflight", "stage"} => run.replaced = {}
    /\ run.pc # "done" => run.result = "none"
    /\ run.result \in Refused => run.replaced = {}

(* What the file that a run is about to replace is.                              *)
Seen(p, run) ==
    run.pc = "persist" /\ p \notin Imports /\ run.policy # "force" =>
        \A f \in Files : run.changed[run.at] = f =>
            file[f].by \notin {"user", "link"} \/ <<p, f>> \in late

RunInv(p, run) == Place(p, run) /\ Report(run) /\ Seen(p, run)

PublishInv == Types /\ \A p \in Processes : RunInv(p, proc[p])

\* ------------------------------------------------------------------ a process's run
(* What a process writes is among the files, and it writes something.            *)
LEMMA OutputsAreFiles ==
    ASSUME NEW p \in Processes
    PROVE  /\ Out(p) \in Seq(Range(Out(p))) /\ Out(p) # <<>> /\ Range(Out(p)) \subseteq Files
           /\ Seq(Range(Out(p))) \subseteq Seq(Files)
           /\ Len(Out(p)) \in Nat \ {0}
           /\ \A i \in 1..Len(Out(p)) : Out(p)[i] \in Range(Out(p))
<1>1. Kind(p) \in DOMAIN Outputs BY DEF Kind
<1>2. Out(p) \in Seq(Range(Out(p))) /\ Out(p) # <<>> BY <1>1 DEF Out
<1>3. Range(Out(p)) \subseteq Files BY <1>1 DEF Out, Files
<1>4. \A s \in Seq(Range(Out(p))) : s \in Seq(Files) BY <1>3
<1>5. Len(Out(p)) \in Nat \ {0} BY <1>2
<1>6. \A i \in 1..Len(Out(p)) : Out(p)[i] \in Range(Out(p)) BY <1>2
<1>7. QED BY <1>2, <1>3, <1>4, <1>5, <1>6

(* A process that has not run promises nothing.                                  *)
LEMMA IdleRun == Idle \in Run /\ \A p : RunInv(p, Idle)
<1>1. <<>> \in Seq(Files) /\ 1 \in Nat /\ 0 \in Nat OBVIOUS
<1>2. Idle \in Run BY <1>1 DEF Idle, Run, PCs, Policies, Results
<1>3. ASSUME NEW p PROVE RunInv(p, Idle)
  <2>1. <<>> \in Seq(Range(Out(p))) OBVIOUS
  <2>2. QED BY <2>1 DEF RunInv, Place, Report, Seen, Idle, Compiling, Renaming, Refused
<1>4. QED BY <1>2, <1>3

(* A process's step writes nothing, or a file of its own making.                 *)
Own == {Imported} \cup {Generated(m, b) : m, b \in Nat}

WritesOwn == file' = file \/ \E f \in Files, content \in Own : file' = [file EXCEPT ![f] = content]

(* A process's step, and what it writes is nothing of a user's.                  *)
LEMMA Moves ==
    ASSUME PublishInv, NEW p \in Processes, NEW run \in Run, Becomes(p, run), RunInv(p, run)',
           UNCHANGED <<manifest, bsl, late>>,
           WritesOwn
    PROVE  PublishInv'
<1>1. proc' \in [Processes -> Run] /\ proc'[p] = run /\ \A q \in Processes \ {p} : proc'[q] = proc[q]
  BY DEF PublishInv, Types, Becomes
<1>2. DOMAIN file' = Files /\ file' = [f \in Files |-> file'[f]] BY DEF PublishInv, Types, WritesOwn
<1>3. \A f \in Files : file'[f] = file[f] \/ file'[f] = Imported \/ \E m, b \in Nat : file'[f] = Generated(m, b)
  BY DEF PublishInv, Types, WritesOwn, Own
<1>4. Types' BY <1>1, <1>2, <1>3 DEF PublishInv, Types, Foreign
<1>5. \A f \in Files : file'[f] = file[f] \/ file'[f].by \notin {"user", "link"}
  <2>1. Imported.by = "import" /\ \A m, b : Generated(m, b).by = "based" BY DEF Imported, Generated
  <2>2. QED BY <1>3, <2>1
<1>6. ASSUME NEW q \in Processes PROVE RunInv(q, proc[q])'
  <2>1. CASE q = p BY <1>1, <2>1 DEF RunInv, Place, Report, Seen
  <2>2. CASE q # p
    <3>1. proc'[q] = proc[q] /\ RunInv(q, proc[q]) BY <1>1, <2>2 DEF PublishInv
    <3>2. Place(q, proc[q])' /\ Report(proc[q])' BY <3>1 DEF RunInv, Place, Report
    <3>3. Seen(q, proc[q])' BY <1>5, <3>1 DEF RunInv, Seen
    <3>4. QED BY <3>2, <3>3 DEF RunInv
  <2>3. QED BY <2>1, <2>2
<1>7. QED BY <1>4, <1>6 DEF PublishInv

(* A step that writes no file asks for the run's invariant as it is.             *)
LEMMA Looks ==
    ASSUME PublishInv, NEW p \in Processes, NEW run \in Run, Becomes(p, run), RunInv(p, run),
           UNCHANGED <<manifest, bsl, file, late>>
    PROVE  PublishInv'
<1>1. RunInv(p, run)' BY DEF RunInv, Place, Report, Seen
<1>2. QED BY <1>1, Moves DEF WritesOwn

(* A run that ends says what it has written, and refuses only before it writes.  *)
LEMMA FinishedRun ==
    ASSUME NEW p \in Processes, NEW run \in Run, Report(run), NEW result \in Results,
           result \in Refused => run.replaced = {}
    PROVE  Finished(run, result) \in Run /\ RunInv(p, Finished(run, result))
<1>1. <<>> \in Seq(Files) /\ <<>> \in Seq(Range(Out(p))) /\ 1 \in Nat /\ 0 \in Nat OBVIOUS
<1>2. PICK done : done = Finished(run, result) OBVIOUS
<1>3. /\ done.pc = "done" /\ done.result = result /\ done.policy = "write" /\ done.changed = <<>>
      /\ done.written = run.written /\ done.replaced = run.replaced
  BY <1>2 DEF Finished, Idle
<1>4. done \in Run BY <1>1, <1>2 DEF Finished, Idle, Run, PCs, Policies
<1>5. RunInv(p, done)
  BY <1>1, <1>3 DEF RunInv, Place, Report, Seen, Compiling, Renaming
<1>6. QED BY <1>2, <1>4, <1>5

(* A run ends, with whatever result.                                             *)
LEMMA EndsKeeps ==
    ASSUME PublishInv, NEW p \in Processes, NEW result \in Results, Ends(p, result),
           result \in Refused => proc[p].replaced = {},
           UNCHANGED <<manifest, bsl, file, late>>
    PROVE  PublishInv'
<1>1. proc[p] \in Run /\ Report(proc[p]) BY DEF PublishInv, Types, RunInv
<1>2. QED BY <1>1, FinishedRun, Looks DEF Ends

\* ------------------------------------------------------------------ one lemma per action
(* The variables that a process's look at the file system leaves alone.          *)
Still == UNCHANGED <<manifest, bsl, file, late>>

(* A run that has not yet looked at the outputs reads one thing more.            *)
LEMMA ReadsKeeps ==
    ASSUME PublishInv, NEW p \in Processes, NEW run \in Run, Becomes(p, run), Still,
           proc[p].pc \in Compiling, run.pc \in Compiling,
           run.pc \in {"bytes", "fingerprint", "match"} => p \in Builds,
           run.at = proc[p].at, run.changed = proc[p].changed, run.written = proc[p].written,
           run.replaced = proc[p].replaced, run.result = proc[p].result
    PROVE  PublishInv'
<1>1. RunInv(p, proc[p]) BY DEF PublishInv
<1>2. RunInv(p, run)
  BY <1>1 DEF RunInv, Place, Report, Seen, Compiling, Renaming
<1>3. QED BY <1>2, Looks DEF Still

(* The manifest is read, by a build twice.                                       *)
LEMMA DiscoverKeeps ==
    ASSUME PublishInv, NEW p \in Processes, Discover(p)
    PROVE  PublishInv'
<1>1. proc[p] \in Run /\ manifest \in Nat /\ RunInv(p, proc[p]) BY DEF PublishInv, Types
<1>2. Still BY DEF Discover, Still
<1>3. CASE proc[p].pc = "discover"
           /\ Becomes(p, [proc[p] EXCEPT !.m = manifest, !.pc = IF p \in Builds THEN "bytes" ELSE "check"])
  <2>1. PICK run : run = [proc[p] EXCEPT !.m = manifest, !.pc = IF p \in Builds THEN "bytes" ELSE "check"]
    OBVIOUS
  <2>2. run \in Run /\ run.pc = IF p \in Builds THEN "bytes" ELSE "check"
    BY <1>1, <2>1 DEF Run, PCs, Compiling
  <2>3. /\ run.at = proc[p].at /\ run.changed = proc[p].changed /\ run.written = proc[p].written
        /\ run.replaced = proc[p].replaced /\ run.result = proc[p].result
    BY <1>1, <2>1 DEF Run
  <2>4. proc[p].pc \in Compiling /\ run.pc \in Compiling /\ (run.pc = "bytes" => p \in Builds)
    BY <1>3, <2>2 DEF Compiling
  <2>5. run.pc \notin {"fingerprint", "match"} BY <2>2
  <2>6. QED BY <1>2, <1>3, <2>1, <2>2, <2>3, <2>4, <2>5, ReadsKeeps
<1>4. CASE proc[p].pc = "bytes" /\ Becomes(p, [proc[p] EXCEPT !.key = manifest, !.pc = "fingerprint"])
  <2>1. PICK run : run = [proc[p] EXCEPT !.key = manifest, !.pc = "fingerprint"] OBVIOUS
  <2>2. run \in Run /\ run.pc = "fingerprint" BY <1>1, <2>1 DEF Run, PCs, Compiling
  <2>3. /\ run.at = proc[p].at /\ run.changed = proc[p].changed /\ run.written = proc[p].written
        /\ run.replaced = proc[p].replaced /\ run.result = proc[p].result
    BY <1>1, <2>1 DEF Run
  <2>4. p \in Builds BY <1>1, <1>4 DEF RunInv, Place
  <2>5. QED BY <1>2, <1>4, <2>1, <2>2, <2>3, <2>4, ReadsKeeps DEF Compiling
<1>5. QED BY <1>3, <1>4 DEF Discover

(* The BSL files are fingerprinted.                                              *)
LEMMA FingerprintKeeps ==
    ASSUME PublishInv, NEW p \in Processes, Fingerprint(p)
    PROVE  PublishInv'
<1>1. proc[p] \in Run /\ bsl \in Nat /\ RunInv(p, proc[p]) BY DEF PublishInv, Types
<1>2. Still BY DEF Fingerprint, Still
<1>3. PICK run : run = [proc[p] EXCEPT !.fp = bsl, !.pc = "match"] OBVIOUS
<1>4. run \in Run /\ run.pc = "match" BY <1>1, <1>3 DEF Run, PCs, Compiling
<1>5. /\ run.at = proc[p].at /\ run.changed = proc[p].changed /\ run.written = proc[p].written
      /\ run.replaced = proc[p].replaced /\ run.result = proc[p].result
  BY <1>1, <1>3 DEF Run
<1>6. p \in Builds BY <1>1 DEF RunInv, Place, Fingerprint
<1>7. QED BY <1>2, <1>3, <1>4, <1>5, <1>6, ReadsKeeps DEF Compiling, Fingerprint

(* The cache answers, or the compiler is called.                                 *)
LEMMA LookupKeeps ==
    ASSUME PublishInv, NEW p \in Processes, Lookup(p)
    PROVE  PublishInv'
<1>1. proc[p] \in Run /\ RunInv(p, proc[p]) BY DEF PublishInv, Types
<1>2. Still BY DEF Lookup, Still
<1>3. CASE Ends(p, "hit")
  <2>1. "hit" \in Results /\ "hit" \notin Refused BY DEF Results, Refused
  <2>2. QED BY <1>2, <1>3, <2>1, EndsKeeps DEF Still
<1>4. CASE Becomes(p, [proc[p] EXCEPT !.pc = "check"])
  <2>1. PICK run : run = [proc[p] EXCEPT !.pc = "check"] OBVIOUS
  <2>2. run \in Run /\ run.pc = "check" BY <1>1, <2>1 DEF Run, PCs, Compiling
  <2>3. /\ run.at = proc[p].at /\ run.changed = proc[p].changed /\ run.written = proc[p].written
        /\ run.replaced = proc[p].replaced /\ run.result = proc[p].result
    BY <1>1, <2>1 DEF Run
  <2>4. QED BY <1>2, <1>4, <2>1, <2>2, <2>3, ReadsKeeps DEF Compiling, Lookup
<1>5. QED BY <1>3, <1>4 DEF Lookup

(* The sources compile, or do not.                                               *)
LEMMA CheckSourcesKeeps ==
    ASSUME PublishInv, NEW p \in Processes, CheckSources(p)
    PROVE  PublishInv'
<1>1. proc[p] \in Run /\ bsl \in Nat /\ RunInv(p, proc[p]) BY DEF PublishInv, Types
<1>2. Still BY DEF CheckSources, Still
<1>3. CASE Ends(p, "error")
  <2>1. "error" \in Results /\ "error" \notin Refused BY DEF Results, Refused
  <2>2. QED BY <1>2, <1>3, <2>1, EndsKeeps DEF Still
<1>4. CASE Becomes(p, [proc[p] EXCEPT !.b = bsl, !.pc = "preflight"])
  <2>1. PICK run : run = [proc[p] EXCEPT !.b = bsl, !.pc = "preflight"] OBVIOUS
  <2>2. run \in Run /\ run.pc = "preflight" BY <1>1, <2>1 DEF Run, PCs
  <2>3. /\ run.changed = proc[p].changed /\ run.written = proc[p].written /\ run.at = 1
        /\ run.replaced = proc[p].replaced /\ run.result = proc[p].result
    BY <1>1, <2>1 DEF Run, RunInv, Place, Compiling, CheckSources
  <2>4. 1 \in 1..Len(Out(p)) BY OutputsAreFiles
  <2>5. RunInv(p, run)
    BY <1>1, <2>2, <2>3, <2>4 DEF RunInv, Place, Report, Seen, Compiling, Renaming, CheckSources
  <2>6. QED BY <1>2, <1>4, <2>1, <2>2, <2>5, Looks DEF Still
<1>5. QED BY <1>3, <1>4 DEF CheckSources

\* ------------------------------------------------------------------ publishing
(* What a verdict says of the file: a changed one is no link, and the user's own *)
(* only under --check or --force.                                                *)
LEMMA Verdicts ==
    ASSUME NEW p \in Processes, NEW content
    PROVE  /\ Verdict(p, content) \in {"changed", "current", "invalid", "user_owned"}
           /\ Verdict(p, content) = "changed" /\ proc[p].policy = "write" => content \notin {User, Link}
           /\ Verdict(p, content) = "current" => content = Generated(proc[p].m, proc[p].b)
BY DEF Verdict, None, Link, User, Imported, Generated

(* The next output is looked at, and the run refuses, goes on or is done.        *)
LEMMA PreflightKeeps ==
    ASSUME PublishInv, NEW p \in Processes, Preflight(p)
    PROVE  PublishInv'
<1> DEFINE verdict == IF p \in Imports THEN IF Mine(p) = None THEN "changed" ELSE "exists"
                                       ELSE Verdict(p, Mine(p))
           changed == proc[p].changed \o IF verdict = "changed" THEN <<Out(p)[proc[p].at]>> ELSE <<>>
<1>1. proc[p] \in Run /\ RunInv(p, proc[p]) BY DEF PublishInv, Types
<1>2. UNCHANGED <<manifest, bsl, file, late>> /\ proc[p].pc = "preflight" BY DEF Preflight
<1>3. /\ proc[p].at \in 1..Len(Out(p)) /\ proc[p].at \in Nat /\ proc[p].replaced = {}
      /\ proc[p].changed \in Seq(Range(Out(p))) /\ proc[p].written = {} /\ proc[p].result = "none"
  BY <1>1, <1>2 DEF RunInv, Place, Report, Run
<1>4. Len(Out(p)) \in Nat \ {0} /\ Out(p)[proc[p].at] \in Range(Out(p)) /\ Seq(Range(Out(p))) \subseteq Seq(Files)
  BY <1>3, OutputsAreFiles
<1>5. changed \in Seq(Range(Out(p)))
  <2>1. <<Out(p)[proc[p].at]>> \in Seq(Range(Out(p))) /\ <<>> \in Seq(Range(Out(p))) BY <1>4
  <2>2. QED BY <1>3, <2>1
<1>6. changed \in Seq(Files) BY <1>4, <1>5
<1>7. verdict \in {"changed", "current"} \cup Refused BY Verdicts DEF Refused
<1>8. \/ verdict \notin {"changed", "current"} /\ Ends(p, verdict)
      \/ proc[p].at # Len(Out(p)) /\ Becomes(p, [proc[p] EXCEPT !.at = @ + 1, !.changed = changed])
      \/ proc[p].policy = "check" /\ Ends(p, IF changed = <<>> THEN "ok" ELSE "stale")
      \/ proc[p].policy # "check" /\ Becomes(p, [proc[p] EXCEPT !.pc = "stage", !.at = 1, !.changed = changed])
  BY DEF Preflight
<1> HIDE DEF verdict, changed
<1>9. CASE verdict \notin {"changed", "current"} /\ Ends(p, verdict)
  BY <1>2, <1>3, <1>7, <1>9, EndsKeeps DEF Results
<1>10. CASE proc[p].at # Len(Out(p)) /\ Becomes(p, [proc[p] EXCEPT !.at = @ + 1, !.changed = changed])
  <2>1. PICK run : run = [proc[p] EXCEPT !.at = @ + 1, !.changed = changed] OBVIOUS
  <2>2. run.at = proc[p].at + 1 /\ run.changed = changed BY <1>1, <2>1 DEF Run
  <2>3. run.pc = "preflight" /\ run.written = {} /\ run.replaced = {} /\ run.result = proc[p].result
    BY <1>1, <1>2, <1>3, <2>1 DEF Run
  <2>4. proc[p].at + 1 \in Nat BY <1>3
  <2>5. run \in Run BY <1>1, <1>6, <2>1, <2>4 DEF Run
  <2>6. run.at \in 1..Len(Out(p)) BY <1>3, <1>4, <1>10, <2>2
  <2>7. RunInv(p, run) BY <1>3, <1>5, <2>2, <2>6, <2>3 DEF RunInv, Place, Report, Seen, Compiling, Renaming
  <2>8. QED BY <1>2, <1>10, <2>1, <2>7, <2>5, Looks
<1>11. CASE proc[p].policy = "check" /\ Ends(p, IF changed = <<>> THEN "ok" ELSE "stale")
  <2>1. (IF changed = <<>> THEN "ok" ELSE "stale") \in Results BY DEF Results, Refused
  <2>2. QED BY <1>2, <1>3, <1>11, <2>1, EndsKeeps
<1>12. CASE proc[p].policy # "check" /\ Becomes(p, [proc[p] EXCEPT !.pc = "stage", !.at = 1, !.changed = changed])
  <2>1. PICK run : run = [proc[p] EXCEPT !.pc = "stage", !.at = 1, !.changed = changed] OBVIOUS
  <2>2. run \in Run /\ run.at = 1 /\ run.changed = changed /\ run.pc = "stage"
        /\ run.written = {} /\ run.replaced = {} /\ run.policy = proc[p].policy /\ run.result = proc[p].result
    BY <1>1, <1>3, <1>6, <2>1 DEF Run, PCs
  <2>3. RunInv(p, run) BY <1>3, <1>5, <1>12, <2>2 DEF RunInv, Place, Report, Seen, Compiling, Renaming
  <2>4. QED BY <1>2, <1>12, <2>1, <2>2, <2>3, Looks
<1>13. QED BY <1>8, <1>9, <1>10, <1>11, <1>12

(* A run with no changed file left, of a build or of another.                    *)
LEMMA PublishedRun ==
    ASSUME NEW p \in Processes, NEW run \in Run, Report(run), run.changed \in Seq(Range(Out(p))),
           run.policy # "check", run.result = "none", NEW now, now = Published(p, run)
    PROVE  now \in Run /\ RunInv(p, now)'
<1>1. CASE p \in Builds
  <2>1. now = [run EXCEPT !.pc = "record"] BY <1>1 DEF Published
  <2>2. /\ now \in Run /\ now.pc = "record" /\ now.changed = run.changed /\ now.policy = run.policy
        /\ now.written = run.written /\ now.replaced = run.replaced /\ now.result = run.result
    BY <2>1 DEF Run, PCs
  <2>3. RunInv(p, now)' BY <1>1, <2>2 DEF RunInv, Place, Report, Seen, Compiling, Renaming
  <2>4. QED BY <2>2, <2>3
<1>2. CASE p \notin Builds
  <2>1. "ok" \in Results /\ "ok" \notin Refused BY DEF Results, Refused
  <2>2. Finished(run, "ok") \in Run /\ RunInv(p, Finished(run, "ok")) BY <2>1, FinishedRun
  <2>3. now = Finished(run, "ok") BY <1>2 DEF Published
  <2>4. now.pc = "done" BY <2>3 DEF Finished, Idle
  <2>5. RunInv(p, now)' BY <2>2, <2>3, <2>4 DEF RunInv, Place, Report, Seen
  <2>6. QED BY <2>2, <2>3, <2>5
<1>3. QED BY <1>1, <1>2

(* The changed outputs are staged, or nothing has changed, or it fails.          *)
LEMMA StageKeeps ==
    ASSUME PublishInv, NEW p \in Processes, Stage(p)
    PROVE  PublishInv'
<1>1. proc[p] \in Run /\ RunInv(p, proc[p]) BY DEF PublishInv, Types
<1>2. UNCHANGED <<manifest, bsl, file, late>> /\ proc[p].pc = "stage" BY DEF Stage
<1>3. /\ proc[p].changed \in Seq(Range(Out(p))) /\ proc[p].policy # "check" /\ proc[p].at = 1
      /\ proc[p].result = "none" /\ proc[p].replaced = {} /\ proc[p].written = {}
  BY <1>1, <1>2 DEF RunInv, Place, Report
<1>4. CASE proc[p].changed = <<>> /\ Becomes(p, Published(p, proc[p]))
  <2>1. PICK run : run = proc[p] OBVIOUS
  <2>2. PICK now : now = Published(p, run) OBVIOUS
  <2>3. now \in Run /\ RunInv(p, now)' BY <1>1, <1>3, <2>1, <2>2, PublishedRun DEF RunInv
  <2>4. QED BY <1>2, <1>4, <2>1, <2>2, <2>3, Moves DEF WritesOwn
<1>5. CASE proc[p].changed # <<>> /\ Becomes(p, [proc[p] EXCEPT !.pc = Destination(p)])
           /\ (p \in Imports => \A f \in Range(Out(p)) : file[f] = None)
  <2>1. PICK run : run = [proc[p] EXCEPT !.pc = Destination(p)] OBVIOUS
  <2>2. /\ run \in Run /\ run.pc = Destination(p) /\ run.changed = proc[p].changed /\ run.at = 1
        /\ run.policy = proc[p].policy /\ run.written = {} /\ run.replaced = {} /\ run.result = "none"
    BY <1>1, <1>3, <2>1 DEF Run, PCs, Destination, Renaming
  <2>3. 1 \in 1..Len(run.changed) BY <1>3, <1>5, <2>2
  <2>4. RunInv(p, run)
    BY <1>3, <2>2, <2>3 DEF RunInv, Place, Report, Seen, Destination, Compiling, Renaming
  <2>5. QED BY <1>2, <1>5, <2>1, <2>2, <2>4, Looks
<1>6. CASE Ends(p, "exists")
  <2>1. "exists" \in Results BY DEF Results, Refused
  <2>2. QED BY <1>2, <1>3, <1>6, <2>1, EndsKeeps
<1>7. CASE Ends(p, "error")
  <2>1. "error" \in Results BY DEF Results
  <2>2. QED BY <1>2, <1>3, <1>7, <2>1, EndsKeeps
<1>8. QED BY <1>4, <1>5, <1>6, <1>7 DEF Stage

(* On to the next file, or to the end.                                           *)
LEMMA GoesKeeps ==
    ASSUME PublishInv, NEW p \in Processes, proc[p].pc \in Renaming, NEW wrote \in SUBSET Files, Goes(p, wrote),
           UNCHANGED <<manifest, bsl, late>>,
           WritesOwn
    PROVE  PublishInv'
<1>1. proc[p] \in Run /\ RunInv(p, proc[p]) BY DEF PublishInv, Types
<1>2. /\ proc[p].changed \in Seq(Range(Out(p))) /\ proc[p].policy # "check" /\ proc[p].result = "none"
      /\ proc[p].at \in 1..Len(proc[p].changed) /\ proc[p].written = proc[p].replaced
  BY <1>1 DEF RunInv, Place, Report, Renaming
<1>3. PICK run : run = [proc[p] EXCEPT !.written = @ \cup wrote, !.replaced = @ \cup wrote] OBVIOUS
<1>4. /\ run \in Run /\ run.changed = proc[p].changed /\ run.at = proc[p].at /\ run.pc = proc[p].pc
      /\ run.policy = proc[p].policy /\ run.result = "none" /\ run.written = run.replaced
  BY <1>1, <1>2, <1>3 DEF Run
<1>5. Report(run) BY <1>4 DEF Report, Compiling, Renaming, Refused
<1>6. Becomes(p, IF run.at = Len(run.changed) THEN Published(p, run)
                 ELSE [run EXCEPT !.at = @ + 1, !.pc = Destination(p)])
  BY <1>3 DEF Goes
<1>7. CASE run.at = Len(run.changed)
  <2>1. PICK now : now = Published(p, run) OBVIOUS
  <2>2. now \in Run /\ RunInv(p, now)' BY <1>2, <1>4, <1>5, <2>1, PublishedRun
  <2>3. QED BY <1>6, <1>7, <2>1, <2>2, Moves
<1>8. CASE run.at # Len(run.changed)
  <2>1. PICK on : on = [run EXCEPT !.at = @ + 1, !.pc = Destination(p)] OBVIOUS
  <2>2. /\ on.changed = run.changed /\ on.pc = Destination(p) /\ on.policy = run.policy
        /\ on.result = "none" /\ on.written = on.replaced
    BY <1>4, <2>1 DEF Run
  <2>3. on.at = run.at + 1 BY <1>4, <2>1 DEF Run
  <2>4. Len(run.changed) \in Nat /\ run.at \in 1..Len(run.changed) BY <1>2, <1>4
  <2>5. on.at \in 1..Len(on.changed) /\ run.at + 1 \in Nat BY <1>8, <2>2, <2>3, <2>4
  <2>6. on \in Run BY <1>4, <2>1, <2>5 DEF Run, PCs, Destination, Renaming
  <2>7. RunInv(p, on)'
    BY <1>2, <1>4, <2>2, <2>5 DEF RunInv, Place, Report, Seen, Destination, Compiling, Renaming, Refused
  <2>8. QED BY <1>6, <1>8, <2>1, <2>6, <2>7, Moves
<1>9. QED BY <1>7, <1>8

(* The file that would be replaced is looked at once more.                       *)
LEMMA RecheckKeeps ==
    ASSUME PublishInv, NEW p \in Processes, Recheck(p)
    PROVE  PublishInv'
<1>1. proc[p] \in Run /\ RunInv(p, proc[p]) BY DEF PublishInv, Types
<1>2. UNCHANGED <<manifest, bsl, file, late>> /\ proc[p].pc = "recheck" BY DEF Recheck
<1>3. Mine(p) = file[proc[p].changed[proc[p].at]] BY <1>2 DEF Mine
<1>4. \/ Verdict(p, Mine(p)) = "changed" /\ Becomes(p, [proc[p] EXCEPT !.pc = "persist"])
      \/ Goes(p, {})
      \/ Ends(p, "partial")
  BY Verdicts DEF Recheck
<1>5. CASE Verdict(p, Mine(p)) = "changed" /\ Becomes(p, [proc[p] EXCEPT !.pc = "persist"])
  <2>1. PICK run : run = [proc[p] EXCEPT !.pc = "persist"] OBVIOUS
  <2>2. /\ run \in Run /\ run.pc = "persist" /\ run.changed = proc[p].changed /\ run.at = proc[p].at
        /\ run.policy = proc[p].policy /\ run.written = proc[p].written /\ run.replaced = proc[p].replaced
        /\ run.result = proc[p].result
    BY <1>1, <2>1 DEF Run, PCs, Renaming
  <2>3. run.policy \in Policies /\ run.policy # "check" BY <1>1, <1>2, <2>2 DEF RunInv, Place, Run, Renaming
  <2>4. Seen(p, run)
    <3> SUFFICES ASSUME run.policy # "force", NEW f \in Files, run.changed[run.at] = f
                 PROVE  file[f].by \notin {"user", "link"}
      BY DEF Seen
    <3>1. proc[p].policy = "write" BY <2>2, <2>3 DEF Policies
    <3>2. file[f] \notin {User, Link} BY <1>3, <1>5, <2>2, <3>1, Verdicts
    <3>3. file[f] \in Foreign \/ \E m, b \in Nat : file[f] = Generated(m, b) BY DEF PublishInv, Types
    <3>4. /\ None.by = "none" /\ Imported.by = "import" /\ \A m, b : Generated(m, b).by = "based"
      BY DEF None, Imported, Generated
    <3>5. QED BY <3>2, <3>3, <3>4 DEF Foreign
  <2>5. Place(p, run) /\ Report(run)
    BY <1>1, <1>2, <2>2 DEF RunInv, Place, Report, Compiling, Renaming
  <2>6. QED BY <1>2, <1>5, <2>1, <2>2, <2>4, <2>5, Looks DEF RunInv
<1>6. CASE Goes(p, {})
  <2>1. {} \in SUBSET Files /\ proc[p].pc \in Renaming BY <1>2 DEF Renaming
  <2>2. QED BY <1>2, <1>6, <2>1, GoesKeeps DEF WritesOwn
<1>7. CASE Ends(p, "partial")
  <2>1. "partial" \in Results /\ "partial" \notin Refused BY DEF Results, Refused
  <2>2. QED BY <1>2, <1>7, <2>1, EndsKeeps
<1>8. QED BY <1>4, <1>5, <1>6, <1>7

(* The file that is renamed over, or created, is one of the run's.               *)
LEMMA Renamed ==
    ASSUME PublishInv, NEW p \in Processes, proc[p].pc = "persist"
    PROVE  /\ proc[p].changed[proc[p].at] \in Range(Out(p)) /\ proc[p].changed[proc[p].at] \in Files
           /\ Generated(proc[p].m, proc[p].b) \in Own
<1>1. proc[p] \in Run /\ Place(p, proc[p]) BY DEF PublishInv, Types, RunInv
<1>2. proc[p].changed \in Seq(Range(Out(p))) /\ proc[p].at \in 1..Len(proc[p].changed)
  BY <1>1 DEF Place, Renaming
<1>3. proc[p].changed[proc[p].at] \in Range(Out(p)) BY <1>2
<1>4. proc[p].m \in Nat /\ proc[p].b \in Nat BY <1>1 DEF Run
<1>5. QED BY <1>3, <1>4, OutputsAreFiles DEF Own

(* A rename, or an exclusive creation, succeeds or fails.                        *)
LEMMA PersistKeeps ==
    ASSUME PublishInv, NEW p \in Processes, Persist(p) \/ PersistNew(p)
    PROVE  PublishInv'
<1>1. UNCHANGED <<manifest, bsl, late>> /\ proc[p].pc = "persist" BY DEF Persist, PersistNew
<1>2. CASE Ends(p, "partial") /\ UNCHANGED file
  <2>1. "partial" \in Results /\ "partial" \notin Refused BY DEF Results, Refused
  <2>2. QED BY <1>1, <1>2, <2>1, EndsKeeps
<1>3. PICK f : f = proc[p].changed[proc[p].at] OBVIOUS
<1>4. f \in Files /\ Generated(proc[p].m, proc[p].b) \in Own /\ Imported \in Own
  BY <1>1, <1>3, Renamed DEF Own
<1>5. CASE Goes(p, {f}) /\ \E content \in {Imported, Generated(proc[p].m, proc[p].b)} :
                               file' = [file EXCEPT ![f] = content]
  <2>1. WritesOwn BY <1>4, <1>5 DEF WritesOwn
  <2>2. {f} \in SUBSET Files /\ proc[p].pc \in Renaming BY <1>1, <1>4 DEF Renaming
  <2>3. QED BY <1>1, <1>5, <2>1, <2>2, GoesKeeps
<1>6. QED BY <1>2, <1>3, <1>5 DEF Persist, PersistNew

(* The cache record is written or is not.                                        *)
LEMMA RecordKeeps ==
    ASSUME PublishInv, NEW p \in Processes, Record(p)
    PROVE  PublishInv'
<1>1. UNCHANGED <<manifest, bsl, file, late>> BY DEF Record
<1>2. {"ok", "error"} \subseteq Results /\ "ok" \notin Refused /\ "error" \notin Refused BY DEF Results, Refused
<1>3. Ends(p, "ok") \/ Ends(p, "error") BY DEF Record
<1>4. QED BY <1>1, <1>2, <1>3, EndsKeeps

(* A process is ended from outside.                                              *)
LEMMA DiesKeeps ==
    ASSUME PublishInv, NEW p \in Processes, Dies(p)
    PROVE  PublishInv'
<1>1. UNCHANGED <<manifest, bsl, file, late>> /\ Ends(p, "died") BY DEF Dies
<1>2. "died" \in Results /\ "died" \notin Refused BY DEF Results, Refused
<1>3. QED BY <1>1, <1>2, EndsKeeps

(* A run starts afresh, whatever its process did before.                         *)
LEMMA StartKeeps ==
    ASSUME PublishInv, NEW p \in Processes, Start(p)
    PROVE  PublishInv'
<1>1. PICK policy \in Policies :
         proc' = [proc EXCEPT ![p] = [Idle EXCEPT !.pc = IF p \in Imports THEN "preflight" ELSE "discover",
                                                  !.policy = policy]]
  BY DEF Start, Policies
<1>2. PICK run : run = [Idle EXCEPT !.pc = IF p \in Imports THEN "preflight" ELSE "discover", !.policy = policy]
  OBVIOUS
<1>3. /\ run.pc \in {"preflight", "discover"} /\ run.at = 1 /\ run.changed = <<>> /\ run.result = "none"
      /\ run.written = {} /\ run.replaced = {}
  BY <1>2 DEF Idle
<1>4. run \in Run
  <2>1. Idle \in Run BY IdleRun
  <2>2. QED BY <1>2, <2>1 DEF Run, PCs, Compiling
<1>5. proc' \in [Processes -> Run] /\ proc'[p] = run /\ \A q \in Processes \ {p} : proc'[q] = proc[q]
  BY <1>1, <1>2, <1>4 DEF PublishInv, Types
<1>6. UNCHANGED <<manifest, bsl, file>> /\ late' = {l \in late : l[1] # p} BY DEF Start
<1>7. Types' BY <1>5, <1>6 DEF PublishInv, Types
<1>8. RunInv(p, run)'
  <2>1. 1 \in 1..Len(Out(p)) /\ <<>> \in Seq(Range(Out(p))) BY OutputsAreFiles
  <2>2. QED BY <1>3, <2>1 DEF RunInv, Place, Report, Seen, Compiling, Renaming, Refused
<1>9. ASSUME NEW q \in Processes PROVE RunInv(q, proc[q])'
  <2>1. CASE q = p BY <1>5, <1>8, <2>1 DEF RunInv, Place, Report, Seen
  <2>2. CASE q # p
    <3>1. proc'[q] = proc[q] /\ RunInv(q, proc[q]) BY <1>5, <2>2 DEF PublishInv
    <3>2. \A f \in Files : <<q, f>> \in late => <<q, f>> \in late' BY <1>6, <2>2
    <3>3. Seen(q, proc[q])' BY <1>6, <3>1, <3>2 DEF RunInv, Seen
    <3>4. Place(q, proc[q])' /\ Report(proc[q])' BY <3>1 DEF RunInv, Place, Report
    <3>5. QED BY <3>3, <3>4 DEF RunInv
  <2>3. QED BY <2>1, <2>2
<1>10. QED BY <1>7, <1>9 DEF PublishInv

(* The user takes a file: it is late for every run about to rename over it.      *)
LEMMA TouchesKeeps ==
    ASSUME PublishInv, NEW f \in Files, Touches(f)
    PROVE  PublishInv'
<1>1. PICK content \in {None, User, Link} : file' = [file EXCEPT ![f] = content] BY DEF Touches
<1>2. UNCHANGED <<manifest, bsl, proc>> /\ late' = late \cup {<<p, f>> : p \in {q \in Processes : Renames(q, f)}}
  BY DEF Touches
<1>3. DOMAIN file' = Files /\ file' = [g \in Files |-> file'[g]]
      /\ file'[f] = content /\ \A g \in Files \ {f} : file'[g] = file[g]
  BY <1>1 DEF PublishInv, Types
<1>4. Types' BY <1>2, <1>3 DEF PublishInv, Types, Foreign
<1>5. ASSUME NEW q \in Processes PROVE RunInv(q, proc[q])'
  <2>1. RunInv(q, proc[q]) /\ proc' = proc BY <1>2 DEF PublishInv
  <2>2. Place(q, proc[q])' /\ Report(proc[q])' BY <2>1 DEF RunInv, Place, Report
  <2>3. ASSUME proc[q].pc = "persist", q \notin Imports, proc[q].policy # "force",
               NEW g \in Files, proc[q].changed[proc[q].at] = g
        PROVE  file'[g].by \notin {"user", "link"} \/ <<q, g>> \in late'
    <3>1. CASE g = f
      <4>1. Renames(q, f) BY <2>3, <3>1 DEF Renames
      <4>2. QED BY <1>2, <3>1, <4>1
    <3>2. CASE g # f
      <4>1. file[g].by \notin {"user", "link"} \/ <<q, g>> \in late BY <2>1, <2>3 DEF RunInv, Seen
      <4>2. QED BY <1>2, <1>3, <3>2, <4>1
    <3>3. QED BY <3>1, <3>2
  <2>4. Seen(q, proc[q])' BY <2>1, <2>3 DEF Seen
  <2>5. QED BY <2>2, <2>4 DEF RunInv
<1>6. QED BY <1>4, <1>5 DEF PublishInv

(* Nothing of it depends on which of its versions a source has.                  *)
LEMMA EditKeeps ==
    ASSUME PublishInv, EditSource
    PROVE  PublishInv'
<1>1. manifest' \in Nat /\ bsl' \in Nat BY DEF EditSource, PublishInv, Types
<1>2. UNCHANGED <<file, proc, late>> BY DEF EditSource
<1>3. QED BY <1>1, <1>2 DEF PublishInv, Types, RunInv, Place, Report, Seen

\* ------------------------------------------------------------------ all steps
(* The invariant holds at the start.                                             *)
LEMMA InitPublish == Init => PublishInv
<1> SUFFICES ASSUME Init PROVE PublishInv OBVIOUS
<1>1. Types
  <2>1. manifest \in Nat /\ bsl \in Nat BY DEF Init
  <2>2. proc \in [Processes -> Run] BY IdleRun DEF Init
  <2>3. QED BY <2>1, <2>2 DEF Init, Types, Foreign
<1>2. \A p \in Processes : RunInv(p, proc[p]) BY IdleRun DEF Init
<1>3. QED BY <1>1, <1>2 DEF PublishInv

(* Every step keeps it.                                                          *)
LEMMA NextPublish == PublishInv /\ [Next]_vars => PublishInv'
<1> SUFFICES ASSUME PublishInv, [Next]_vars PROVE PublishInv' OBVIOUS
<1>1. ASSUME NEW p \in Processes, Step(p) PROVE PublishInv'
  BY <1>1, StartKeeps, DiscoverKeeps, FingerprintKeeps, LookupKeeps, CheckSourcesKeeps, PreflightKeeps,
     StageKeeps, RecheckKeeps, PersistKeeps, RecordKeeps, DiesKeeps DEF Step
<1>2. CASE UNCHANGED vars BY <1>2 DEF vars, PublishInv, Types, RunInv, Place, Report, Seen
<1>3. QED BY <1>1, <1>2, EditKeeps, TouchesKeeps DEF Next

(* The inductive invariant of the publication holds in every reachable state.    *)
THEOREM Always == Spec => []PublishInv
BY InitPublish, NextPublish, PTL DEF Spec

(* publish, import's write: for any outputs and however runs overlap, fail and    *)
(* die, what a run that ends says it has written is what it has replaced, and a   *)
(* refusal or a failed check has replaced nothing.                                *)
THEOREM ReportsAreExact == Spec => []ReportIsExact
<1>1. PublishInv => ReportIsExact BY DEF PublishInv, RunInv, Report, ReportIsExact, Refused
<1>2. QED BY <1>1, Always, PTL

\* ------------------------------------------------------------------ the user's files
(* The step of a process p: the other processes replace nothing by it, and it    *)
(* replaces only what it says.                                                   *)
LEMMA GoesReplaces ==
    ASSUME PublishInv, NEW p \in Processes, NEW wrote, Goes(p, wrote)
    PROVE  proc'[p].replaced = proc[p].replaced \cup wrote /\ \A q \in Processes \ {p} : proc'[q] = proc[q]
<1>1. proc \in [Processes -> Run] BY DEF PublishInv, Types
<1>2. PICK run : run = [proc[p] EXCEPT !.written = @ \cup wrote, !.replaced = @ \cup wrote] OBVIOUS
<1>3. run.replaced = proc[p].replaced \cup wrote BY <1>1, <1>2 DEF Run
<1>4. PICK now : /\ now = IF run.at = Len(run.changed) THEN Published(p, run)
                          ELSE [run EXCEPT !.at = @ + 1, !.pc = Destination(p)]
                 /\ Becomes(p, now)
  BY <1>2 DEF Goes
<1>5. now.replaced = run.replaced
  <2>1. [run EXCEPT !.at = @ + 1, !.pc = Destination(p)].replaced = run.replaced BY <1>1, <1>2 DEF Run
  <2>2. [run EXCEPT !.pc = "record"].replaced = run.replaced BY <1>1, <1>2 DEF Run
  <2>3. Finished(run, "ok").replaced = run.replaced BY DEF Finished, Idle
  <2>4. Published(p, run).replaced = run.replaced BY <2>2, <2>3 DEF Published
  <2>5. QED BY <1>4, <2>1, <2>4
<1>6. proc'[p] = now /\ \A q \in Processes \ {p} : proc'[q] = proc[q] BY <1>1, <1>4 DEF Becomes
<1>7. QED BY <1>3, <1>5, <1>6

(* A step that replaces a file is a rename.                                      *)
LEMMA OnlyRenamesReplace ==
    ASSUME PublishInv, Next, NEW p \in Processes, NEW f \in Files, f \in proc'[p].replaced \ proc[p].replaced
    PROVE  /\ proc[p].pc = "persist" /\ f = proc[p].changed[proc[p].at]
           /\ p \in Imports => file[f] = None
<1>1. proc \in [Processes -> Run] BY DEF PublishInv, Types
<1>2. ASSUME proc' = proc PROVE FALSE BY <1>2
<1>3. ASSUME NEW q \in Processes, NEW run, Becomes(q, run), run.replaced \in {{}, proc[q].replaced} PROVE FALSE
  <2>1. proc'[q] = run /\ \A r \in Processes \ {q} : proc'[r] = proc[r] BY <1>1, <1>3 DEF Becomes
  <2>2. QED BY <1>3, <2>1
<1>4. ASSUME NEW q \in Processes, NEW result, Ends(q, result) PROVE FALSE
  <2>1. Finished(proc[q], result).replaced = proc[q].replaced BY DEF Finished, Idle
  <2>2. QED BY <1>3, <1>4, <2>1 DEF Ends
<1>5. ASSUME NEW q \in Processes, NEW wrote, Goes(q, wrote) PROVE p = q /\ f \in wrote
  <2>1. proc'[q].replaced = proc[q].replaced \cup wrote /\ \A r \in Processes \ {q} : proc'[r] = proc[r]
    BY <1>5, GoesReplaces
  <2>2. QED BY <2>1
<1>6. PICK q \in Processes : Step(q) BY <1>2 DEF Next, EditSource, Touches
<1>7. proc[q] \in Run BY <1>1
<1>8. CASE Start(q)
  <2>1. PICK policy, pc : Becomes(q, [Idle EXCEPT !.pc = pc, !.policy = policy]) BY <1>8 DEF Start, Becomes
  <2>2. [Idle EXCEPT !.pc = pc, !.policy = policy].replaced = {} BY DEF Idle
  <2>3. QED BY <1>3, <2>1, <2>2
<1>9. CASE Discover(q)
  <2>1. \A pc : /\ [proc[q] EXCEPT !.m = manifest, !.pc = pc].replaced = proc[q].replaced
                /\ [proc[q] EXCEPT !.key = manifest, !.pc = pc].replaced = proc[q].replaced
    BY <1>7 DEF Run
  <2>2. QED BY <1>3, <1>9, <2>1 DEF Discover
<1>10. CASE Fingerprint(q)
  <2>1. [proc[q] EXCEPT !.fp = bsl, !.pc = "match"].replaced = proc[q].replaced BY <1>7 DEF Run
  <2>2. QED BY <1>3, <1>10, <2>1 DEF Fingerprint
<1>11. CASE Lookup(q)
  <2>1. [proc[q] EXCEPT !.pc = "check"].replaced = proc[q].replaced BY <1>7 DEF Run
  <2>2. QED BY <1>3, <1>4, <1>11, <2>1 DEF Lookup
<1>12. CASE CheckSources(q)
  <2>1. [proc[q] EXCEPT !.b = bsl, !.pc = "preflight"].replaced = proc[q].replaced BY <1>7 DEF Run
  <2>2. QED BY <1>3, <1>4, <1>12, <2>1 DEF CheckSources
<1>13. CASE Preflight(q)
  <2>1. \A changed, at : /\ [proc[q] EXCEPT !.at = at, !.changed = changed].replaced = proc[q].replaced
                         /\ [proc[q] EXCEPT !.pc = "stage", !.at = 1, !.changed = changed].replaced = proc[q].replaced
    BY <1>7 DEF Run
  <2>2. \/ \E result : Ends(q, result)
        \/ \E changed : Becomes(q, [proc[q] EXCEPT !.at = proc[q].at + 1, !.changed = changed])
        \/ \E changed : Becomes(q, [proc[q] EXCEPT !.pc = "stage", !.at = 1, !.changed = changed])
    BY <1>13 DEF Preflight
  <2>3. QED BY <1>3, <1>4, <2>1, <2>2
<1>14. CASE Stage(q)
  <2>1. \A pc : [proc[q] EXCEPT !.pc = pc].replaced = proc[q].replaced BY <1>7 DEF Run
  <2>2. Published(q, proc[q]).replaced = proc[q].replaced BY <2>1 DEF Published, Finished, Idle
  <2>3. QED BY <1>3, <1>4, <1>14, <2>1, <2>2 DEF Stage
<1>15. CASE Recheck(q)
  <2>1. [proc[q] EXCEPT !.pc = "persist"].replaced = proc[q].replaced BY <1>7 DEF Run
  <2>2. \/ Becomes(q, [proc[q] EXCEPT !.pc = "persist"]) \/ Goes(q, {}) \/ Ends(q, "partial")
    BY <1>15, Verdicts DEF Recheck
  <2>3. QED BY <1>3, <1>4, <1>5, <2>1, <2>2
<1>16. CASE Persist(q) \/ PersistNew(q)
  <2>1. Goes(q, {proc[q].changed[proc[q].at]}) BY <1>4, <1>16 DEF Persist, PersistNew
  <2>2. p = q /\ f = proc[q].changed[proc[q].at] BY <1>5, <2>1
  <2>3. proc[q].pc = "persist" BY <1>16 DEF Persist, PersistNew
  <2>4. p \in Imports => file[f] = None BY <1>4, <1>16, <2>2 DEF Persist, PersistNew
  <2>5. QED BY <2>2, <2>3, <2>4
<1>17. CASE Record(q) BY <1>4, <1>17 DEF Record
<1>18. CASE Dies(q) BY <1>4, <1>18 DEF Dies
<1>19. QED
  BY <1>6, <1>8, <1>9, <1>10, <1>11, <1>12, <1>13, <1>14, <1>15, <1>16, <1>17, <1>18 DEF Step

(* publish without --force, persist_noclobber: for any outputs and any number of  *)
(* processes, a file that the user has taken over stays unless it is taken in the *)
(* moment between a run's last look at it and its rename; and an import never     *)
(* replaces anything.                                                             *)
THEOREM UserFilesAreKept == Spec => UserFilesKept
<1>1. PublishInv /\ [Next]_vars =>
         [\A f \in Files, p \in Processes :
             f \in proc'[p].replaced \ proc[p].replaced =>
                IF p \in Imports THEN file[f] = None
                ELSE file[f].by \in {"user", "link"} => proc[p].policy = "force" \/ <<p, f>> \in late]_vars
  <2> SUFFICES ASSUME PublishInv, Next, NEW f \in Files, NEW p \in Processes,
                      f \in proc'[p].replaced \ proc[p].replaced
               PROVE  IF p \in Imports THEN file[f] = None
                      ELSE file[f].by \in {"user", "link"} => proc[p].policy = "force" \/ <<p, f>> \in late
    OBVIOUS
  <2>1. proc[p].pc = "persist" /\ f = proc[p].changed[proc[p].at] /\ (p \in Imports => file[f] = None)
    BY OnlyRenamesReplace
  <2>2. Seen(p, proc[p]) BY DEF PublishInv, RunInv
  <2>3. QED BY <2>1, <2>2 DEF Seen
<1>2. QED BY <1>1, Always, PTL DEF Spec, UserFilesKept

\* ------------------------------------------------------------------ the build's cache
(* A build has read the sources as they are, and what it has come to of the      *)
(* client is what they make.                                                     *)
Fresh(run) ==
    /\ run.pc \notin {"idle", "done", "discover"} => run.m = manifest
    /\ run.pc \notin {"idle", "done", "discover", "bytes"} => run.key = manifest
    /\ run.pc \notin {"idle", "done", "discover", "bytes", "fingerprint"} => run.fp = bsl
    /\ run.pc \in Renaming \cup {"preflight", "stage", "record"} => run.b = bsl
    /\ run.pc \in Compiling \cup {"preflight"} => run.at = 1 /\ run.changed = <<>>
    /\ run.pc = "stage" =>
          \/ run.changed = <<>> /\ file[Client] = Generated(manifest, bsl)
          \/ run.changed = <<Client>>
    /\ run.pc \in Renaming => run.at = 1 /\ run.changed = <<Client>>
    /\ run.pc = "record" => file[Client] = Generated(manifest, bsl)

BuildInv ==
    /\ \A p \in Builds : Fresh(proc[p])
    /\ record = NoRecord \/ record.out = Generated(record.m, record.b)

(* The sources stand still while a build runs (generate reads the manifest, and  *)
(* each BSL file, twice).                                                        *)
SourcesStand == ~EditsDuringBuild

(* A build writes the client and nothing else.                                   *)
LEMMA BuildOutput ==
    ASSUME NEW p \in Builds
    PROVE  Kind(p) = "build" /\ Out(p) = <<Client>> /\ Len(Out(p)) = 1 /\ Out(p)[1] = Client
<1>1. Kind(p) = "build" BY DEF Kind
<1>2. Out(p) = <<Client>> BY <1>1 DEF Out
<1>3. Len(<<Client>>) = 1 /\ <<Client>>[1] = Client OBVIOUS
<1>4. QED BY <1>1, <1>2, <1>3

(* A build's step: the other builds have read the same sources, and the client   *)
(* changes only into what they make.                                             *)
LEMMA BuildMoves ==
    ASSUME PublishInv, BuildInv, NEW p \in Builds, NEW run, Becomes(p, run), Fresh(run)',
           UNCHANGED <<manifest, bsl>>,
           file'[Client] = file[Client] \/ file'[Client] = Generated(manifest, bsl),
           record' = record \/ record'.out = Generated(record'.m, record'.b)
    PROVE  BuildInv'
<1>1. proc'[p] = run /\ \A q \in Builds \ {p} : proc'[q] = proc[q]
  BY DEF PublishInv, Types, Becomes, Processes
<1>2. ASSUME NEW q \in Builds PROVE Fresh(proc[q])'
  <2>1. CASE q = p BY <1>1, <2>1 DEF Fresh
  <2>2. CASE q # p
    <3>1. proc'[q] = proc[q] /\ Fresh(proc[q]) BY <1>1, <2>2 DEF BuildInv
    <3>2. QED BY <3>1 DEF Fresh
  <2>3. QED BY <2>1, <2>2
<1>3. QED BY <1>2 DEF BuildInv

(* A build that ends has nothing left to be fresh.                               *)
LEMMA BuildEnds ==
    ASSUME PublishInv, BuildInv, NEW p \in Builds, NEW result, Ends(p, result),
           UNCHANGED <<manifest, bsl, file>>,
           record' = record \/ record'.out = Generated(record'.m, record'.b)
    PROVE  BuildInv'
<1>1. PICK run : run = Finished(proc[p], result) OBVIOUS
<1>2. run.pc = "done" BY <1>1 DEF Finished, Idle
<1>3. Fresh(run)' BY <1>2 DEF Fresh, Compiling, Renaming
<1>4. QED BY <1>1, <1>3, BuildMoves DEF Ends

(* After its one file a build goes on to its record.                             *)
LEMMA BuildGoes ==
    ASSUME PublishInv, BuildInv, NEW p \in Builds, NEW wrote, Goes(p, wrote), proc[p].pc \in Renaming,
           UNCHANGED <<manifest, bsl, record>>, file'[Client] = Generated(manifest, bsl)
    PROVE  BuildInv'
<1>1. proc[p] \in Run /\ Fresh(proc[p]) BY DEF PublishInv, Types, BuildInv, Processes
<1>2. /\ proc[p].at = 1 /\ proc[p].changed = <<Client>> /\ proc[p].m = manifest /\ proc[p].key = manifest
      /\ proc[p].fp = bsl /\ proc[p].b = bsl
  BY <1>1 DEF Fresh, Renaming
<1>3. PICK run : run = [proc[p] EXCEPT !.written = @ \cup wrote, !.replaced = @ \cup wrote] OBVIOUS
<1>4. run.at = 1 /\ run.changed = <<Client>> /\ Len(run.changed) = 1 BY <1>1, <1>2, <1>3 DEF Run
<1>5. PICK now : now = [run EXCEPT !.pc = "record"] OBVIOUS
<1>6. Becomes(p, now) BY <1>3, <1>4, <1>5 DEF Goes, Published
<1>7. now.pc = "record" /\ now.m = manifest /\ now.key = manifest /\ now.fp = bsl /\ now.b = bsl
  BY <1>1, <1>2, <1>3, <1>5 DEF Run
<1>8. Fresh(now)' BY <1>7 DEF Fresh, Compiling, Renaming
<1>9. QED BY <1>6, <1>8, BuildMoves

(* Reading a source brings the run up to it.                                     *)
LEMMA BuildReads ==
    ASSUME PublishInv, BuildInv, NEW p \in Builds,
           Discover(p) \/ Fingerprint(p) \/ Lookup(p) \/ CheckSources(p)
    PROVE  BuildInv'
<1>1. proc[p] \in Run /\ Fresh(proc[p]) BY DEF PublishInv, Types, BuildInv, Processes
<1>2. UNCHANGED <<manifest, bsl, file, record>> BY DEF Discover, Fingerprint, Lookup, CheckSources
<1>3. ASSUME NEW run, Becomes(p, run), Fresh(run) PROVE BuildInv'
  <2>1. Fresh(run)' BY <1>2, <1>3 DEF Fresh
  <2>2. QED BY <1>2, <1>3, <2>1, BuildMoves
<1>4. CASE proc[p].pc = "discover" /\ Becomes(p, [proc[p] EXCEPT !.m = manifest, !.pc = "bytes"])
  <2>1. PICK run : run = [proc[p] EXCEPT !.m = manifest, !.pc = "bytes"] OBVIOUS
  <2>2. run.pc = "bytes" /\ run.m = manifest /\ run.at = proc[p].at /\ run.changed = proc[p].changed
    BY <1>1, <2>1 DEF Run
  <2>3. Fresh(run) BY <1>1, <1>4, <2>2 DEF Fresh, Compiling, Renaming
  <2>4. QED BY <1>3, <1>4, <2>1, <2>3
<1>5. CASE proc[p].pc = "bytes" /\ Becomes(p, [proc[p] EXCEPT !.key = manifest, !.pc = "fingerprint"])
  <2>1. PICK run : run = [proc[p] EXCEPT !.key = manifest, !.pc = "fingerprint"] OBVIOUS
  <2>2. /\ run.pc = "fingerprint" /\ run.m = proc[p].m /\ run.key = manifest
        /\ run.at = proc[p].at /\ run.changed = proc[p].changed
    BY <1>1, <2>1 DEF Run
  <2>3. Fresh(run) BY <1>1, <1>5, <2>2 DEF Fresh, Compiling, Renaming
  <2>4. QED BY <1>3, <1>5, <2>1, <2>3
<1>6. CASE proc[p].pc = "fingerprint" /\ Becomes(p, [proc[p] EXCEPT !.fp = bsl, !.pc = "match"])
  <2>1. PICK run : run = [proc[p] EXCEPT !.fp = bsl, !.pc = "match"] OBVIOUS
  <2>2. /\ run.pc = "match" /\ run.m = proc[p].m /\ run.key = proc[p].key /\ run.fp = bsl
        /\ run.at = proc[p].at /\ run.changed = proc[p].changed
    BY <1>1, <2>1 DEF Run
  <2>3. Fresh(run) BY <1>1, <1>6, <2>2 DEF Fresh, Compiling, Renaming
  <2>4. QED BY <1>3, <1>6, <2>1, <2>3
<1>7. CASE proc[p].pc = "match" /\ Becomes(p, [proc[p] EXCEPT !.pc = "check"])
  <2>1. PICK run : run = [proc[p] EXCEPT !.pc = "check"] OBVIOUS
  <2>2. /\ run.pc = "check" /\ run.m = proc[p].m /\ run.key = proc[p].key /\ run.fp = proc[p].fp
        /\ run.at = proc[p].at /\ run.changed = proc[p].changed
    BY <1>1, <2>1 DEF Run
  <2>3. Fresh(run) BY <1>1, <1>7, <2>2 DEF Fresh, Compiling, Renaming
  <2>4. QED BY <1>3, <1>7, <2>1, <2>3
<1>8. CASE proc[p].pc = "check" /\ Becomes(p, [proc[p] EXCEPT !.b = bsl, !.pc = "preflight"])
  <2>1. PICK run : run = [proc[p] EXCEPT !.b = bsl, !.pc = "preflight"] OBVIOUS
  <2>2. /\ run.pc = "preflight" /\ run.m = proc[p].m /\ run.key = proc[p].key /\ run.fp = proc[p].fp /\ run.b = bsl
        /\ run.at = proc[p].at /\ run.changed = proc[p].changed
    BY <1>1, <2>1 DEF Run
  <2>3. Fresh(run) BY <1>1, <1>8, <2>2 DEF Fresh, Compiling, Renaming
  <2>4. QED BY <1>3, <1>8, <2>1, <2>3
<1>9. CASE \E result : Ends(p, result) BY <1>2, <1>9, BuildEnds
<1>10. QED BY <1>4, <1>5, <1>6, <1>7, <1>8, <1>9 DEF Discover, Fingerprint, Lookup, CheckSources

(* A build finds the client current, or makes it what its sources make.          *)
LEMMA BuildPublishes ==
    ASSUME PublishInv, BuildInv, NEW p \in Builds, Preflight(p) \/ Stage(p) \/ Recheck(p) \/ Persist(p)
    PROVE  BuildInv'
<1>1. proc[p] \in Run /\ Fresh(proc[p]) BY DEF PublishInv, Types, BuildInv, Processes
<1>2. UNCHANGED <<manifest, bsl, record>> /\ p \in Processes /\ p \notin Imports
  BY DEF Preflight, Stage, Recheck, Persist, Processes
<1>3. proc[p].m = manifest /\ proc[p].b = bsl /\ proc[p].key = manifest /\ proc[p].fp = bsl
  BY <1>1 DEF Preflight, Stage, Recheck, Persist, Fresh, Renaming
<1>4. CASE (\E result : Ends(p, result)) /\ UNCHANGED file BY <1>2, <1>4, BuildEnds
<1>5. CASE Preflight(p)
  <2>1. /\ proc[p].at = 1 /\ proc[p].changed = <<>> /\ proc[p].pc = "preflight" /\ UNCHANGED file
    BY <1>1, <1>5 DEF Fresh, Preflight
  <2>2. Len(Out(p)) = 1 /\ Out(p)[1] = Client BY BuildOutput
  <2>3. Mine(p) = file[Client] BY <2>1, <2>2 DEF Mine
  <2>4. PICK verdict : verdict = Verdict(p, file[Client]) OBVIOUS
  <2>5. PICK changed : changed = IF verdict = "changed" THEN <<Client>> ELSE <<>> OBVIOUS
  <2>6. <<>> \o <<Client>> = <<Client>> /\ <<>> \o <<>> = <<>> OBVIOUS
  <2>7. \/ \E result : Ends(p, result)
        \/ verdict \in {"changed", "current"}
           /\ Becomes(p, [proc[p] EXCEPT !.pc = "stage", !.at = 1, !.changed = changed])
    BY <1>2, <1>5, <2>1, <2>2, <2>3, <2>4, <2>5, <2>6 DEF Preflight
  <2>8. CASE verdict \in {"changed", "current"}
             /\ Becomes(p, [proc[p] EXCEPT !.pc = "stage", !.at = 1, !.changed = changed])
    <3>1. PICK run : run = [proc[p] EXCEPT !.pc = "stage", !.at = 1, !.changed = changed] OBVIOUS
    <3>2. /\ run.pc = "stage" /\ run.at = 1 /\ run.changed = changed /\ run.m = manifest /\ run.key = manifest
          /\ run.fp = bsl /\ run.b = bsl
      BY <1>1, <1>3, <3>1 DEF Run
    <3>3. verdict = "current" => file[Client] = Generated(manifest, bsl) BY <1>2, <1>3, <2>4, Verdicts
    <3>4. changed = <<Client>> \/ (changed = <<>> /\ file[Client] = Generated(manifest, bsl))
      BY <2>5, <2>8, <3>3
    <3>5. Fresh(run)' BY <1>2, <2>1, <3>2, <3>4 DEF Fresh, Compiling, Renaming
    <3>6. QED BY <1>2, <2>1, <2>8, <3>1, <3>5, BuildMoves
  <2>9. QED BY <1>4, <2>1, <2>7, <2>8
<1>6. CASE Stage(p)
  <2>1. UNCHANGED file /\ proc[p].pc = "stage" BY <1>6 DEF Stage
  <2>2. (proc[p].changed = <<>> /\ file[Client] = Generated(manifest, bsl)) \/ proc[p].changed = <<Client>>
    BY <1>1, <2>1 DEF Fresh
  <2>3. CASE proc[p].changed = <<>> /\ Becomes(p, Published(p, proc[p]))
    <3>1. PICK run : run = [proc[p] EXCEPT !.pc = "record"] OBVIOUS
    <3>2. run.pc = "record" /\ run.m = manifest /\ run.key = manifest /\ run.fp = bsl /\ run.b = bsl
      BY <1>1, <1>3, <3>1 DEF Run
    <3>3. file[Client] = Generated(manifest, bsl)
      <4>1. <<Client>> # <<>> OBVIOUS
      <4>2. QED BY <2>2, <2>3, <4>1
    <3>4. Fresh(run)' BY <1>2, <2>1, <3>2, <3>3 DEF Fresh, Compiling, Renaming
    <3>5. Becomes(p, run) BY <2>3, <3>1 DEF Published
    <3>6. QED BY <1>2, <2>1, <3>4, <3>5, BuildMoves
  <2>4. CASE proc[p].changed # <<>> /\ Becomes(p, [proc[p] EXCEPT !.pc = "recheck"])
    <3>1. PICK run : run = [proc[p] EXCEPT !.pc = "recheck"] OBVIOUS
    <3>2. /\ run.pc = "recheck" /\ run.m = manifest /\ run.key = manifest /\ run.fp = bsl /\ run.b = bsl
          /\ run.at = proc[p].at /\ run.changed = proc[p].changed
      BY <1>1, <1>3, <3>1 DEF Run
    <3>3. Place(p, proc[p]) BY <1>2 DEF PublishInv, RunInv
    <3>4. run.at = 1 /\ run.changed = <<Client>> BY <2>1, <2>2, <2>4, <3>2, <3>3 DEF Place
    <3>5. Fresh(run)' BY <1>2, <3>2, <3>4 DEF Fresh, Compiling, Renaming
    <3>6. QED BY <1>2, <2>1, <2>4, <3>1, <3>5, BuildMoves
  <2>5. QED BY <1>2, <1>4, <1>6, <2>1, <2>3, <2>4 DEF Stage, Destination
<1>7. CASE Recheck(p)
  <2>1. UNCHANGED file /\ proc[p].pc = "recheck" BY <1>7 DEF Recheck
  <2>2. proc[p].at = 1 /\ proc[p].changed = <<Client>> BY <1>1, <2>1 DEF Fresh, Renaming
  <2>3. Mine(p) = file[Client] BY <2>1, <2>2 DEF Mine
  <2>4. \/ Becomes(p, [proc[p] EXCEPT !.pc = "persist"])
        \/ Verdict(p, file[Client]) = "current" /\ Goes(p, {})
        \/ Ends(p, "partial")
    BY <1>2, <1>7, <2>3, Verdicts DEF Recheck
  <2>5. CASE Becomes(p, [proc[p] EXCEPT !.pc = "persist"])
    <3>1. PICK run : run = [proc[p] EXCEPT !.pc = "persist"] OBVIOUS
    <3>2. /\ run.pc = "persist" /\ run.m = manifest /\ run.key = manifest /\ run.fp = bsl /\ run.b = bsl
          /\ run.at = 1 /\ run.changed = <<Client>>
      BY <1>1, <1>3, <2>2, <3>1 DEF Run
    <3>3. Fresh(run)' BY <1>2, <3>2 DEF Fresh, Compiling, Renaming
    <3>4. QED BY <1>2, <2>1, <2>5, <3>1, <3>3, BuildMoves
  <2>6. CASE Verdict(p, file[Client]) = "current" /\ Goes(p, {})
    <3>1. file'[Client] = Generated(manifest, bsl) BY <1>2, <1>3, <2>1, <2>6, Verdicts
    <3>2. proc[p].pc \in Renaming BY <2>1 DEF Renaming
    <3>3. QED BY <1>2, <2>6, <3>1, <3>2, BuildGoes
  <2>7. QED BY <1>4, <2>1, <2>4, <2>5, <2>6
<1>8. CASE Persist(p)
  <2>1. proc[p].pc = "persist" BY <1>8 DEF Persist
  <2>2. proc[p].at = 1 /\ proc[p].changed = <<Client>> BY <1>1, <2>1 DEF Fresh, Renaming
  <2>3. proc[p].changed[proc[p].at] = Client BY <2>2
  <2>4. \/ file' = [file EXCEPT ![Client] = Generated(manifest, bsl)] /\ Goes(p, {Client})
        \/ UNCHANGED file /\ Ends(p, "partial")
    BY <1>3, <1>8, <2>3 DEF Persist
  <2>5. CASE file' = [file EXCEPT ![Client] = Generated(manifest, bsl)] /\ Goes(p, {Client})
    <3>1. Client \in Files BY <1>2, <2>1, <2>3, Renamed
    <3>2. file'[Client] = Generated(manifest, bsl) BY <2>5, <3>1 DEF PublishInv, Types
    <3>3. proc[p].pc \in Renaming BY <2>1 DEF Renaming
    <3>4. QED BY <1>2, <2>5, <3>2, <3>3, BuildGoes
  <2>6. QED BY <1>4, <2>4, <2>5
<1>9. QED BY <1>5, <1>6, <1>7, <1>8

(* The record is of the client as the sources make it.                           *)
LEMMA BuildRecords ==
    ASSUME PublishInv, BuildInv, NEW p \in Builds, Record(p)
    PROVE  BuildInv'
<1>1. UNCHANGED <<manifest, bsl, file>> /\ proc[p].pc = "record" BY DEF Record
<1>2. Fresh(proc[p]) BY DEF BuildInv
<1>3. proc[p].key = manifest /\ proc[p].fp = bsl /\ file[Client] = Generated(manifest, bsl)
  BY <1>1, <1>2 DEF Fresh
<1>4. record' = record \/ record'.out = Generated(record'.m, record'.b)
  <2>1. CASE record' = [m |-> proc[p].key, b |-> proc[p].fp, out |-> file[Client]] BY <1>3, <2>1
  <2>2. QED BY <2>1 DEF Record
<1>5. QED BY <1>1, <1>4, BuildEnds DEF Record

(* Other processes write other files.                                            *)
LEMMA OthersKeepBuilds ==
    ASSUME PublishInv, BuildInv, NEW p \in Processes, p \notin Builds, Step(p)
    PROVE  BuildInv'
<1>1. \A q \in Builds : proc'[q] = proc[q]
  <2>1. \E run : Becomes(p, run)
    BY DEF Step, Start, Discover, Fingerprint, Lookup, CheckSources, Preflight, Stage, Recheck, Persist,
           PersistNew, Record, Dies, Ends, Goes, Becomes
  <2>2. QED BY <2>1 DEF Becomes, PublishInv, Types, Processes
<1>2. UNCHANGED <<manifest, bsl>>
  BY DEF Step, Start, Discover, Fingerprint, Lookup, CheckSources, Preflight, Stage, Recheck, Persist,
         PersistNew, Record, Dies
<1>3. UNCHANGED record
  <2>1. ~Record(p) BY DEF PublishInv, RunInv, Place, Record
  <2>2. QED BY <2>1 DEF Step, Start, Discover, Fingerprint, Lookup, CheckSources, Preflight, Stage, Recheck, Persist,
         PersistNew, Record, Dies
<1>4. file'[Client] = file[Client]
  <2>1. CASE Persist(p) \/ PersistNew(p)
    <3>1. PICK f : f = proc[p].changed[proc[p].at] OBVIOUS
    <3>2. proc[p].pc = "persist" BY <2>1 DEF Persist, PersistNew
    <3>3. f \in Range(Out(p)) BY <3>1, <3>2, Renamed
    <3>4. Kind(p) \in {"gen", "import"} BY DEF Kind
    <3>5. f # Client BY <3>3, <3>4 DEF Out
    <3>6. DOMAIN file = Files /\ file = [g \in Files |-> file[g]] BY DEF PublishInv, Types
    <3>7. file' = file \/ \E content : file' = [file EXCEPT ![f] = content]
      BY <2>1, <3>1 DEF Persist, PersistNew
    <3>8. CASE Client \in Files BY <3>5, <3>6, <3>7, <3>8
    <3>9. CASE Client \notin Files
      <4>1. Client \in Range(Outputs["build"])
        <5>1. Outputs["build"] = <<Client>> /\ DOMAIN <<Client>> = 1..1 /\ <<Client>>[1] = Client OBVIOUS
        <5>2. QED BY <5>1 DEF Range
      <4>2. QED BY <3>9, <4>1 DEF Files
    <3>10. QED BY <3>8, <3>9
  <2>2. CASE ~(Persist(p) \/ PersistNew(p))
    BY <2>2 DEF Step, Start, Discover, Fingerprint, Lookup, CheckSources, Preflight, Stage, Recheck, Record, Dies
  <2>3. QED BY <2>1, <2>2
<1>5. QED BY <1>1, <1>2, <1>3, <1>4 DEF BuildInv, Fresh

(* Every step keeps the builds' invariant while the sources stand still under    *)
(* them.                                                                         *)
LEMMA NextBuild ==
    ASSUME SourcesStand, PublishInv, BuildInv, [Next]_vars
    PROVE  BuildInv'
<1>1. ASSUME NEW p \in Builds, Step(p) PROVE BuildInv'
  <2>1. p \in Processes /\ p \notin Imports BY DEF Processes
  <2>2. CASE Start(p)
    <3>1. PICK policy : Becomes(p, [Idle EXCEPT !.pc = "discover", !.policy = policy])
      BY <2>1, <2>2 DEF Start, Becomes
    <3>2. PICK run : run = [Idle EXCEPT !.pc = "discover", !.policy = policy] OBVIOUS
    <3>3. run.pc = "discover" /\ run.at = 1 /\ run.changed = <<>> BY <3>2 DEF Idle
    <3>4. Fresh(run)' BY <3>3 DEF Fresh, Compiling, Renaming
    <3>5. UNCHANGED <<manifest, bsl, file, record>> BY <2>2 DEF Start
    <3>6. QED BY <3>1, <3>2, <3>4, <3>5, BuildMoves
  <2>3. CASE Dies(p)
    <3>1. UNCHANGED <<manifest, bsl, file, record>> /\ Ends(p, "died") BY <2>3 DEF Dies
    <3>2. QED BY <3>1, BuildEnds
  <2>4. CASE PersistNew(p) BY <2>1, <2>4 DEF PersistNew
  <2>5. QED BY <1>1, <2>2, <2>3, <2>4, BuildReads, BuildPublishes, BuildRecords DEF Step
<1>2. ASSUME Quiet, UNCHANGED <<proc, record>> PROVE BuildInv'
  <2>1. \A p \in Builds : proc[p].pc \in {"idle", "done"} BY <1>2 DEF Quiet, Running
  <2>2. \A p \in Builds : Fresh(proc[p])' BY <1>2, <2>1 DEF Fresh, Compiling, Renaming
  <2>3. QED BY <1>2, <2>2 DEF BuildInv
<1>3. CASE EditSource BY <1>2, <1>3 DEF EditSource, SourcesStand
<1>4. ASSUME NEW f \in Files, Touches(f) PROVE BuildInv'
  <2>1. CASE f = Client BY <1>2, <1>4, <2>1 DEF Touches
  <2>2. CASE f # Client
    <3>1. UNCHANGED <<manifest, bsl, record, proc>> /\ file'[Client] = file[Client]
      BY <1>4, <2>2 DEF Touches
    <3>2. QED BY <3>1 DEF BuildInv, Fresh
  <2>3. QED BY <2>1, <2>2
<1>5. CASE UNCHANGED vars BY <1>5 DEF vars, BuildInv, Fresh
<1>6. QED BY <1>1, <1>3, <1>4, <1>5, OthersKeepBuilds DEF Next

(* Cache::matches, Cache::record, generate: for any versions of the sources and   *)
(* any overlap, failure, death and change of the client between builds, a build   *)
(* that skips the compiler leaves the client the compiler would make of the       *)
(* inputs it has fingerprinted, if no source changes under a running build.       *)
THEOREM CacheTellsTheTruth ==
    ASSUME SourcesStand
    PROVE  Spec => []CacheIsTruthful
<1>1. Init => BuildInv
  <2> SUFFICES ASSUME Init PROVE BuildInv OBVIOUS
  <2>1. \A p \in Builds : proc[p] = Idle BY DEF Init, Processes
  <2>2. Idle.pc = "idle" BY DEF Idle
  <2>3. QED BY <2>1, <2>2 DEF Init, BuildInv, Fresh, Compiling, Renaming
<1>2. PublishInv /\ BuildInv /\ [Next]_vars => BuildInv' BY NextBuild
<1>3. BuildInv => CacheIsTruthful
  <2> SUFFICES ASSUME BuildInv, NEW p \in Builds, Matches(p)
               PROVE  file[Client] = Generated(proc[p].key, proc[p].fp)
    BY DEF CacheIsTruthful
  <2>1. /\ file[Client] # None /\ record.m = proc[p].key /\ record.b = proc[p].fp /\ record.out = file[Client]
    BY DEF Matches
  <2>2. record # NoRecord BY <2>1 DEF NoRecord
  <2>3. QED BY <2>1, <2>2 DEF BuildInv
<1>4. QED BY <1>1, <1>2, <1>3, Always, PTL DEF Spec
================================================================================
