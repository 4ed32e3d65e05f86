------------------------------- MODULE Generation -------------------------------
(* Files that tools write beside a user who writes them too.  A "gen" process    *)
(* (based gen) and a "build" process (build.rs) compile the sources and publish  *)
(* through based_artifacts::publish: preflight every output, stage all, then     *)
(* recheck and rename one by one.  The build keeps a cache record of its inputs  *)
(* and its output.  An "import" process creates files that did not exist.  Each  *)
(* step is one access to the file system, and a process may die between two.     *)
EXTENDS Naturals, Sequences, FiniteSets, SequencesExt

CONSTANTS
    Gens, Builds, Imports,   \* the processes, by kind
    Outputs,                 \* kind -> the sequence of files a process of it writes
    Client,                  \* the build's output
    Versions,                \* what the manifest, and what the BSL, may say
    EditsDuringBuild,        \* whether the user may edit a source while a build runs
    MaxRuns,                 \* bound: runs of all processes
    MaxRunning,              \* bound: runs at one time
    MaxEdits,                \* bound: edits of the sources
    MaxTakes                 \* bound: files the user writes or deletes

Processes == Gens \cup Builds \cup Imports
Files == UNION {Range(Outputs[k]) : k \in DOMAIN Outputs}

ASSUME GenerationAssumption ==
    /\ Gens \cap Builds = {} /\ Imports \cap (Gens \cup Builds) = {}
    /\ DOMAIN Outputs = {"gen", "build", "import"}
    /\ \A k \in DOMAIN Outputs : Outputs[k] # <<>> /\ Outputs[k] \in Seq(Range(Outputs[k]))
    /\ Outputs["build"] = <<Client>>     \* in cargo's OUT_DIR, where no other command writes
    /\ Client \notin Range(Outputs["gen"]) \cup Range(Outputs["import"])
    /\ Versions \subseteq Nat
    /\ EditsDuringBuild \in BOOLEAN
    /\ {MaxRuns, MaxRunning, MaxEdits, MaxTakes} \subseteq Nat

VARIABLES
    manifest, bsl,   \* the sources
    file,            \* output -> its content
    record,          \* based-client.inputs
    proc,            \* process -> its run
    late,            \* <<process, file>>: the user wrote it between the process's last look at it and its rename
    runs, edits, takes       \* how often each bounded thing has happened

vars == <<manifest, bsl, file, record, proc, late, runs, edits, takes>>

None == [by |-> "none", m |-> 0, b |-> 0]
User == [by |-> "user", m |-> 0, b |-> 0]
Link == [by |-> "link", m |-> 0, b |-> 0]     \* anything but a regular file
\* Format::annotate marks what it generates as owned; the bytes follow from the sources.
Generated(m, b) == [by |-> "based", m |-> m, b |-> b]
\* An import's files are drafts for the user to edit: they carry no marker.
Imported == [by |-> "import", m |-> 0, b |-> 0]
Contents == {None, User, Link, Imported} \cup {Generated(m, b) : m, b \in Versions}
NoRecord == [m |-> 0, b |-> 0, out |-> None]

Kind(p) == IF p \in Gens THEN "gen" ELSE IF p \in Builds THEN "build" ELSE "import"
Out(p) == Outputs[Kind(p)]
Running(p) == proc[p].pc \notin {"idle", "done"}

Idle == [pc |-> "idle", policy |-> "write", m |-> 0, key |-> 0, fp |-> 0, b |-> 0, at |-> 1,
         changed |-> <<>>, written |-> {}, replaced |-> {}, result |-> "none"]

Init ==
    /\ manifest \in Versions /\ bsl \in Versions
    /\ file = [f \in Files |-> None]
    /\ record = NoRecord
    /\ proc = [p \in Processes |-> Idle]
    /\ late = {} /\ runs = 0 /\ edits = 0 /\ takes = 0

Becomes(p, run) == proc' = [proc EXCEPT ![p] = run]
Finished(run, result) ==
    [Idle EXCEPT !.pc = "done", !.result = result, !.written = run.written, !.replaced = run.replaced]
Ends(p, result) == Becomes(p, Finished(proc[p], result))
Mine(p) == file[IF proc[p].pc = "preflight" THEN Out(p)[proc[p].at] ELSE proc[p].changed[proc[p].at]]

\* ---------------------------------------------------------------------- compiling
Start(p) ==
    /\ ~Running(p) /\ runs < MaxRuns /\ Cardinality({q \in Processes : Running(q)}) < MaxRunning
    /\ runs' = runs + 1
    /\ \E policy \in (IF p \in Gens THEN {"check", "write", "force"} ELSE {"write"}) :
          proc' = [proc EXCEPT ![p] = [Idle EXCEPT !.pc = IF p \in Imports THEN "preflight" ELSE "discover",
                                                   !.policy = policy]]
    /\ late' = {l \in late : l[1] # p}
    /\ UNCHANGED <<manifest, bsl, file, record, edits, takes>>

\* based_manifest::discover parses based.toml; the build reads its bytes once more.
Discover(p) ==
    /\ \/ proc[p].pc = "discover"
          /\ Becomes(p, [proc[p] EXCEPT !.m = manifest, !.pc = IF p \in Builds THEN "bytes" ELSE "check"])
       \/ proc[p].pc = "bytes" /\ Becomes(p, [proc[p] EXCEPT !.key = manifest, !.pc = "fingerprint"])
    /\ UNCHANGED <<manifest, bsl, file, record, late, runs, edits, takes>>

Fingerprint(p) ==
    /\ proc[p].pc = "fingerprint"
    /\ Becomes(p, [proc[p] EXCEPT !.fp = bsl, !.pc = "match"])
    /\ UNCHANGED <<manifest, bsl, file, record, late, runs, edits, takes>>

\* (mutant) the cache does not look at the client it vouches for
MutMatchesInputsOnly(p) ==
    /\ file[Client] \notin {None, Link}
    /\ record.m = proc[p].key /\ record.b = proc[p].fp /\ record # NoRecord

\* Cache::matches: the record is of these inputs and of the client as it is now.
Matches(p) ==
    /\ file[Client] \notin {None, Link}
    /\ record = [m |-> proc[p].key, b |-> proc[p].fp, out |-> file[Client]]

Lookup(p) ==
    /\ proc[p].pc = "match"
    /\ IF Matches(p) THEN Ends(p, "hit") ELSE Becomes(p, [proc[p] EXCEPT !.pc = "check"])
    /\ UNCHANGED <<manifest, bsl, file, record, late, runs, edits, takes>>

\* check_project reads the sources itself; an error, or a migration problem, ends the run.
CheckSources(p) ==
    /\ proc[p].pc = "check"
    /\ Becomes(p, [proc[p] EXCEPT !.b = bsl, !.pc = "preflight"]) \/ Ends(p, "error")
    /\ UNCHANGED <<manifest, bsl, file, record, late, runs, edits, takes>>

\* --------------------------------------------------------------------- publishing
\* current: what the destination holds decides; NotFound counts as changed, and so does
\* for --check a file of the user's, which is any regular file without the marker.
Verdict(p, content) ==
    CASE content = None -> "changed"
      [] content = Link -> "invalid"
      [] content = Generated(proc[p].m, proc[p].b) -> "current"
      [] content \in {User, Imported} /\ proc[p].policy = "write" -> "user_owned"
      [] OTHER -> "changed"

\* An import's preflight refuses whatever exists.
Preflight(p) ==
    LET verdict == IF p \in Imports THEN IF Mine(p) = None THEN "changed" ELSE "exists"
                                    ELSE Verdict(p, Mine(p))
        last == proc[p].at = Len(Out(p))
        changed == proc[p].changed \o IF verdict = "changed" THEN <<Out(p)[proc[p].at]>> ELSE <<>>
    IN /\ proc[p].pc = "preflight"
       /\ CASE verdict \notin {"changed", "current"} -> Ends(p, verdict)
            [] ~last -> Becomes(p, [proc[p] EXCEPT !.at = @ + 1, !.changed = changed])
            [] proc[p].policy = "check" -> Ends(p, IF changed = <<>> THEN "ok" ELSE "stale")
            [] OTHER -> Becomes(p, [proc[p] EXCEPT !.pc = "stage", !.at = 1, !.changed = changed])
       /\ UNCHANGED <<manifest, bsl, file, record, late, runs, edits, takes>>

\* What a run does when no changed file is left.
Published(p, run) == IF p \in Builds THEN [run EXCEPT !.pc = "record"] ELSE Finished(run, "ok")
Destination(p) == IF p \in Imports THEN "persist" ELSE "recheck"

\* Every changed output is written to a temporary sibling; an error removes them all.
\* An import looks once more that nothing exists before it does.
Stage(p) ==
    /\ proc[p].pc = "stage"
    /\ \/ /\ p \notin Imports \/ \A f \in Range(Out(p)) : file[f] = None
          /\ Becomes(p, IF proc[p].changed = <<>> THEN Published(p, proc[p])
                         ELSE [proc[p] EXCEPT !.pc = Destination(p)])
       \/ /\ p \in Imports /\ \E f \in Range(Out(p)) : file[f] # None
          /\ Ends(p, "exists")
       \/ Ends(p, "error")
    /\ UNCHANGED <<manifest, bsl, file, record, late, runs, edits, takes>>

\* On to the next changed file, `wrote` replaced.
Goes(p, wrote) ==
    LET run == [proc[p] EXCEPT !.written = @ \cup wrote, !.replaced = @ \cup wrote] IN
    Becomes(p, IF run.at = Len(run.changed) THEN Published(p, run)
               ELSE [run EXCEPT !.at = @ + 1, !.pc = Destination(p)])

\* (mutant) the files were looked at before staging, and are not looked at again
MutNoRecheck(p) ==
    /\ proc[p].pc = "recheck"
    /\ Becomes(p, [proc[p] EXCEPT !.pc = "persist"])
    /\ UNCHANGED <<manifest, bsl, file, record, late, runs, edits, takes>>

\* After staging the destination is looked at again; from here on an error is Partial.
Recheck(p) ==
    /\ proc[p].pc = "recheck"
    /\ CASE Verdict(p, Mine(p)) = "changed" -> Becomes(p, [proc[p] EXCEPT !.pc = "persist"])
         [] Verdict(p, Mine(p)) = "current" -> Goes(p, {})
         [] OTHER -> Ends(p, "partial")
    /\ UNCHANGED <<manifest, bsl, file, record, late, runs, edits, takes>>

\* (mutant) the report names a file before it has been renamed
MutReportsFirst(p) ==
    LET f == proc[p].changed[proc[p].at] IN
    /\ proc[p].pc = "persist"
    /\ \/ /\ file' = [file EXCEPT ![f] = Generated(proc[p].m, proc[p].b)]
          /\ Goes(p, {f})
       \/ UNCHANGED file
          /\ Becomes(p, [Finished(proc[p], "partial") EXCEPT !.written = @ \cup {f}])
    /\ UNCHANGED <<manifest, bsl, record, late, runs, edits, takes>>

\* The rename replaces whatever is there by then, or fails.
Persist(p) ==
    LET f == proc[p].changed[proc[p].at] IN
    /\ proc[p].pc = "persist" /\ p \notin Imports
    /\ \/ /\ file' = [file EXCEPT ![f] = Generated(proc[p].m, proc[p].b)]
          /\ Goes(p, {f})
       \/ UNCHANGED file /\ Ends(p, "partial")
    /\ UNCHANGED <<manifest, bsl, record, late, runs, edits, takes>>

\* persist_noclobber creates the file or fails because something is there.
PersistNew(p) ==
    LET f == proc[p].changed[proc[p].at] IN
    /\ proc[p].pc = "persist" /\ p \in Imports
    /\ \/ /\ file[f] = None
          /\ file' = [file EXCEPT ![f] = Imported]
          /\ Goes(p, {f})
       \/ UNCHANGED file /\ Ends(p, "partial")
    /\ UNCHANGED <<manifest, bsl, record, late, runs, edits, takes>>

\* Cache::record reads the client back and writes the record in one rename.
Record(p) ==
    /\ proc[p].pc = "record"
    /\ \/ /\ record' = [m |-> proc[p].key, b |-> proc[p].fp, out |-> file[Client]]
          /\ Ends(p, "ok")
       \/ UNCHANGED record /\ Ends(p, "error")
    /\ UNCHANGED <<manifest, bsl, file, late, runs, edits, takes>>

Dies(p) ==
    /\ Running(p) /\ Ends(p, "died")
    /\ UNCHANGED <<manifest, bsl, file, record, late, runs, edits, takes>>

\* ------------------------------------------------------------------------ the user
Quiet == \A p \in Builds : ~Running(p)

EditSource ==
    /\ edits < MaxEdits /\ (EditsDuringBuild \/ Quiet)
    /\ edits' = edits + 1
    /\ \E v \in Versions : \/ manifest' = v /\ v # manifest /\ UNCHANGED bsl
                           \/ bsl' = v /\ v # bsl /\ UNCHANGED manifest
    /\ UNCHANGED <<file, record, proc, late, runs, takes>>

Renames(p, f) == proc[p].pc = "persist" /\ proc[p].changed[proc[p].at] = f

\* The user writes, deletes or replaces an output; the client in OUT_DIR only between builds.
Touches(f) ==
    /\ takes < MaxTakes /\ (f # Client \/ Quiet)
    /\ takes' = takes + 1
    /\ \E content \in {None, User, Link} \ {file[f]} : file' = [file EXCEPT ![f] = content]
    /\ late' = late \cup {<<p, f>> : p \in {q \in Processes : Renames(q, f)}}
    /\ UNCHANGED <<manifest, bsl, record, proc, runs, edits>>

Step(p) ==
    \/ Start(p) \/ Discover(p) \/ Fingerprint(p) \/ Lookup(p) \/ CheckSources(p)
    \/ Preflight(p) \/ Stage(p) \/ Recheck(p) \/ Persist(p) \/ PersistNew(p) \/ Record(p)
    \/ Dies(p)

Next == (\E p \in Processes : Step(p)) \/ EditSource \/ \E f \in Files : Touches(f)
Spec == Init /\ [][Next]_vars

\* ---------------------------------------------------------------------- properties
TypeOK ==
    /\ manifest \in Versions /\ bsl \in Versions
    /\ file \in [Files -> Contents]
    /\ record.out \in Contents
    /\ \A p \in Processes :
         /\ proc[p].at \in 1..Len(Out(p))
         /\ Range(proc[p].changed) \subseteq Range(Out(p)) /\ IsInjective(proc[p].changed)
         /\ proc[p].result \in {"none", "ok", "hit", "stale", "invalid", "exists", "user_owned",
                                "error", "partial", "died"}
    /\ runs \in 0..MaxRuns /\ edits \in 0..MaxEdits /\ takes \in 0..MaxTakes

\* publish, import's write: what a run that ends says it has written is what it has
\* replaced, and an error other than Partial (a refusal, a failed check or staging) has
\* replaced nothing.
ReportIsExact ==
    \A p \in Processes : proc[p].pc = "done" =>
        /\ proc[p].result # "died" => proc[p].written = proc[p].replaced
        /\ proc[p].result \in {"stale", "invalid", "exists", "user_owned"} => proc[p].replaced = {}

\* publish without --force: a file the user has taken over, before the run or while it
\* was compiling and staging, stays; only in the moment between the last look at it and
\* its own rename can it be lost.  An entry that exists when import writes, however late
\* it appeared, is never replaced.
UserFilesKept ==
    [][\A f \in Files, p \in Processes :
          f \in proc'[p].replaced \ proc[p].replaced =>
             IF p \in Imports THEN file[f] = None
             ELSE file[f].by \in {"user", "link"} => proc[p].policy = "force" \/ <<p, f>> \in late]_vars

\* Cache::matches, generate: a build that skips the compiler leaves the client the
\* compiler would make of the inputs it has just fingerprinted, after any edits, deaths,
\* failures and changes to the client.
CacheIsTruthful ==
    \A p \in Builds : proc[p].pc = "match" /\ Matches(p)
        => file[Client] = Generated(proc[p].key, proc[p].fp)
================================================================================
