------------------------------ MODULE SchemaChange ------------------------------
(* based-codegen's migrate engine: the steps between two schema snapshots, the   *)
(* order a script runs them in, the statements a dialect runs for them, and the  *)
(* way back.  A snapshot maps a table to its columns, indexes and foreign keys;  *)
(* the database holds the same and, for every column, where its data came from.  *)
(* One action runs one statement.  What a database refuses is external.          *)
EXTENDS Naturals, Sequences, FiniteSets, SequencesExt

CONSTANTS
    Order,           \* the names of tables and columns, sorted
    Schemas,         \* the table maps a snapshot may have
    Dialects,        \* a subset of {"sqlite", "mysql", "postgres"}
    Formats,         \* a subset of {"legacy", "format 2"}
    Untracked,       \* whether a schema may change in what the diff does not follow
    MaxSteps,        \* no script has more steps
    Absent           \* no name

ASSUME SchemaChangeAssumption ==
    /\ Dialects \subseteq {"sqlite", "mysql", "postgres"}
    /\ Formats \subseteq {"legacy", "format 2"}
    /\ Untracked \in BOOLEAN /\ MaxSteps \in Nat
    /\ IsInjective(Order) /\ Absent \notin Range(Order)

VARIABLES
    dialect, format,
    prev, now,        \* the snapshots before and after the migration
    dir,              \* "none", "up" or "down"
    units, at,        \* the plan of the direction that runs, and its next unit
    marked,           \* the plan has a step marked destructive
    db,
    outcome           \* "idle", "running", "done" or "rejected"

vars == <<dialect, format, prev, now, dir, units, at, marked, db, outcome>>

When(c, s) == IF c THEN s ELSE <<>>
InOrder(S) == SelectSeq(Order, LAMBDA n : n \in S)
Each(S, F(_)) == LET names == InOrder(S) IN FlattenSeq([i \in 1..Len(names) |-> F(names[i])])
Moved(f, a, b) == [k \in (DOMAIN f \ {a}) \cup {b} |-> IF k = b THEN f[a] ELSE f[k]]

\* ------------------------------------------------------------- snapshots and steps
\* A table is [cols: column -> [ty, gen, uniq], idx: set of [name, col], fks: column -> table].
Step(op, t, c, spec) == [op |-> op, t |-> t, c |-> c, spec |-> spec]
Snapshot(tables, renames) == [tables |-> tables, renames |-> renames]

\* (mutant) only a whole table counts
MutDestructive(s) == s.op = "drop table" \/ (s.op = "alter column" /\ s.spec.ty # "text")

Destructive(s) == \/ s.op \in {"drop table", "drop column"}
                  \/ s.op = "alter column" /\ s.spec.ty # "text"

\* A table's @was is a rename when the old name was a table and the new one was not.
IsValidTableRename(old, new, r) ==
    /\ r.t = Absent
    /\ r.from \in DOMAIN old.tables /\ r.to \notin DOMAIN old.tables /\ r.to \in DOMAIN new.tables

TableRenames(old, new) == {r \in new.renames : IsValidTableRename(old, new, r)}
RenameSource(old, new, t) ==
    IF \E r \in TableRenames(old, new) : r.to = t
    THEN (CHOOSE r \in TableRenames(old, new) : r.to = t).from ELSE t

ColumnRenames(p, n, t, renames) ==
    {r \in renames : r.t = t /\ r.from \in DOMAIN p.cols /\ r.to \notin DOMAIN p.cols /\ r.to \in DOMAIN n.cols}

\* column_changes: of a column the type, nullability and default are compared.
ColumnChanges(old, new) == old.ty # new.ty

DiffColumns(p, n, t, renames) ==
    LET valid == ColumnRenames(p, n, t, renames)
        To(c) == (CHOOSE r \in valid : r.from = c).to
        Renamed(c) == <<Step("rename column", t, c, To(c))>>
                      \o When(ColumnChanges(p.cols[c], n.cols[To(c)]), <<Step("alter column", t, To(c), n.cols[To(c)])>>)
        Added(c) == <<Step("add column", t, c, n.cols[c])>>
        Dropped(c) == <<Step("drop column", t, c, Absent)>>
        Altered(c) == IF p.cols[c].gen # n.cols[c].gen THEN Dropped(c) \o Added(c)
                      ELSE When(ColumnChanges(p.cols[c], n.cols[c]), <<Step("alter column", t, c, n.cols[c])>>)
    IN Each({r.from : r \in valid}, Renamed)
       \o Each((DOMAIN n.cols \ DOMAIN p.cols) \ {r.to : r \in valid}, Added)
       \o Each(DOMAIN n.cols \cap DOMAIN p.cols, Altered)
       \o Each((DOMAIN p.cols \ DOMAIN n.cols) \ {r.from : r \in valid}, Dropped)

\* An index is named for its table and column, and compared by that name.
DiffIndexes(p, n, t) ==
    LET Of(S, c) == {i \in S : i.col = c}
        Adds(c) == When(Of(n.idx \ p.idx, c) # {}, <<Step("add index", t, c, [name |-> <<t, c>>, col |-> c])>>)
        Drops(c) == When(Of(p.idx \ n.idx, c) # {}, <<Step("drop index", t, c, CHOOSE i \in Of(p.idx \ n.idx, c) : TRUE)>>)
    IN Each({i.col : i \in n.idx}, Adds) \o Each({i.col : i \in p.idx}, Drops)

DiffForeignKeys(p, n, t) ==
    LET Drop(c) == <<Step("drop foreign key", t, c, Absent)>>
        Keep(c) == IF c \notin DOMAIN p.fks THEN <<Step("add foreign key", t, c, n.fks[c])>>
                   ELSE When(p.fks[c] # n.fks[c], Drop(c) \o <<Step("add foreign key", t, c, n.fks[c])>>)
    IN Each(DOMAIN n.fks, Keep) \o Each(DOMAIN p.fks \ DOMAIN n.fks, Drop)

DiffTable(p, n, t, renames) == DiffColumns(p, n, t, renames) \o DiffIndexes(p, n, t) \o DiffForeignKeys(p, n, t)

\* (mutant) a table that was renamed is not compared with what it was
MutRenameDiffsNothing(old, new) ==
    LET renamed == TableRenames(old, new)
        Create(t) == <<Step("create table", t, Absent, new.tables[t])>>
        Rename(t) == <<Step("rename table", t, Absent, (CHOOSE r \in renamed : r.from = t).to)>>
        Survive(t) == When(t \in DOMAIN old.tables, DiffTable(old.tables[t], new.tables[t], t, new.renames))
        Drop(t) == <<Step("drop table", t, Absent, Absent)>>
    IN Each({r.from : r \in renamed}, Rename)
       \o Each((DOMAIN new.tables \ DOMAIN old.tables) \ {r.to : r \in renamed}, Create)
       \o Each(DOMAIN new.tables, Survive)
       \o Each((DOMAIN old.tables \ DOMAIN new.tables) \ {r.from : r \in renamed}, Drop)

DiffSnapshots(old, new) ==
    LET renamed == TableRenames(old, new)
        source(t) == RenameSource(old, new, t)
        Create(t) == <<Step("create table", t, Absent, new.tables[t])>>
        Rename(t) == <<Step("rename table", t, Absent, (CHOOSE r \in renamed : r.from = t).to)>>
        Survive(t) == When(source(t) \in DOMAIN old.tables,
                           DiffTable(old.tables[source(t)], new.tables[t], t, new.renames))
        Drop(t) == <<Step("drop table", t, Absent, Absent)>>
    IN Each({r.from : r \in renamed}, Rename)
       \o Each((DOMAIN new.tables \ DOMAIN old.tables) \ {r.to : r \in renamed}, Create)
       \o Each(DOMAIN new.tables, Survive)
       \o Each((DOMAIN old.tables \ DOMAIN new.tables) \ {r.from : r \in renamed}, Drop)

\* ------------------------------------------------------------------- order and back
\* (mutant) indexes go back on before the columns they cover are there
MutPhase(s) == CASE s.op = "drop foreign key" -> 0
                 [] s.op = "add index" -> 1
                 [] s.op = "drop index" -> 3
                 [] s.op = "add foreign key" -> 4
                 [] OTHER -> 2

Phase(s) == CASE s.op = "drop foreign key" -> 0
              [] s.op = "drop index" -> 1
              [] s.op = "add index" -> 3
              [] s.op = "add foreign key" -> 4
              [] OTHER -> 2

ConstraintSafe(steps) == FlattenSeq([i \in 1..5 |-> SelectSeq(steps, LAMBDA s : Phase(s) = i - 1)])

UpSteps(old, new, fmt) ==
    IF fmt = "format 2" THEN ConstraintSafe(DiffSnapshots(old, new)) ELSE DiffSnapshots(old, new)

\* (mutant) only the tables' renames are turned round
MutRollbackTarget(old, new) ==
    Snapshot(old.tables, {[t |-> Absent, from |-> r.to, to |-> r.from] : r \in {x \in new.renames : x.t = Absent}})

\* The old snapshot with the renames turned round.
RollbackTarget(old, new) ==
    LET back(t) == IF \E r \in new.renames : r.t = Absent /\ r.to = t
                   THEN (CHOOSE r \in new.renames : r.t = Absent /\ r.to = t).from ELSE t
    IN Snapshot(old.tables, {[t |-> IF r.t = Absent THEN Absent ELSE back(r.t), from |-> r.to, to |-> r.from]
                                : r \in new.renames})

\* evolve: the snapshot after one step; a step on a table it has not is ignored.
RenamedColumn(t, a, b) ==
    [cols |-> Moved(t.cols, a, b),
     idx |-> {IF i.col = a THEN [i EXCEPT !.col = b] ELSE i : i \in t.idx},
     fks |-> IF a \in DOMAIN t.fks THEN Moved(t.fks, a, b) ELSE t.fks]

EvolveTable(t, s) ==
    CASE s.op = "add column" -> [t EXCEPT !.cols = (s.c :> s.spec) @@ @]
      [] s.op = "alter column" -> [t EXCEPT !.cols = [c \in DOMAIN @ |-> IF c = s.c THEN s.spec ELSE @[c]]]
      [] s.op = "drop column" -> [t EXCEPT !.cols = Restrict(@, DOMAIN @ \ {s.c})]
      [] s.op = "rename column" -> RenamedColumn(t, s.c, s.spec)
      [] s.op = "add index" -> [t EXCEPT !.idx = @ \cup {s.spec}]
      [] s.op = "drop index" -> [t EXCEPT !.idx = {i \in @ : i.name # s.spec.name}]
      [] s.op = "add foreign key" -> [t EXCEPT !.fks = (s.c :> s.spec) @@ @]
      [] OTHER -> [t EXCEPT !.fks = Restrict(@, DOMAIN @ \ {s.c})]

Evolve(tables, s) ==
    CASE s.op = "create table" -> (s.t :> s.spec) @@ tables
      [] s.op = "drop table" -> Restrict(tables, DOMAIN tables \ {s.t})
      [] s.t \notin DOMAIN tables -> tables
      [] s.op = "rename table" ->
            [t \in DOMAIN Moved(tables, s.t, s.spec) |->
               [Moved(tables, s.t, s.spec)[t] EXCEPT !.fks = [c \in DOMAIN @ |-> IF @[c] = s.t THEN s.spec ELSE @[c]]]]
      [] OTHER -> [tables EXCEPT ![s.t] = EvolveTable(@, s)]

\* -------------------------------------------------------------------- the plan's units
FoldedOps == {"add column", "drop column", "alter column", "rename column", "add index", "drop index",
              "add foreign key", "drop foreign key"}
RebuildOps == {"alter column", "add foreign key", "drop foreign key"}

\* The table is recreated at its target shape and the columns it had are copied.
Rebuild(t, target, steps) ==
    LET mine == {s \in Range(steps) : s.t = t}
        renamed == {s \in mine : s.op = "rename column"}
    IN [op |-> "rebuild", t |-> t, c |-> Absent,
        spec |-> [table |-> target[t],
                  added |-> {s.c : s \in {x \in mine : x.op = "add column"}},
                  from |-> [c \in DOMAIN target[t].cols |->
                              IF \E s \in renamed : s.spec = c THEN (CHOOSE s \in renamed : s.spec = c).c ELSE c]]]

\* sqlite_plan: the first step on a table that needs a rebuild becomes the rebuild, the
\* others on it go.
SqlitePlan(steps, target) ==
    LET rebuilt == {s.t : s \in {x \in Range(steps) : x.op \in RebuildOps}} \cap DOMAIN target
        Folded(i) == steps[i].op \in FoldedOps /\ steps[i].t \in rebuilt
        First(i) == \A j \in 1..(i - 1) : ~(Folded(j) /\ steps[j].t = steps[i].t)
    IN FlattenSeq([i \in DOMAIN steps |-> IF ~Folded(i) THEN <<steps[i]>>
                                           ELSE When(First(i), <<Rebuild(steps[i].t, target, steps)>>)])

MigrationSql(steps, target) == IF dialect = "sqlite" THEN SqlitePlan(steps, target) ELSE steps

\* plan_in_order: what precedes a data step runs before it, for the schema of its line.
\* legacy_plan: there is no data step.
PlanUp(steps, old, new, cut) ==
    LET seen == FoldLeft(Evolve, old, SubSeq(steps, 1, cut))
        data == [op |-> "data", t |-> Absent, c |-> Absent, spec |-> [t \in DOMAIN seen |-> seen[t].cols]]
    IN IF format = "legacy" THEN MigrationSql(steps, new)
       ELSE MigrationSql(SubSeq(steps, 1, cut), seen) \o <<data>> \o MigrationSql(SubSeq(steps, cut + 1, Len(steps)), new)

\* ----------------------------------------------------------------------- the database
\* (external) What a dialect's database does with a statement.  A column's data is the
\* table and column it was in when the migration began, or none.
IndexNames(t) == {i.name : i \in db[t].idx}
Others(t) == DOMAIN db \ {t}
Fresh(col) == [ty |-> col.ty, gen |-> col.gen, uniq |-> col.uniq, data |-> <<>>]
Constrained(t, spec) == {[name |-> <<t, c>>, col |-> c, ref |-> spec.fks[c]] : c \in DOMAIN spec.fks}
Stored(tables) ==
    [t \in DOMAIN tables |->
       [cols |-> [c \in DOMAIN tables[t].cols |-> [Fresh(tables[t].cols[c]) EXCEPT !.data = <<t, c>>]],
        idx |-> tables[t].idx, fks |-> Constrained(t, tables[t])]]

\* The tables its foreign keys refer to; a created table's are written inline.
Refs(s) == CASE s.op = "create table" -> Range(s.spec.fks)
             [] s.op = "rebuild" -> Range(s.spec.table.fks)
             [] s.op = "add foreign key" -> {s.spec}
             [] OTHER -> {}
Unmade(s) == Refs(s) \ (DOMAIN db \cup {s.t})

\* The statement changes what is there and makes what is not.
Applies(s) ==
    LET cols == DOMAIN db[s.t].cols
    IN CASE s.op = "data" -> TRUE
         [] s.op = "create table" -> s.t \notin DOMAIN db
         [] s.op = "drop index" /\ dialect # "mysql" -> \E t \in DOMAIN db : s.spec.name \in IndexNames(t)
         [] s.t \notin DOMAIN db -> FALSE
         [] s.op = "rename table" -> s.spec \notin DOMAIN db
         [] s.op = "drop table" -> TRUE
         [] s.op = "rebuild" -> {s.spec.from[c] : c \in DOMAIN s.spec.from \ s.spec.added} \subseteq cols
         [] s.op = "add column" -> s.c \notin cols
         [] s.op = "rename column" -> s.c \in cols /\ s.spec \notin cols
         [] s.op \in {"drop column", "alter column"} -> s.c \in cols
         [] s.op = "add index" -> s.c \in cols /\ \A t \in DOMAIN db : s.spec.name \notin IndexNames(t)
         [] s.op = "drop index" -> s.spec.name \in IndexNames(s.t)
         [] s.op = "add foreign key" -> s.c \in cols
         [] OTHER -> \E k \in db[s.t].fks : k.name = <<s.t, s.c>>

\* Nor does it refer to a table that is not.
Fits(s) == Applies(s) /\ Unmade(s) = {}

\* The dialect has no rule against it.
Allowed(s) ==
    LET refs(t) == {k.ref : k \in db[t].fks}
        keyed == s.t \in DOMAIN db /\ \E k \in db[s.t].fks : k.col = s.c
        covered == s.t \in DOMAIN db /\ \E i \in db[s.t].idx : i.col = s.c
    IN CASE s.op = "drop table" -> dialect = "sqlite" \/ \A t \in Others(s.t) : s.t \notin refs(t)
         [] s.op = "add column" -> dialect = "sqlite" => s.spec.gen = Absent
         [] s.op = "drop column" -> /\ dialect = "sqlite" => ~keyed /\ ~covered
                                    /\ dialect = "mysql" => ~keyed
         [] s.op = "drop index" -> dialect = "mysql" =>
               \A i \in db[s.t].idx : i.name = s.spec.name => \A k \in db[s.t].fks : k.col # i.col
         [] s.op = "rebuild" -> \A c \in DOMAIN s.spec.from \ s.spec.added : s.spec.table.cols[c].gen = Absent
         [] s.op \in RebuildOps -> dialect # "sqlite"
         [] OTHER -> TRUE

\* SQLite looks for a referred table when rows are written.
Accepts(s) == Applies(s) /\ (dialect = "sqlite" \/ Unmade(s) = {}) /\ Allowed(s)

AlteredTable(d, s) ==
    CASE s.op = "add column" -> [d EXCEPT !.cols = (s.c :> [Fresh(s.spec) EXCEPT !.uniq = FALSE]) @@ @]
      [] s.op = "alter column" -> [d EXCEPT !.cols[s.c].ty = s.spec.ty]
      [] s.op = "drop column" -> [cols |-> Restrict(d.cols, DOMAIN d.cols \ {s.c}),
                                  idx |-> {i \in d.idx : i.col # s.c}, fks |-> {k \in d.fks : k.col # s.c}]
      [] s.op = "rename column" -> [cols |-> Moved(d.cols, s.c, s.spec),
                                    idx |-> {IF i.col = s.c THEN [i EXCEPT !.col = s.spec] ELSE i : i \in d.idx},
                                    fks |-> {IF k.col = s.c THEN [k EXCEPT !.col = s.spec] ELSE k : k \in d.fks}]
      [] s.op = "add index" -> [d EXCEPT !.idx = @ \cup {s.spec}]
      [] s.op = "add foreign key" -> [d EXCEPT !.fks = @ \cup {[name |-> <<s.t, s.c>>, col |-> s.c, ref |-> s.spec]}]
      [] s.op = "drop foreign key" -> [d EXCEPT !.fks = {k \in @ : k.name # <<s.t, s.c>>}]
      [] OTHER -> \* rebuild
           [cols |-> [c \in DOMAIN s.spec.table.cols |->
                        [Fresh(s.spec.table.cols[c]) EXCEPT
                           !.data = IF c \in s.spec.added THEN <<>> ELSE d.cols[s.spec.from[c]].data]],
            idx |-> s.spec.table.idx, fks |-> Constrained(s.t, s.spec.table)]

After(s) ==
    CASE s.op = "data" -> db
      [] s.op = "create table" ->
            (s.t :> [cols |-> [c \in DOMAIN s.spec.cols |-> Fresh(s.spec.cols[c])], idx |-> s.spec.idx,
                     fks |-> Constrained(s.t, s.spec)]) @@ db
      [] s.op = "drop table" -> Restrict(db, Others(s.t))
      [] s.op = "rename table" ->
            [t \in DOMAIN Moved(db, s.t, s.spec) |->
               [Moved(db, s.t, s.spec)[t] EXCEPT !.fks = {IF k.ref = s.t THEN [k EXCEPT !.ref = s.spec] ELSE k : k \in @}]]
      [] s.op = "drop index" -> [t \in DOMAIN db |-> [db[t] EXCEPT !.idx = {i \in @ : i.name # s.spec.name}]]
      [] OTHER -> [db EXCEPT ![s.t] = AlteredTable(@, s)]

\* -------------------------------------------------------------------------- behaviours
\* What the schema may say of itself: names that were and are not, each told once.
Renames(old, new) ==
    LET tables == [t : {Absent}, from : DOMAIN old \ DOMAIN new, to : DOMAIN new]
        columns == UNION {[t : {t}, from : (UNION {DOMAIN old[u].cols : u \in DOMAIN old}) \ DOMAIN new[t].cols,
                           to : DOMAIN new[t].cols] : t \in DOMAIN new}
    IN {R \in SUBSET (tables \cup columns) :
          \A a, b \in R : a # b /\ a.t = b.t => a.from # b.from /\ a.to # b.to}

\* A pair of columns the migration takes for the same one, and what it compares of them.
Came(old, new, t, c) ==
    LET u == RenameSource(old, new, t)
        rs == {r \in new.renames : r.t = t /\ r.to = c}
        d == IF u \in DOMAIN old.tables /\ c \in DOMAIN old.tables[u].cols THEN c
             ELSE IF rs # {} THEN (CHOOSE r \in rs : TRUE).from ELSE c
    IN IF u \in DOMAIN old.tables /\ d \in DOMAIN old.tables[u].cols THEN <<u, d>> ELSE <<Absent, Absent>>
\* The diff follows the change: no rename is of a name whose new name was there too, and
\* every column keeps what is not compared.
Spent(old, new) ==
    \E r \in new.renames : LET u == RenameSource(old, new, r.t)
                          IN IF r.t = Absent THEN {r.from, r.to} \subseteq DOMAIN old.tables
                             ELSE u \in DOMAIN old.tables /\ {r.from, r.to} \subseteq DOMAIN old.tables[u].cols
Follows(old, new) ==
    /\ ~Spent(old, new)
    /\ \A t \in DOMAIN new.tables : \A c \in DOMAIN new.tables[t].cols :
          LET o == Came(old, new, t, c)
              was == old.tables[o[1]].cols[o[2]]
          IN IF o[1] = Absent THEN ~new.tables[t].cols[c].uniq \/ RenameSource(old, new, t) \notin DOMAIN old.tables
             ELSE /\ was.uniq = new.tables[t].cols[c].uniq
                  /\ was.gen = new.tables[t].cols[c].gen \/ o[2] = c

Init ==
    /\ dialect \in Dialects /\ format \in Formats
    /\ prev \in [tables : Schemas, renames : {{}}] /\ now = prev
    /\ db = Stored(prev.tables)
    /\ dir = "none" /\ units = <<>> /\ at = 1 /\ marked = FALSE /\ outcome = "idle"

\* The schema becomes new: its script is written, and its data step put after cut of its steps.
Generate(new, cut) ==
    LET steps == UpSteps(prev, new, format)
    IN /\ dir = "none"
       /\ Follows(prev, new) \/ Untracked
       /\ cut <= Len(steps) /\ (format = "legacy" => cut = Len(steps))
       /\ now' = new /\ dir' = "up" /\ at' = 1 /\ outcome' = "running"
       /\ units' = PlanUp(steps, prev.tables, new.tables, cut)
       /\ marked' = \E s \in Range(steps) : Destructive(s)
       /\ UNCHANGED <<dialect, format, prev, db>>

RunUnit ==
    /\ outcome = "running" /\ at <= Len(units)
    /\ IF Accepts(units[at]) THEN db' = After(units[at]) /\ at' = at + 1 /\ UNCHANGED outcome
       ELSE outcome' = "rejected" /\ UNCHANGED <<db, at>>
    /\ UNCHANGED <<dialect, format, prev, now, dir, units, marked>>

Finish ==
    /\ outcome = "running" /\ at > Len(units)
    /\ outcome' = "done"
    /\ UNCHANGED <<dialect, format, prev, now, dir, units, at, marked, db>>

\* down.mig runs on what the migration left.
Rollback ==
    LET back == RollbackTarget(prev, now)
        steps == ConstraintSafe(DiffSnapshots(now, back))
    IN /\ dir = "up" /\ outcome = "done"
       /\ dir' = "down" /\ at' = 1 /\ outcome' = "running"
       /\ units' = MigrationSql(steps, prev.tables)
       /\ marked' = \E s \in Range(steps) : Destructive(s)
       /\ db' = Stored(now.tables)
       /\ UNCHANGED <<dialect, format, prev, now>>

Next ==
    \/ \E tables \in Schemas : \E R \in Renames(prev.tables, tables) : \E cut \in 0..MaxSteps :
          Generate(Snapshot(tables, R), cut)
    \/ RunUnit
    \/ Finish
    \/ Rollback

Spec == Init /\ [][Next]_vars

\* -------------------------------------------------------------------------- properties
Goal == IF dir = "down" THEN RollbackTarget(prev, now) ELSE now
Began == IF dir = "down" THEN now ELSE prev
Shape(d) ==
    [t \in DOMAIN d |->
       [cols |-> [c \in DOMAIN d[t].cols |-> [ty |-> d[t].cols[c].ty, gen |-> d[t].cols[c].gen, uniq |-> d[t].cols[c].uniq]],
        idx |-> d[t].idx,
        fks |-> [c \in {k.col : k \in d[t].fks} |-> (CHOOSE k \in d[t].fks : k.col = c).ref]]]
Lost(d) == {n \in UNION {{<<t, c>> : c \in DOMAIN Began.tables[t].cols} : t \in DOMAIN Began.tables} :
              \A t \in DOMAIN d : \A c \in DOMAIN d[t].cols : d[t].cols[c].data # n}
Ordered == format = "format 2" \/ dir = "down"
OfRenamed(s) == s.t \in {r.to : r \in TableRenames(Began, Goal)} /\ s.op \in {"drop index", "drop foreign key", "rebuild"}

\* New tables are created in name order (diff_snapshots), and a rebuild takes the place of
\* the first step on its table (sqlite_plan), whichever table refers to the other.
AheadOfTarget(s) ==
    /\ s.op \in {"create table", "rebuild"} /\ Applies(s)
    /\ \A u \in Unmade(s) : \E j \in (at + 1)..Len(units) :
          \/ units[j].op = "create table" /\ units[j].t = u
          \/ s.op = "rebuild" /\ units[j].op = "rename table" /\ units[j].spec = u

\* A dialect, a plan and a database: the shapes the statements leave are those of tables.
TypeOK ==
    /\ dialect \in Dialects /\ format \in Formats
    /\ prev.tables \in Schemas /\ now.tables \in Schemas
    /\ dir \in {"none", "up", "down"} /\ marked \in BOOLEAN
    /\ at \in 1..(Len(units) + 1) /\ Len(units) <= MaxSteps + 1
    /\ outcome \in {"idle", "running", "done", "rejected"}
    /\ \A t \in DOMAIN db : {i.col : i \in db[t].idx} \cup {k.col : k \in db[t].fks} \subseteq DOMAIN db[t].cols

\* A script that runs to its end leaves the schema its snapshot records, up and back down,
\* on every dialect (diff_snapshots, sqlite_plan, rollback_target).
ReachesTarget == outcome = "done" => Shape(db) = Goal.tables

\* A column the schema keeps, under its name or the one it says it had, still holds its own
\* data when the script ends, and again when it is rolled back (@was, rebuild_copy_lists).
DataKept ==
    outcome = "done" =>
       \A t \in DOMAIN now.tables : \A c \in DOMAIN now.tables[t].cols :
          LET o == Came(prev, now, t, c)
          IN o[1] # Absent /\ now.tables[t].cols[c].gen = prev.tables[o[1]].cols[o[2]].gen =>
                IF dir = "down" THEN db[o[1]].cols[o[2]].data = <<t, c>> ELSE db[t].cols[c].data = o

\* Data is gone only after a script with a step marked destructive (Step::destructive).
LossIsMarked == outcome = "done" /\ Lost(db) # {} => marked

\* In a format 2 script a statement names tables, columns and indexes that are there at
\* that point, and makes ones that are not (the diff's order, step_order), and no dialect
\* rejects the drop of a column (step_order.rs:1-3).  There are two exceptions: what takes
\* an index or a foreign key off a table the script renames, and a table created, or
\* rebuilt, before the one its inline foreign keys refer to is created, or renamed.  A
\* data step runs on the columns it was checked against (plan_in_order, evolve).
StatementsFit ==
    at <= Len(units) =>
       LET s == units[at] IN
       /\ outcome = "running" /\ Ordered => Fits(s) \/ OfRenamed(s) \/ AheadOfTarget(s)
       /\ outcome = "running" /\ s.op = "data" => s.spec = [t \in DOMAIN db |-> Shape(db)[t].cols]
       /\ outcome = "rejected" /\ Ordered => s.op # "drop column"

\* A rollback that runs to its end leaves the schema there was (down_mig.rs:19-20).
DownRestores == dir = "down" /\ outcome = "done" => Shape(db) = prev.tables

\* In a format 2 script no dialect rejects the drop of a table, an index or a foreign key either.
DropsAccepted ==
    outcome = "rejected" /\ Ordered =>
       units[at].op \notin {"drop table", "drop index", "drop foreign key", "drop column"}
================================================================================
