--------------------------- MODULE MCHostTransactions ---------------------------
(* Instances of HostTransactions for TLC: a host transaction and a plain mutation. *)
EXTENDS HostTransactions

CONSTANTS h, p

MCAsks == [t \in Tasks |-> IF t = h THEN "read_only" ELSE "default"]
MCDefaults == [t \in Tasks |-> "default"]
\* A closure may go on after a 404, and after a constraint error or a busy answer where
\* the server undoes only the statement.
MCIgnored == {"mariadb", "sqlite"} \X {"constraint", "busy", "missing"} \cup {<<"postgres", "missing">>}
\* On SQLite a statement that fails leaves the others, so a stray client's calls are safe.
MCStraying == {<<"sqlite", h>>}
MCIgnoredOnPostgres == {<<"postgres", "constraint">>}
================================================================================
