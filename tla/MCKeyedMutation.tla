-------------------------- MODULE MCKeyedMutation --------------------------
(* Instances of KeyedMutation for TLC.                                     *)
EXTENDS KeyedMutation, TLC

CONSTANTS k1, k2

(* TEXT key columns (Postgres, SQLite) store every key as it is.           *)
MCTextKey == [k \in Keys |-> k]

(* A VARCHAR(255) key column (MariaDB, MySQL): k2 is longer than the       *)
(* column and INSERT IGNORE stores its prefix k1.                          *)
MCTruncatedKey == [k \in Keys |-> IF k = k2 THEN k1 ELSE k]

MCSymmetry == Permutations(Procs)
=============================================================================
