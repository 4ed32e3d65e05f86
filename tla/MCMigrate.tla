----------------------------- MODULE MCMigrate -----------------------------
(* Instances of Migrate for TLC: its scripts.                              *)
EXTENDS Migrate, TLC

(* A resumable script between two plain ones, all with a down.mig; every   *)
(* version of a resumable script is resumable.                             *)
MCUp == << [v \in Versions |-> IF v = 1 THEN <<"dml", "ddl">> ELSE <<"ddl">>],
           [v \in Versions |-> IF v = 1 THEN <<"ddl", "chunk", "dml">>
                               ELSE <<"chunk", "dml">>],
           [v \in Versions |-> <<"ddl">>] >>
MCDown == << [v \in Versions |-> <<"ddl">>],
             [v \in Versions |-> IF v = 1 THEN <<"chunk", "chunk", "ddl">>
                                 ELSE <<"chunk", "dml">>],
             [v \in Versions |-> <<"dml">>] >>

(* Plain migrations, the last one without a down.mig.                      *)
MCUpPlain == << [v \in Versions |-> <<"dml", "ddl">>], [v \in Versions |-> <<"ddl", "dml">>] >>
MCDownPlain == << [v \in Versions |-> <<"dml">>], [v \in Versions |-> << >>] >>

MCSymmetry == Permutations(Procs)
=============================================================================
