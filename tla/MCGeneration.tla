----------------------------- MODULE MCGeneration -----------------------------
(* Instances of Generation for TLC.                                            *)
EXTENDS Generation

CONSTANTS api, sql, model, client

MCOutputs == [gen |-> <<api, sql>>, build |-> <<client>>, import |-> <<model>>]
================================================================================
