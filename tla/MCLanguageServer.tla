---------------------------- MODULE MCLanguageServer ----------------------------
(* Instances of LanguageServer for TLC: a project, one nested in it, a file in     *)
(* neither.                                                                        *)
EXTENDS LanguageServer, TLC
MCFiles == {"a", "b", "c"}
MCDirs == {"outer", "inner"}
MCAbove == "a" :> <<"outer">> @@ "b" :> <<"inner", "outer">> @@ "c" :> <<>>
MCRank == "a" :> 1 @@ "b" :> 2 @@ "c" :> 3
================================================================================
