----------------------------- MODULE AtMostOnce -----------------------------
(***************************************************************************)
(* What a durable idempotency store promises the callers of a mutation,    *)
(* stated without transactions, retries, locks or crashes: while a key is  *)
(* retained, the effects of at most one request are applied under it, and  *)
(* every success answered under the key is the response of an applied      *)
(* request with the same payload.                                          *)
(*                                                                         *)
(* KeyedMutation implements this module (see KeyedMutation!Abstract).      *)
(***************************************************************************)
CONSTANTS
    Keys,    \* the (callable, key) pairs requests are sent under
    Prints,  \* request payloads, as fingerprints
    Ids      \* request ids, which are also their responses

VARIABLES
    retained,  \* the keys whose outcome is retained
    applied,   \* [key, print, id]: the requests whose effects are in the database
    answered   \* [key, print, id]: a caller with this key and payload was told id

vars == <<retained, applied, answered>>

Init ==
    /\ retained = {}
    /\ applied = {}
    /\ answered = {}

(* The effects of a request and the retention of its key appear together.  *)
Apply(k, f, id) ==
    /\ k \notin retained
    /\ retained' = retained \cup {k}
    /\ applied' = applied \cup {[key |-> k, print |-> f, id |-> id]}
    /\ UNCHANGED answered

(* A caller is answered only with the response of an applied request that  *)
(* has the caller's own key and payload.                                   *)
Answer(a) ==
    /\ a \in applied
    /\ answered' = answered \cup {a}
    /\ UNCHANGED <<retained, applied>>

(* Retention ends for any set of keys; their effects stay.                 *)
Forget(S) ==
    /\ S \subseteq retained
    /\ retained' = retained \ S
    /\ UNCHANGED <<applied, answered>>

Next ==
    \/ \E k \in Keys, f \in Prints, id \in Ids : Apply(k, f, id)
    \/ \E a \in applied : Answer(a)
    \/ \E S \in SUBSET retained : Forget(S)

Spec == Init /\ [][Next]_vars
=============================================================================
