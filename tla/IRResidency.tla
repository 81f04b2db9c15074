----------------------------- MODULE IRResidency -----------------------------
(***************************************************************************)
(* What the cache of impulse responses promises: a response is on the GPU  *)
(* exactly as long as some processor uses it, and processors that use the  *)
(* same response use the same copy of it.                                  *)
(***************************************************************************)
CONSTANTS Users, Responses, Nothing

VARIABLES uses, resident

vars == <<uses, resident>>

Init ==
  /\ uses = [u \in Users |-> Nothing]
  /\ resident = {}

Acquire(u, r) ==
  /\ uses[u] = Nothing
  /\ uses' = [uses EXCEPT ![u] = r]
  /\ resident' = resident \cup {r}

(* The last user of a response takes it off the GPU. *)
Release(u) ==
  /\ uses[u] # Nothing
  /\ uses' = [uses EXCEPT ![u] = Nothing]
  /\ resident' = IF \E v \in Users \ {u} : uses[v] = uses[u]
                 THEN resident
                 ELSE resident \ {uses[u]}

Next ==
  \E u \in Users :
    \/ Release(u)
    \/ \E r \in Responses : Acquire(u, r)

Spec == Init /\ [][Next]_vars

(* A response is on the GPU exactly if someone uses it. *)
ResidentIffUsed == resident = {uses[u] : u \in Users} \ {Nothing}
=============================================================================
