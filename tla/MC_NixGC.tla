------------------------------- MODULE MC_NixGC -------------------------------
(* Two store paths, of which one refers to the other. *)
EXTENDS NixGC, TLC

CONSTANTS a, b

MCRefs == a :> {} @@ b :> {a}

(* Clients take the same steps. *)
Symmetry == Permutations(Clients)

(* Bound: a behaviour is followed until the first root comes too late. *)
InTime == late = {}

(* Bound: no repair begins where there are permanent roots, and none are   *)
(* made during one.                                                        *)
Apart == \/ perm = {} /\ \A c \in Clients : ~linking[c]
         \/ broken = {} /\ \A c \in Clients : pc[c] # "repair"
=============================================================================
