------------------------------ MODULE RootedStore ------------------------------
(***************************************************************************)
(* What the Nix store promises its users while the garbage collector runs, *)
(* without temporary roots files, sockets and walks: paths are valid with  *)
(* their references, and a path that somebody counts on is not collected   *)
(* until a root has come too late.  NixGC implements it (libstore/gc.cc).  *)
(***************************************************************************)
CONSTANTS Paths, Refs

VARIABLES valid,   \* paths in the store
          kept,    \* paths that a process or a permanent root counts on
          late     \* roots that came too late or will not be seen: the promise is off

svars == <<valid, kept, late>>

SInit == /\ valid \subseteq Paths /\ \A p \in valid : Refs[p] \subseteq valid
         /\ kept = {} /\ late = {}

(* A path is added when all it refers to is there, and its user counts on  *)
(* it from then on; ...                                                    *)
Register(p) ==
  /\ Refs[p] \subseteq valid \cup {p}
  /\ valid' = valid \cup {p} /\ kept' = kept \cup {p}
  /\ UNCHANGED late

(* ... a user may also be told that it is there already, ... *)
Promise(p) == p \in valid /\ kept' = kept \cup {p} /\ UNCHANGED <<valid, late>>

(* ... and may cease to count on it. *)
Renounce == kept' \subseteq kept /\ UNCHANGED <<valid, late>>

(* Only what nobody counts on and nothing refers to goes. *)
Collect(p) ==
  /\ p \notin kept \/ late # {}
  /\ \A q \in valid \ {p} : p \notin Refs[q]
  /\ valid' = valid \ {p}
  /\ UNCHANGED <<kept, late>>

ComeLate == late \subseteq late' /\ UNCHANGED <<valid, kept>>

SNext == Renounce \/ ComeLate \/ \E p \in Paths : Register(p) \/ Promise(p) \/ Collect(p)

SSpec == SInit /\ [][SNext]_svars
=============================================================================
