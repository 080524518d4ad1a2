---------------------------- MODULE MCCallServer ----------------------------
(***************************************************************************)
(* Instances of CallServer for TLC.  Alice and Carol have one session each *)
(* and Bob has two, so that two sessions of a callee can compete.          *)
(***************************************************************************)
EXTENDS CallServerProperties, TLC

CONSTANTS alice, bob, carol,   \* users
          a1, b1, b2, c1       \* their sessions

(* Two users, one of them with two sessions *)
PairUsers == {alice, bob}
PairSessions == {a1, b1, b2}
PairUserOf == (a1 :> alice) @@ (b1 :> bob) @@ (b2 :> bob)

(* Three users *)
TrioUsers == {alice, bob, carol}
TrioSessions == {a1, b1, c1}
TrioUserOf == (a1 :> alice) @@ (b1 :> bob) @@ (c1 :> carol)

(* What the clients request and register *)
AliceCallsBob == {[from |-> a1, to |-> bob, rid |-> r] : r \in RequestIds}
BobRefreshes == {<<b2, b1>>}

TaskSymmetry == Permutations(Tasks)
IdSymmetry == Permutations(Tasks) \cup Permutations(Calls)
=============================================================================
