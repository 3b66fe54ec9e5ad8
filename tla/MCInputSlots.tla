---------------------------- MODULE MCInputSlots ----------------------------
(* InputSlots for TLC: of the two slots NM always has a value for one and  *)
(* may have one for the other.                                             *)
EXTENDS InputSlots, TLC

MCSettings == {[data |-> {"username"}, secrets |-> {}],
               [data |-> {"username"}, secrets |-> {"password"}]}

SafetySpec == Init /\ [][Next]_vars

Symmetry == Permutations(Sessions) \cup Permutations(Calls)
=============================================================================
