---------------------------- MODULE MCOvpnFiles ----------------------------
(* OvpnFiles for TLC: three exports to one path, three imports whose ids look  *)
(* alike or are the same, one of a file with two blobs.                    *)
EXTENDS OvpnFiles, TLC

CONSTANTS i1, i2, i3

MCPathOf == [e \in Exports |-> "vpn.ovpn"]

MCStem == [x \in Ids |-> "a_b"]

MCDisc == [x \in Ids |-> x]

MCBlobsOf == (i1 :> <<"ca", "key">>) @@ (i2 :> <<"key">>) @@ (i3 :> <<"key">>)

(* Exports and imports share nothing: their interleavings add nothing.     *)
MCCasts == {Exports \cup {"activation"}, Imports}

Symmetry == Permutations(Exports) \cup Permutations({i2, i3})
=============================================================================
