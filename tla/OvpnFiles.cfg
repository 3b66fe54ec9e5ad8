CONSTANTS
    i1 = i1
    i2 = i2
    i3 = i3
    Exports = {e1, e2, e3}
    Targets = {"vpn.ovpn"}
    PathOf <- MCPathOf
    Pinned = "vpn.ovpn"
    Imports = {i1, i2, i3}
    Ids = {"a-b", "a_b"}
    Stem <- MCStem
    Disc <- MCDisc
    BlobsOf <- MCBlobsOf
    Casts <- MCCasts
    Old = Old
    None = None
SPECIFICATION Spec
SYMMETRY Symmetry
CHECK_DEADLOCK FALSE
INVARIANTS
    TypeOK
    NoTornProfile
    NoTempLeft
    OwnBlobs
    CallAtMostOnce
