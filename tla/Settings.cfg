CONSTANTS
    Strings <- MCStrings
    Number <- MCNumber
    Ints <- MCInts
    Fractions <- MCFractions
    Decimal <- MCDecimal
    Pkcs12 <- MCPkcs12
    Ipv6Hosts <- MCIpv6Hosts
    Remotes <- MCRemotes
    X509Names <- MCX509Names
    RouteLines <- MCRouteLines
    TextSamples <- MCTextSamples
    SpinSamples <- MCSpinSamples
    SwitchSamples <- MCSwitchSamples
    PickerSamples <- MCPickerSamples
    SecretSamples <- MCSecretSamples
    Paths <- MCPaths
    MaxEdits = 2
    KeyFiles <- MCKeyFiles
    Connections <- MCConnections
    EditedOnce <- MCEditedOnce
    ProfilePath = "/p/vpn.ovpn"
    BlobPath <- MCBlobPath
    UserFiles <- MCUserFiles
SPECIFICATION Spec
CHECK_DEADLOCK FALSE
INVARIANTS
    TypeOK
    OnlyUserEdits
    SavedProfileComplete
    EmittersAgree
    ReimportKeepsTunnel
    DialogAsksEnough
PROPERTIES
    ApplyKeepsForeign
    UntouchedApplyKeepsTunnel
