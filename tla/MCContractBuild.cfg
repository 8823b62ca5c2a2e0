CONSTANTS
    init1 = init1
    init2 = init2
    sample = sample
    other = other
    other2 = other2
    keyA = keyA
    keyA2 = keyA2
    keyB = keyB
    compileAll = compileAll
    compileSample = compileSample
    validateAll = validateAll
    typegenSample = typegenSample
    flipper = flipper
    vrf = vrf
    alice = alice
    bob = bob
    Inits = {init1, init2}
    Creates = {sample, other, other2}
    Accounts = {keyA, keyA2, keyB}
    Names = {flipper, vrf}
    Aliases = {alice, bob}
    Flipper = flipper
    Compiles = {compileAll, compileSample}
    Validates = {validateAll}
    Typegens = {typegenSample}
    NameOf <- MCNameOf
    AliasOf <- MCAliasOf
    Matched <- MCMatched
    Sessions <- MCSessions
    MaxKills = 2
    MaxVersion = 2
    Pascal <- MCPascal
    ContractName = "Flipper"
    Metadata <- MCMetadata
SPECIFICATION MCSpec
INVARIANTS
    ContractsAreComplete
    InitIsComplete
    ArtifactsAgree
    FacesFit
PROPERTIES
    CommandsEnd
    AccountsKept
    VersionsFlow
CHECK_DEADLOCK FALSE
