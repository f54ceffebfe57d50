SPECIFICATION Spec
CONSTANTS
    Exp <- MCExp
    Kind <- MCKind
    Sub <- MCSub
    ConstOf <- MCConstOf
    TypeOf <- MCTypeOf
    Dom <- MCDom
    Exposes <- MCExposes
    Fields <- MCFields
    Equal <- MCEqual
    Name <- MCName
    Base <- MCBase
    NoName = "NoName"
    NoExp = "NoExp"
    Exports <- MCExports
    MaxEntries = 3
    MaxProbes = 1
    Probes <- MCProbes
    Typed <- MCTyped
INVARIANTS
    TypeOK
    AcceptedAreJustified
    CheckedMarkIsEarned
    ModesAreBracketed
    VerdictIsExact
PROPERTIES
    KernelSpec
CHECK_DEADLOCK FALSE
