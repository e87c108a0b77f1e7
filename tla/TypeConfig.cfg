SPECIFICATION Spec
CONSTANTS
    Type = {a, b}
    Registrar = {r1, r2}
    NoType = NoType
SYMMETRY Symmetry
INVARIANTS
    TypeOK
    RegisteredTypesStay
    ReferenceStaysValid
PROPERTY ReloadFailsOnlyInRewrite
