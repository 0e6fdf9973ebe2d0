\* Both clients, with the limits scaled down: what a cut leaves of a character.
SPECIFICATION Spec
CONSTANTS
    Inputs <- MCInputs
    MaxLength <- MCMaxLength
    MaxApp = 2
    MaxEntries = 2
    MaxKey = 2
    MaxValue = 2
    MaxEventBytes = 24
    FinalCap = 1
    Overhead = 1
    FieldBytes = 1
INVARIANTS NeverRejected
