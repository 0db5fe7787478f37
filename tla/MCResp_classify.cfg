SPECIFICATION Spec
CONSTANTS
    Requests <- MCRequests
    Inlines <- MCInlines
    to_uppercase <- MCToUppercase
    Width = 32
    UsizeMod = 65536
    MaxReceives = 3
INVARIANTS
    TypeOK
    LettersNamed
    NeverOther
CHECK_DEADLOCK FALSE
