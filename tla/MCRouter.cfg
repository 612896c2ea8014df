SPECIFICATION Spec
CONSTANT
    Requests <- MCRequests
INVARIANTS
    FirstFit
    SpecificFirst
