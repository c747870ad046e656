SPECIFICATION Spec
CONSTANTS
    Decls <- MCDecls
    Funcs <- MCFuncs
    Checkees <- MCCheckees
    Universe <- MCUniverse
    Lengths = {1, 2}
INVARIANTS
    AcceptedIsTyped
    GenericsInferred
    SignaturesStable
CHECK_DEADLOCK FALSE
