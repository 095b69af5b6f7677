SPECIFICATION Spec
CONSTANT MaxChunks = 4
INVARIANT TypeOK
INVARIANT SinksAgree
INVARIANT DeliveredAtExit
PROPERTY SinksUsedAsPromised
\* The program ends.
CHECK_DEADLOCK FALSE
