SPECIFICATION Spec
CONSTANT MaxChunks = 2
INVARIANT UploadIsOptional
\* The program ends.
CHECK_DEADLOCK FALSE
