\* Two inputs: every kind of path and file-info setting for each, and one
\* input's errors or panic stopping the other from being processed.
CONSTANT Slots = {1, 2}

SPECIFICATION Spec

INVARIANT TypeOK
INVARIANT AcceptedInputIsChart

\* The command ends once every input is handled, rejected or has panicked.
CHECK_DEADLOCK FALSE
