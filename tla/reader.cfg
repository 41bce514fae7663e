SPECIFICATION Spec
CONSTANT Files <- MCFiles
INVARIANT AcceptedIsBalanced
INVARIANT OpenersTracked
INVARIANT TrailingCommentsSkipped
CHECK_DEADLOCK FALSE
