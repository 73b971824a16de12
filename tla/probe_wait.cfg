CONSTANTS
    Member = {1, 2, 3, 4}
SPECIFICATION Spec
INVARIANT OncePerRound
