SPECIFICATION Spec
INVARIANT PackedLenMatches
