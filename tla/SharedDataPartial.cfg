SPECIFICATION Spec
INVARIANT ReusedIsComplete
