SPECIFICATION Spec
INVARIANT ReleasedOnce
INVARIANT AllocatorIsEmpty
INVARIANT HeldUnchanged
CONSTANT
    MaxFaults = 3
