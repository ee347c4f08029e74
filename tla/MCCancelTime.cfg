SPECIFICATION Spec
CONSTANTS
    K = 5
    SecMax = 8
    Timeouts = {0, 1, 4, 5, 7, 14, 20, 45, 60}
    Infinite = Infinite
INVARIANT CancelledInTime
