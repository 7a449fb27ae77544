SPECIFICATION ShellSpec
CONSTANTS
    Tab = {t1, t2}
    User = {u1, u2}
    Buttons = 3
    Guarded = {1, 2}
    MaxRotations = 3
INVARIANT ChosenActionIsSent
CHECK_DEADLOCK FALSE
