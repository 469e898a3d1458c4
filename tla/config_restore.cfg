\* Three texts and room for two snapshots.
SPECIFICATION Spec
CONSTANTS
    Texts = {t1, t2, t3}
    Missing = Missing
    Torn = Torn
    MaxBackups = 2
    MaxTime = 6
SYMMETRY Symmetry
\* The bound on time is reached.
CHECK_DEADLOCK FALSE
INVARIANT ListedIsRestorable
