SPECIFICATION FairSpec
CONSTANTS
    Vid = {1, 2}
    Seg = {qd, s1, s2}
    QD = qd
    MaxWaits = 3
    MaxUpgrades = 1
INVARIANTS
    TypeOK
PROPERTIES
    NoFalseAlarm
    DeadlockIsBroken
CHECK_DEADLOCK FALSE
