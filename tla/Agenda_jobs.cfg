\* A cron job and a job at a timestamp, two instances, and one fault.
SPECIFICATION FairSpec

CONSTANTS
    cron = cron
    reminder = reminder
    c1 = c1
    r1 = r1
    i1 = i1
    i2 = i2
    Instances = {i1, i2}
    Names = {cron, reminder}
    Docs = {c1, r1}
    NameOf <- MCNameOf
    Recurring = {cron}
    Slow = {r1}
    Mortal = {i1}
    MaxFaults = 1

INVARIANTS
    TypeOK
    NoLostWakeup
    ExclusiveRun
    OneRunPerFault

PROPERTIES
    RemovedStaysRemoved
    EveryJobRuns

CHECK_DEADLOCK FALSE
