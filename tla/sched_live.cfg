CONSTANTS
    NCpus = 2
    NTasks = 3
    Pin <- MCPin
    KThread = 1
    Parent = 2
    Budgeted = {3}
    Sleepers = {3}
    Mortal = {3}
    Snappers = {3}
    MaxDeaths = 0
    MaxBarriers = 1
    PromptYield = TRUE
SPECIFICATION FairSpec
PROPERTIES ReadyRuns StarvedReleased WaitReaps
