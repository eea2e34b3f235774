CONSTANTS
    NCpus = 2
    NTasks = 3
    Pin <- MCPin
    KThread = 1
    Parent = 2
    Budgeted = {3}
    Sleepers = {3}
    Mortal = {3}
    Snappers = {2, 3}
    MaxDeaths = 1
    MaxBarriers = 1
    PromptYield = TRUE
SPECIFICATION Spec
INVARIANTS   RunnableQueued PinnedStays ExitedUnreferenced
