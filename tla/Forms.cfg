SPECIFICATION MCSpec
CONSTANTS
    Clusters = {"local", "remote"}
    FormsChecked <- Forms
    JobThere = {"local"}
    JobDocs <- MCJobDocs
    MaxEdits = 2
    MaxElsewhere = 1
    MaxOpens = 2
    ItemNames = {"x", "y"}
    MaxItems = 3
    MaxPreviews = 2
    OperationsChecked <- Operations
    Candidates = {"x", "y"}
    MaxReadings = 2
    MaxSubmits = 2
    MaxGestures_ = 2
    MaxOthers = 1
    Parts <- MCParts
    Group <- MCGroup
    Parameters = {"dynamic"}
    Place <- MCPlace
    UpdatesChecked <- Updates
    Stored_ <- MCStored_
    MaxUpdates = 2
    MaxTyped = 2
    MaxForeign = 1
INVARIANTS
    FormsTypeOK
    SavesWhatIsShown
    UntouchedKept
    StopHolds
    WizardLocked
    SentOnce
    NeverOntoItself
    ShowsOwnWork
    CreatesWhatIsListed
PROPERTIES
    SubmittingEnds
    TasksWatched
    FailureTakesOne
    SuccessIsSaved
    OthersKept
CHECK_DEADLOCK FALSE
