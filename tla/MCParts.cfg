SPECIFICATION PartsSpec
CONSTANTS
    Users = {"u1", "u2"}
    Devices = {"d1", "d2"}
    Passwords = {"w"}
    LegacyDevices = {"d2"}
    NoPassword = "none"
    NoUser = "nobody"
    AccessTtl = 1
    RefreshTtl = 2
    MaxTime = 2
    MaxTokens = 2
    MaxRequests = 2
    Size = 3
    MaxRanges = 2
    VersionedFiles = {"f"}
    VersionContents = {"c1", "c2"}
    Gone = "gone"
    KeepLatest = 2
    PageSize = 1
    MaxCommits = 5
    Processes = {"p1", "p2"}
    Calls = {"a", "b", "c"}
    CommitCalls = {"b"}
    NoCall = "none"
    MaxVersion = 4
    NoteIds = {f1, f2}
    Paths = {c1, c2, a1}
    Attachments = {a1}
    Texts = {"x"}
    Edits = {"u"}
    Nothing = Nothing
    MaxOperations = 3
    Words = {a}
    LockWord = LockWord
    NotePaths = {"n1", "n2"}
    NoDraft = NoDraft
    Free = Free
    OwnNote = OwnNote
    MaxPreviews = 2
    MaxLength = 3
    Notes = {f1, f2}
    Contents = {c1, c2}
    Unhashed = Unhashed
    NoToken = NoToken
    MaxMtime = 2
SYMMETRY PartsSymmetry
CHECK_DEADLOCK FALSE
INVARIANTS
    PartsTypeOK
    TokensFollowSessions
    DownloadsAreExact
    ListingFindsKept
    AnsweredIsKept
    TrashStaysReachable
    EditsSurviveWriteback
    CommitsAreOneMoment
    StagingIsSwept
PROPERTIES
    RevokedStaysClosed
    RetentionTakesOldest
    NothingIsOverwritten
