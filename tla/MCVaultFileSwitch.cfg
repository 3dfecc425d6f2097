CONSTANTS
    home = home
    work = work
    old = old
    other = other
    edit1 = edit1
    edit2 = edit2
    sent1 = sent1
    sent2 = sent2
    Nothing = Nothing
    Contents = {old, other, edit1, edit2, sent1, sent2}
    Files = {home, work}
    Origin <- TwoFiles
    Edits <- TwoFileEdits
    Arrivals = {}
    Tracked = home
    Setups = {"tracking"}
    Slots = {1}
    MaxWatchers = 2
    Uses = {"edit", "reopen", "bind", "stop", "restart", "apply"}
SPECIFICATION Spec
INVARIANTS
    TrackedIsWatched
PROPERTIES
    FilesKeepTheirVault
CHECK_DEADLOCK FALSE
