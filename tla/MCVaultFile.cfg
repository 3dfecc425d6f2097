CONSTANTS
    home = home
    work = work
    old = old
    other = other
    edit1 = edit1
    edit2 = edit2
    sent1 = sent1
    sent2 = sent2
    Nothing = Nothing
    Contents = {old, other, edit1, edit2, sent1, sent2}
    Files = {home}
    Origin <- OneFile
    Edits <- OneFileEdits
    Arrivals = {sent1}
    Tracked = home
    Setups = {"tracking", "new"}
    Slots = {1}
    MaxWatchers = 1
    Uses = {"edit", "sync", "save as", "promote", "writeback"}
SPECIFICATION Spec
INVARIANTS
    SavesNoticed
    AtRestInStep
PROPERTIES
    HeldBackEnds
CHECK_DEADLOCK FALSE
