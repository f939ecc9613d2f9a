\* Two runs that share a state file, two changes of the library after its first version, and
\* one fault, which may be a sweep while the snapshot is read.
CONSTANTS
    folder = folder  file = file  oldName = oldName  newName = newName
    Items = {folder, file}
    Names = {oldName, newName}
    Root = Root  Absent = Absent  Unstaged = Unstaged
    Places <- FolderAndFile
    First <- FolderOnly
    Sessions = {"s1", "s2"}
    Output <- OneOfEach
    MaxChanges = 3
    MaxFaults = 1
SPECIFICATION FairSpec
INVARIANTS
    IInv TokenCovers TokenDelivered
PROPERTIES
    TokenAdvances ArtifactShowsLibrary CatchesUp
CHECK_DEADLOCK FALSE
