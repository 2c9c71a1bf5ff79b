\* One tree in a file: a leaf is replaced by one whose text is shorter.
SPECIFICATION StorageSpec
CONSTANTS
    t = t
    short = short
    long = long
    Tree = {t}
    Index = {1}
    Leaf = {short, long}
    Zero = short
    Width <- MCWidth
    InitialLeaves <- MCInitialLeaves
    Keys = {{}}
    MaxWrites = 1
INVARIANT
    FilesHoldAState
