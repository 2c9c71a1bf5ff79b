\* A client proves memberships in two trees while their leaves change.
SPECIFICATION MemberSpec
CONSTANTS
    t1 = t1
    t2 = t2
    zero = zero
    mine = mine
    other = other
    c1 = c1
    Tree = {t1, t2}
    Order <- MCOrder
    Keys <- MCKeys
    Index = {1, 2}
    Leaf = {zero, mine, other}
    Zero = zero
    Width <- MCWidth
    InitialLeaves <- MCInitialLeaves
    MaxWrites = 1
    Client = {c1}
    Knows <- MCKnows
    Lists <- MCLists
    Edits <- MCEdits
INVARIANTS
    MembershipsAreProved
    OutputsWereCurrent
    PersistedLeavesStay
PROPERTIES
    RefusalsAreDue
    SearchesEnd
