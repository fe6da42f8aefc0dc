SPECIFICATION Spec
CONSTANTS
    Ids = {"i1", "i2"}
    Existing = {"i1"}
    MaxScreen = 3
    Foreign <- ForeignConditions
    SplitN <- Replies
INVARIANTS UnderstoodByItself ReadIsStored MadeAsMeant
PROPERTY FollowedWhenNamed
