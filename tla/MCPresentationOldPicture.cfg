SPECIFICATION ThreadsSpec
CONSTANT MaxActions = 2
INVARIANT NoOldPicture
