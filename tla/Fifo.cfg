SPECIFICATION Spec
CONSTANTS
    admin1 = admin1
    user1 = user1
    user2 = user2
    Clients = {admin1, user1, user2}
    Aim <- Users
    Programs <- Boots
    NewNames = {"pseudo", "policy"}
    Creations <- Makes
    MayLeave = {user2}
    MaxCalls = 3
    MaxStarts = 3
    MaxCrashes = 1
INVARIANTS EndsMeet AnswerIsOwn FilesInOrder
PROPERTIES StartsAgain CallsReturn
CHECK_DEADLOCK FALSE
