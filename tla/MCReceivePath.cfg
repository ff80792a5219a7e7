CONSTANTS
    Base = 4
    SizeWidth = 2
    Capacities = {4, 12}
    Readers = {"ring", "view", "file"}
    Dialogues <- MCDialogues
SPECIFICATION Spec
INVARIANTS
    ReceivedIsSent
    SizesAgree
    CompleteIsTaken
