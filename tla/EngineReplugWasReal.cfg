CONSTANTS
    ChgFresh = 1
    ChgEnd = 3
    Running = 1
    Stage4 = 1
    Cooldown = 1
    None = None
SPECIFICATION Spec
PROPERTY ReplugWasReal
