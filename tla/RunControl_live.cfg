CONSTANTS
    Clients = {c1}
    NoClient = NoClient
    Kicks = FALSE
    Reasons = {"pass"}
SPECIFICATION SpecYielding
PROPERTY StopReturns
PROPERTY QuitTerminates
PROPERTY IrqTaken
CHECK_DEADLOCK FALSE
