CONSTANTS
    Clients = {c1}
    NoClient = NoClient
    Kicks = TRUE
    Reasons = {}
SPECIFICATION SpecWired
PROPERTY QuitTerminates
CHECK_DEADLOCK FALSE
