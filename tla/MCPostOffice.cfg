SPECIFICATION Spec
CONSTANTS
    Machines = {0, 1}
    Boxes = {0, 1}
    K = 2
    Scenarios <- MCScenarios
    NULL = NULL
INVARIANTS MailInOrder OneSend HaltsTogether
PROPERTY ClientsEnd
CHECK_DEADLOCK FALSE
