\* Requests after each other in two data centres, with errors in any order.
SPECIFICATION MCSpec
CONSTANTS
    Users = {1, 2, 3}
    Dcs = {1, 2}
    FirstDc = 1
    MaxErrors = 3
INVARIANTS
    OnePlace
PROPERTIES
    WaitsInOrder
    Answered
CHECK_DEADLOCK FALSE
