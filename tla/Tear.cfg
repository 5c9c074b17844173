SPECIFICATION LiveSpec
CONSTANT
    Scenarios <- AllEnds
INVARIANTS
    JoinBeforeDelete
    NoUseAfterDelete
    NoMissedWakeup
PROPERTIES
    EventuallyDeleted
    UsersReturn
CHECK_DEADLOCK FALSE
