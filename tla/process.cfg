CONSTANTS
    Children = {"c", "d", "e"}
    Pipes = {"s"}
    Split = {"d"}
    Terminals = {"e"}
    Torn = {"d", "s"}
    Talkers = {"c", "e"}
    Readers = {{"d"}, {"s"}, {"c", "s"}}
    Removes = {TRUE, FALSE}
    Turns = 2
    Nesting = 1
    Capacity = 1
    Queued = 2
    JustThis = {FALSE}
    TimeLimit = {FALSE}
SPECIFICATION MCSpec
INVARIANTS TypeOK
PROPERTIES DeliverySpec InputInOrder ExitReported SendProgresses
