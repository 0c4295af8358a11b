SPECIFICATION Spec
CONSTANTS
    Users = {web, mqtt}
    Btc = btc
    Fragments <- MCFragments
    MaxLinks = 2
    MaxCommands = 2
SYMMETRY MCSymmetry
INVARIANTS TypeOK NothingElseLoses HandshakeUndisturbed NumbersDiffer
CHECK_DEADLOCK FALSE
