SPECIFICATION MCSpec
CONSTANTS
    board1 = board1
    board2 = board2
    Boards = {board1, board2}
    Ports = {1, 2}
    None = None
    MaxRuns = 1
    MaxCycles = 2
    MaxPower = 1
    MaxPolls = 2
    MaxErrors = 2
INVARIANTS OthersUntouched
PROPERTIES OkMeansFlashed TornStaysInLoader
CHECK_DEADLOCK FALSE
