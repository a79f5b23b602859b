INIT MissionInit
NEXT MissionNext
CONSTANTS
    MissionIds = {"m"}
    Projects = {"p"}
    Later = {}
    Callers = {c1, c2}
INVARIANT MissionDirsKept
CHECK_DEADLOCK FALSE
