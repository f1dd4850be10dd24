\* Two index requests from the start of the service to its exit.
SPECIFICATION FairSpec
CONSTANT Requests = {r1, r2}
CHECK_DEADLOCK FALSE
INVARIANTS DrainIsNotMissed GracefulStopSparesWork
PROPERTY ServiceStops
