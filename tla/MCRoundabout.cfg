SPECIFICATION RoundaboutSpec
CONSTANTS
    TOTAL_STREETS = 3
    TOTAL_CARS = 3
    MAX_CARS = 2
    MaxRuns = 2
INVARIANTS CarsConserved FreshStart
PROPERTIES FullRoundaboutMoves EveryCarQueuesUp
CHECK_DEADLOCK FALSE
