SPECIFICATION Spec
CONSTANTS
    NULL = NULL
    N = 4
    Rounds = 2
INVARIANTS NoNeighboursEat PickupGivesForks
PROPERTY EveryoneFinishes
