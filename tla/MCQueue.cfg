CONSTANTS
    Producers = {t3, t4}
    Consumers = {t1, t2}
    Puts = 3
    Gets = {3, 4}
    Size = 3
SPECIFICATION Spec
INVARIANTS TypeOK EndsDrained
PROPERTIES Terminates ImplementsFifo
