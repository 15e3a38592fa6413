CONSTANTS
    Size = 3
    Bytes = {0, 1}
    Zero = 0
    MaxChunk = 2
    Producers = {p1, p2}
SPECIFICATION Spec
INVARIANT LengthMatchesPointers
INVARIANT NoLostWakeup
PROPERTY ImplementsFifo
SYMMETRY ProducerSymmetry
