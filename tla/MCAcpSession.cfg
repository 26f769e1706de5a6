SPECIFICATION Spec
CONSTANTS
    Prompt = {p1, p2, p3}
    Diagnosis = Diagnosis
    Operator = Operator
    MaxLost = 1
    MaxStops = 1
    Mixes <- Met
SYMMETRY Alike
INVARIANTS TypeOK HandedOnce WaitEnds
PROPERTIES InOrder OneDiagnosis
CHECK_DEADLOCK FALSE
