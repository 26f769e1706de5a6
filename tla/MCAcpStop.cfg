SPECIFICATION Spec
CONSTANTS
    Prompt = {p1, p2}
    Diagnosis = Diagnosis
    Operator = Operator
    MaxLost = 0
    MaxStops = 0
    Mixes <- Met
PROPERTIES SentOrOpen
CHECK_DEADLOCK FALSE
