SPECIFICATION Spec
CONSTANTS
    maxTransitions = 2
    NoIncident = NoIncident
    Config <- SeriesConfigs
    Skip <- Often
    MaxEnd = 6
PROPERTIES FiresAfterFor FiresInTime ResolvesAfterHold FlappingHeld 
CHECK_DEADLOCK FALSE
