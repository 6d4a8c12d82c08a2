SPECIFICATION ConsoleSpec
CONSTANTS
    None = None
    Slugs = {s1}
    Packs = {p1}
    MaxClicks = 5
    MaxFaults = 0
PROPERTY RetentionPersists
CHECK_DEADLOCK FALSE
