SPECIFICATION Spec
CHECK_DEADLOCK FALSE
SYMMETRY Symmetry
CONSTANTS
    Tasks = {t1, t2}
    NoTask = NoTask
    MaxForms = 3
    MaxCommands = 1
    MaxVersion = 2
INVARIANTS TypeOK OneVerdict NoEndlessWait
PROPERTIES ActsOnWhatWasShown
