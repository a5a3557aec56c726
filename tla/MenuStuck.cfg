SPECIFICATION Spec
CONSTANTS
 Edits = 2
 Faults = 1
PROPERTIES GuardFiresOnce
CHECK_DEADLOCK FALSE
