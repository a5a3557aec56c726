CONSTANT Changes = 2
SPECIFICATION Spec
PROPERTY AttemptsContinue
