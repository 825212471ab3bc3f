SPECIFICATION Spec
CONSTANTS
    first = first
    second = second
    Invocations <- MCInvocations
    CommandLines <- MCWriting
    Sizes = {1, 3}
    Buffer = 2
PROPERTY ExistingFilesProtected
