SPECIFICATION Spec
CONSTANTS
    first = first
    second = second
    Invocations <- MCInvocations
    CommandLines <- MCCommandLines
    Sizes = {1, 2, 3}
    Buffer = 2
INVARIANTS TypeOK ReadAsWritten UsageIsTheLine OldFileKept ReportedIsWritten IInv
PROPERTY FoundFileRefused
