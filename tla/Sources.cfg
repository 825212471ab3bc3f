SPECIFICATION Spec
CONSTANTS
    MainLists <- MCMainLists
    Directories <- MCDirectories
INVARIANTS TypeOK ThirdPartyExact DuplicatesExact IInv
