CONSTANTS
    Num = 2
    Width = 3
SPECIFICATION FairSpec
INVARIANT TypeOK
PROPERTIES ImplementsQueue 
