CONSTANT
    Blocks = 3
SPECIFICATION FairSpec
INVARIANTS
    TypeOK
    TextsIntact
    NobodyDies

    
