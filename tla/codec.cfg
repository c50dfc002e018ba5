SPECIFICATION Spec
CONSTANTS
    NULL = NULL
    UNDEFINED = UNDEFINED
    NoAnswer = NoAnswer
    MD5 <- MCMD5
    ByteStrings <- MCByteStrings
    Texts <- MCTexts
    Nodes <- MCNodes
    Domains <- MCDomains
    Resources <- MCResources
    Challenges <- MCChallenges
    Separators <- MCSeparators
    Fulldomain <- MCFulldomain
    DomainAt = 6
    Records <- MCRecords
INVARIANTS  JidTrue DigestTrue 
