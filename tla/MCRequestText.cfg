CONSTANTS
    Messages <- MCMessages
    MaxHeader = 10
    MaxBody = 4
    HeadChunk = 9
    BodyChunk = 3
    DrainChunk = 3
    MaxDepth = 4
    StringCap = 4
    DumpCap = 11
    Printed <- MCPrinted
    StateKey <- MCStateKey
    FileTexts <- MCFileTexts
    Questions <- MCQuestions
    Results <- MCResults
    Vocabularies <- MCVocabularies
    Hash <- MCHash
    FirstCap = 2
    Required <- MCRequired
    Needed <- MCNeeded
    Shortcut <- MCShortcut
SPECIFICATION TextSpec
INVARIANTS BodyIsDeclared StringFits ParsedIsMeant DumpIsState
           LookupIsLast NothingLost
PROPERTY TextEnds
CHECK_DEADLOCK FALSE
