SPECIFICATION FairSpec
CONSTANTS
    None = None
    MinVerifiedCount = 1
    MaxUnsupportedRatio = 50
    MinConfidence = 50
    MinTop1 = 60
    MinStrongChunks = 2
    StrongChunk = 50
    Configs <- MCConfigs
    Corpus <- MCCorpus
    Clearance = 2
    ContextTopK = 3
    ScoreLists <- MCScoreLists
    Answers <- MCAnswers
    Similarities <- MCSimilarities
    Readings <- MCReadings
    Subjects = 2
    MaxFigures = 2
    MaxTokens = 2
INVARIANTS
    TypeOK
    CitationsAreBacked
    RecordedAsAnswered
    PiiChecksHold
PROPERTIES
    ImplementsTurn
