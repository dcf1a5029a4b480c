SPECIFICATION Spec
CONSTANTS
    Calls <- MCCalls
    Texts <- MCTexts
    Tasks = {"transcode", "length", "one", "parse"}
    Directed = {"reverse"}
    UTF8Units = {65, 128, 144, 160, 192, 194, 224, 225, 237, 240, 241, 244, 245, 255}
    ShortText = 3
    UTF8Longer = {65, 191, 195, 225, 241}
    LongText = 5
    UTF16Units = {65, 233, 8364, 55296, 56319, 56320, 57343}
    UTF16Text = 4
INVARIANTS
    TypeOK
    LookaheadIsTheText
    DividesLikeTheStandard
    ScalarsOfTheText
    TranscodesFaithfully
    LengthOfTheCopy
PROPERTIES
    EveryStepAdvances
