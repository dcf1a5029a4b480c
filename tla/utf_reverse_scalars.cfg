SPECIFICATION Spec
CONSTANTS
    Calls <- MCCalls
    Texts <- MCTexts
    Tasks = {"parse"}
    Directed = {"reverse"}
    UTF8Units = {128, 160, 236, 255}
    ShortText = 4
    UTF8Longer = {}
    LongText = 0
    UTF16Units = {55296, 56320}
    UTF16Text = 2
INVARIANT
    DecodesToScalars
