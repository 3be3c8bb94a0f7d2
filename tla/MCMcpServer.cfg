CONSTANTS
    i1 = i1
    Ids = {i1, i2}
    Queries = {q1}
    tool = tool
    doc = doc
    Features <- MCFeatures
    KindOf <- MCKindOf
    MaxVersion = 2
    Uses <- MCUses
    h1 = h1
    h2 = h2
    h3 = h3
    Handlers = {h1, h2, h3}
    Sessions = {s1, s2}
    MaxMessages <- MCMaxMessages
SPECIFICATION ServerSpec
INVARIANTS StdioAnswersKept HttpAnswersKept
PROPERTIES EveryCallAnswered LiveResponse
CHECK_DEADLOCK FALSE
