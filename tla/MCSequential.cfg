CONSTANTS
    Tokens <- MCTokens
    Eog <- MCEog
    Misplaced = "misplaced"
    Prompts <- MCPrompts
    mContextLength = 6
    Switches <- OneMode
SPECIFICATION AllSpec
INVARIANTS Represented TextsComeBack
PROPERTIES KeepsConversation
CHECK_DEADLOCK FALSE
