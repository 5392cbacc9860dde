SPECIFICATION FairSpec
CONSTANTS
    None = None
    MaxRogue = 5
INVARIANT TypeOK
INVARIANT AcceptedConversation
INVARIANT SharedSessionSafe
PROPERTY ConversationEnds
CHECK_DEADLOCK FALSE
