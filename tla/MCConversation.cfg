CONSTANTS
    Profiles <- MCProfiles
    Tools = {"bash", "read"}
    UserBlocks <- MCUserBlocks
    AnswerBlocks <- MCAnswerBlocks
    MaxMessages = 5
SPECIFICATION ConversationSpec
INVARIANTS MessagesPlaced SameConversation AsksLatest
PROPERTY HistoryOnlyGrows
\* The bound on messages ends a conversation.
CHECK_DEADLOCK FALSE
