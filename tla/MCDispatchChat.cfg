CONSTANTS
    OneShots = {s1}
    Chats = {c1}
    Humans = {h1, h2}
    Agents = {a1}
    Typing = TRUE
    MaxMentions = 1
    MaxLog = 3
    Nobody = Nobody
SPECIFICATION FairSpec
PROPERTIES ChatCatchesUp
CHECK_DEADLOCK FALSE
