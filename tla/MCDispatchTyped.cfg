CONSTANTS
    OneShots = {s1}
    Chats = {c1}
    Humans = {h1, h2}
    Agents = {a1, a2}
    Typing = TRUE
    MaxMentions = 1
    MaxLog = 5
    Nobody = Nobody
SPECIFICATION Spec
INVARIANTS MentionsOfThisTurn
CHECK_DEADLOCK FALSE
