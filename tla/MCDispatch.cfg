CONSTANTS
    OneShots = {s1, s2}
    Chats = {c1}
    Humans = {h1, h2}
    Agents = {a1, a2}
    Typing = FALSE
    MaxMentions = 1
    MaxLog = 4
    Nobody = Nobody
SPECIFICATION Spec
INVARIANTS TypeOK AnsweredOnce NoReplyLoop MentionsOfThisTurn
SYMMETRY MCSymmetry
CHECK_DEADLOCK FALSE
