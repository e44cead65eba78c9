SPECIFICATION MemorySpec
CONSTANTS
    likes = likes
    dislikes = dislikes
    t1 = t1
    t2 = t2
    Nothing = nothing
    Facts = {likes, dislikes}
    Opposite <- MCOpposite
    Txns = {t1, t2}
    MaxMentions = 4
    MaxTools = 2
    MaxFailures = 1
SYMMETRY Symmetry
INVARIANTS MentionsCounted OneProfile
CHECK_DEADLOCK FALSE
