CONSTANTS
    text = text
    stranger = stranger
    photo1 = photo1
    photo2 = photo2
    single = single
    Texts = {text}
    Photos = {photo1, photo2, single}
    Others = {stranger}
    Album = {photo1, photo2}
    Replies <- ShortAndLong
    MaxLength = 3
    MaxTracked = 2
    MaxAccepted = 4
    MaxCrashes = 1
SPECIFICATION Spec
CHECK_DEADLOCK FALSE
INVARIANTS
    OncePerMark
    KeptOnce
    OneAtATime
PROPERTIES
    SentInFull
    ComesToRest
