SPECIFICATION Spec
CONSTANTS
    Proc = {p1}
    p1 = p1
    p2 = p2
    Text = {t1}
    NoText = NoText
    MaxHead = 1
    MaxContent = 1
    Feedback = TRUE
    MaxMishaps = 1
INVARIANTS AnnouncedOnce
