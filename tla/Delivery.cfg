SPECIFICATION Spec
CONSTANTS
    Proc = {p1, p2}
    p1 = p1
    p2 = p2
    Text = {t1}
    NoText = NoText
    MaxHead = 2
    MaxContent = 2
    Feedback = FALSE
    MaxMishaps = 2
INVARIANTS TypeOK AnnouncedOnce PublishedOnce Truthful
PROPERTIES Settles ImplementsAttempts
