SPECIFICATION MCSpec
CONSTANTS
    Clips = {c1, c2}
    Notes = {n1}
    Stoppers = {s1, s2}
    SecondClip = c2
    SecondStop = s2
    NoOne = NoOne
    StopCommand = StopCommand
    Pre = 1
    Post = 1
    MaxSpan = 1
INVARIANTS
    NobodyIsForgotten
    StopMeansStopped
PROPERTIES
    IsAClipService
    NobodyWaitsForEver
CHECK_DEADLOCK FALSE
