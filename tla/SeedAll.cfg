SPECIFICATION FairSpec
CONSTANTS
    None = None
    Torn = Torn
    NotFound = NotFound
    Blank = "blank"
    Excluded = {"mega", "gmax"}
    slugify <- Slugs
    Payload <- Payloads
    Histories <- Days
    Retired <- Darmanitans
    Limits = {0, 1}
    Concurrency = 2
    Retries = 2
    MaxSeeds = 2
CHECK_DEADLOCK FALSE
INVARIANTS
    AnswersOnly
    HintsOfTheForm
PROPERTIES
    NonDestructive
    FollowsUpstream
    SeedEnds
