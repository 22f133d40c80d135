SPECIFICATION FairSpec
CONSTANTS
    v1 = v1
    v2 = v2
    v3 = v3
    i1 = i1
    i2 = i2
    h1 = h1
    h2 = h2
    c1 = c1
    c2 = c2
    Votes = {v1, v2}
    Issues = {i1, i2}
    PullRequests = {i1}
    Handlers = {h1}
    Closers = {c1}
    Poisoned = {v2}
    Malformed = {v2}
    None = None
    Limit <- LiveLimit
PROPERTIES
    CommandsFinish
    VotesSettle
    ResultsPublishedUnlessLost
