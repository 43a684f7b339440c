SPECIFICATION FairSpec
CONSTANTS
    MaxLogs = 3
    Limit = 2
    Timeout = 2
    PollInterval = 1
    PostMax = 1
    PageSizes = {1, 2}
    DefaultPageSize = 2
    Terms <- MCTerms
    BadRegex <- MCBadRegex
    MatchedBy <- MCMatchedBy
INVARIANTS
    TypeOK
    CompleteOrSaysSo
    ShownAsRefined
    PageHasRows
    WithinBudget
PROPERTIES
    ButtonComesBack
