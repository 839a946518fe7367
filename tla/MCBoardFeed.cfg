\* One screen, other writers, two list requests at once, pages of 1 and 2.
SPECIFICATION FairSpec
CONSTANTS
    User = {u1, u2}
    Sizes = {0, 3}
    defaultPageSize = 1
    maxPageSize = 2
    MaxPosts = 3
\* The supply of ids is finite.
CHECK_DEADLOCK FALSE
INVARIANTS
    TypeOK
    FeedComplete
PROPERTIES
    PagingEnds
