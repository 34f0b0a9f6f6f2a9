CONSTANTS
    Absent = Absent  Null = Null  Blank = Blank  None = None
    a = a  b = b  ann = ann  bob = bob
    trending = trending  Recent = recent  t1 = t1  t2 = t2  s1 = s1  s2 = s2
    Items <- MCItems
    Users <- MCUsers
    Owner <- MCOwner
    PagedFeeds <- MCPagedFeeds
    SingleFeeds <- MCSingleFeeds
    Server <- MCServer
    Threads <- MCThreads
    Screens <- MCScreens
    FeedOf <- MCFeedOf
    PageSize = 1
    Budget = 4
SPECIFICATION Spec
INVARIANTS
    OrderDefined
    NoGap
    PagesInOrder
    ShownIsCurrent
SYMMETRY Symmetry
CHECK_DEADLOCK FALSE
