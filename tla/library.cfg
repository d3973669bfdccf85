SPECIFICATION Spec
CONSTANTS
    Urls <- AllUrls
    LocalUrls <- FileUrls
    NamingUrls <- FileMentioned
    NoUrl = "no URL"
    LongHalf = 4
    Objects <- AllObjects
    Items <- MediaItems
    Spare <- ToCreate
    Content <- Media
    Rank <- ByName
    Matching <- Found
    Start <- AtFirst
    Width = 8
    EnqueueLimit = 1
    PlaylistLimit = 1
    Counts <- PageSizes
    Filters <- TwoFilters
    MaxQueue = 2
    MaxChanges = 1
INVARIANTS
    TypeOK
    PagesAreListing
    ReplyIsTrue
    ShownIsOpened
PROPERTIES
    ViewChangesNothing
