SPECIFICATION ListSpec
CONSTANTS
    Ids = {"w", "a", "b"}
    Worker = "w"
    Scraped = {"b"}
    Limit = 2
    Few = 1
    MaxFetches = 2
    MaxLives = 2
CHECK_DEADLOCK FALSE
INVARIANTS
    OneEach
    FavoritesShown
PROPERTY
    ListComesBack
