\* Kills and closed windows at any point, two calls in flight.
SPECIFICATION RunnerSpec
CONSTANTS
    Ids = {1, 2, 3}
    SeedOrder <- MCSeedOrder
    NewIds = {1}
    Users = {u1, u2}
    Boot = Boot
    All = All
INVARIANTS StoreOK RunnerOK
PROPERTIES QuotesSurvive ComesUp WindowShows CloseQuits
