CONSTANTS
    r1 = r1
    r2 = r2
    urlA = urlA
    urlB = urlB
    None = None
    Refresher = Refresher
    Requests = {r1, r2}
    Urls = {urlA, urlB}
    Existing <- AtStart
    MaxCalls = 2
    MaxVersion = 2
    MaxFaults = 1
SPECIFICATION LiveSpec
CHECK_DEADLOCK FALSE
INVARIANTS NoStaleOffer NewestOffer
PROPERTIES CatalogConverges
