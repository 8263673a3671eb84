CONSTANTS
    Parts = {"walk"}
    N = 3
    Workers = {w1, w2}
    Cooldown = 2
    MaxAttempts = 2
    MaxTime = 2
    Tree <- Index
    Endpoints <- PageMethods
    Notes <- Mentioned
    NoPage = NoPage
    Threads = {t1, t2}
    MaxRedirects = 2
    Docs <- Files
    Host <- FileHost
    Main = main
    Names = {A, B, C}
    Graphs <- FileGraphs
    Local = here
    MaxDepth <- Depths
    MaxNested = 1
    Urls = {"spec", "moved", "elsewhere", "ftp"}
    Origin <- UrlOrigin
    NoOrigin = nowhere
    MaxHops = 5
    MaxBytes = 7
    ChunkBytes = 3
    Described <- Contents
    NoTag = "no tag"
    Spaces <- ThreeSpaces
    Private = {"private"}
    Parent <- Parents
    Products <- ThreeProducts
    Entry <- WayToPages
    Routes <- ThreeRoutes
    Slugs <- Linked
    Extra <- NeverLinked
    Title <- Titles
    SpecsOf <- SectionSpecs
    NotInMenu <- Unlisted
    p1 = p1
    p2 = p2
    main = main
    common = common
    other = other
    A = A
    B = B
    C = C
    here = here
    nowhere = nowhere
SPECIFICATION PortalSpec
INVARIANT OnlyCyclesAreCut
CHECK_DEADLOCK FALSE
