\* Two underlyings, one edit of the hours key by key, deletion or manual run
\* beside everything else, two closing sessions and two generator runs.
SPECIFICATION Spec
CONSTANTS
    nifty = nifty
    bank = bank
    Underlyings = {nifty, bank}
    Leads = {1, 2}
    Und <- MCUnd
    Direction <- MCDirection
    Candidates <- MCCandidates
    Costs = {1, 2}
    Strikes = 3
    Margins = {1}
    MarginCheck = TRUE
    MaxDepth = 1
    NoQuote = NoQuote
    Unknown = Unknown
    Features = {"iv", "oi", "time_of_day"}
    HalfLife = 200
    Alpha = 50
    MinTrades = 1
    Times = {600, 700}
    HoursChoices <- MCHours
    Seeded <- MCSeeded
    Sessions <- MCSessions
    Pasts <- MCPasts
    Closers = {tracker, reconciler}
    MaxRuns = 2
    MaxUpkeep = 1
    Placer = Placer
    Unset = Unset
    None = None
INVARIANT DayTypeOK PlansFit
PROPERTY EntriesInSession BestFirst TallyTrue
SYMMETRY Symmetry
CHECK_DEADLOCK FALSE
