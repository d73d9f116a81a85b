\* Every wire answer, decided by both reconcilers, and every short health answer.
CONSTANTS
    Counts = {0, 1, 2}
    Providers = {}
    NoProvider = NoProvider
    MaxProviders = 2
SPECIFICATION Spec
INVARIANTS
    NothingConcludedFromLess KindsDifferOnProviderOnly OnlyHumansAreAwaitedSlowly
    VerdictsArePassedOn NoTextMeansNoTrouble
