SPECIFICATION FairSpec
CONSTANTS
    Tuners = {g1, g2}
INVARIANT TypeOK
INVARIANT OffersAreNoticed
PROPERTY LateJobGetsOffers
PROPERTY IdleIsSuppressed
PROPERTY DeposedEnds
