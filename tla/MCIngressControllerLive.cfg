CONSTANTS
    i1 = i1
    i2 = i2
    r1 = r1
    r2 = r2
    s1 = s1
    istio = istio
    other = other
    None = None
    Names <- MCNames
    RuleIds <- MCRuleIdsLive
    Specs <- MCSpecs
    Classes <- MCClassesLive
    IstioClass = istio
    MaxWrites <- MCMaxWritesLive
    CanStop = FALSE
    MaxRelists <- MCNoRelists


SPECIFICATION FairSpec

PROPERTY EveryTaskEventuallyApplied

CHECK_DEADLOCK FALSE
