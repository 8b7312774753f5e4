CONSTANTS
    i1 = i1
    i2 = i2
    r1 = r1
    r2 = r2
    s1 = s1
    istio = istio
    other = other
    None = None
    Names <- MCNames
    RuleIds <- MCRuleIds
    Specs <- MCSpecs
    Classes <- MCClasses
    IstioClass = istio
    MaxWrites <- MCMaxWrites
    CanStop = FALSE
    MaxRelists <- MCMaxRelists


SPECIFICATION Spec

INVARIANT WatchFailureNeverFatal

CHECK_DEADLOCK FALSE
