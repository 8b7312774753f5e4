CONSTANTS
    i1 = i1
    i2 = i2
    r1 = r1
    r2 = r2
    s1 = s1
    istio = istio
    other = other
    None = None
    Names <- MCNames
    RuleIds <- MCRuleIds
    Specs <- MCSpecs
    Classes <- MCClasses
    IstioClass = istio
    MaxWrites <- MCMaxWrites
    CanStop = TRUE
    MaxRelists <- MCMaxRelists

SPECIFICATION Spec

SYMMETRY Symmetry

INVARIANT TypeOK
INVARIANT GetAgreesWithList

CHECK_DEADLOCK FALSE
