CONSTANTS
    Nil = Nil
    NaN = NaN
    c1 = c1
    c2 = c2
    ProtoMessages <- MCProtoMessages
SPECIFICATION ValidationSpec
INVARIANT DiffIsMinimalEditScript
INVARIANT MeshReportsOnlyInvalidFields
INVARIANT RouteRuleReportsExactlyInvalidFields
INVARIANT DescriptorReportsEveryViolation
INVARIANT MatchReportsExactlyInvalidFields
INVARIANT ConfigFollowsContract
INVARIANT ServiceReportsExactlyInvalidFields
