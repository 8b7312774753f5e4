CONSTANTS
    Nil = Nil
    NaN = NaN
    c1 = c1
    c2 = c2
    ProtoMessages <- MCProtoMessages
SPECIFICATION ServiceHostSpec
INVARIANT ServiceReportsExactlyInvalidFields
