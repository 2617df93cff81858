SPECIFICATION Spec
INVARIANT DecodeTotal
INVARIANT RoundTrip
INVARIANT FromU384Exact
INVARIANT PackUnpackRoundTrip
INVARIANT OkIsHighestCommon
