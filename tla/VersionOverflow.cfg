CONSTANTS
    OwnMasks <- MCWideMasks
    RemoteMasks <- MCWideMasks
SPECIFICATION Spec
INVARIANT OkIsHighestCommon
