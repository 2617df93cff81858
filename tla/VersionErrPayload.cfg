CONSTANTS
    OwnMasks <- MCPaddedMasks
    RemoteMasks <- MCPaddedMasks
SPECIFICATION Spec
INVARIANT ErrReportsRemoteHighest
