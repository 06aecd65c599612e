\* Both root-hub replies, for every port count: every request length from 0
\* to one past the descriptor, and every set of up to two changed ports.
CONSTANTS
    PortCounts <- AllPortCounts
    ReplyLens <- AllReplyLens
    JunkBytes <- ZeroStack
    MaxChanged = 2
SPECIFICATION HubSpec
INVARIANTS HubTypeOK DescriptorSizedForPorts HubStatusMatchesBitmap
