CONSTANTS
    PortCounts <- AllPortCounts
    ReplyLens <- AllReplyLens
    JunkBytes <- StackBytes
    MaxChanged = 0
SPECIFICATION HubSpec
INVARIANT DescriptorMatchesStandard
