CONSTANTS
    Files <- MCFiles
    SingleFiles = {"s.png", "s.raw"}
    FormatOf <- MCFormatOf
    Configs <- ConfigsPass
    MaxRepeats <- MCMaxRepeats
    DefaultNumResolutions <- MCDefaultNumResolutions
    DefaultNumLayers <- MCDefaultNumLayers
    NumCommentsSupported = 2
    MaxCommentLength = 3
SPECIFICATION FairSpec
INVARIANT CpuEntriesInIntendedFormat AcceptedPocsWithinCodestream RawComponentsAsListed AcceptedTileGridAnchored ProfileKept CustomMctFromFields CommentsKept
 
