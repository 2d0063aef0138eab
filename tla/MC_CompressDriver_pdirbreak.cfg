CONSTANTS
    Files <- MCFiles
    SingleFiles = {"s.png", "s.raw"}
    FormatOf <- MCFormatOf
    Configs <- ConfigsPluginDirForced
    MaxRepeats <- MCMaxRepeats
    DefaultNumResolutions <- MCDefaultNumResolutions
    DefaultNumLayers <- MCDefaultNumLayers
    NumCommentsSupported = 2
    MaxCommentLength = 3
SPECIFICATION Spec
INVARIANT ExitSuccessMeansEveryFileAttempted
