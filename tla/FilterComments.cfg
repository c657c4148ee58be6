SPECIFICATION AllSpec
CONSTANTS
    N = 2
    BlockShape <- MCBlockShape
    Pixel <- Scan
    Cube = 3
    Boundary <- MCBoundary
    Extents <- MCExtents
    Rois <- MCRois
    Thresholds = {8, 15}
    Factors <- MCFactors
    CubeRois <- MCCubeRois
    MaxRuns = 2
    LabelImages <- Stripes
    Bins = 3
INVARIANT AsCommented
CHECK_DEADLOCK FALSE
