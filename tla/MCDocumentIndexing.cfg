CONSTANTS
    Docs = {1, 2}
    Jobs = {1, 2}
    Dims = {3, 4}
    FirstDim = 3
    ImageDims = {5, 6}
    FirstImageDim = 5
    FirstColls <- Collections
    ChunkCounts = {0, 2}
    DefaultChunks = 2
    Illustrated = {2}
    Stride = 10
    MaxEvents = 1
SPECIFICATION IndexSpec
INVARIANT Attended
PROPERTIES CompletedIsIndexed DeletedIsGone CollectionIsKept
