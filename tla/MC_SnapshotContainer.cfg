CONSTANTS
    Magic = 9
    MinFilesCount = 4
    MaxFilesCount = 5
    MaxFilenameLength = 5
    MinFileSize = 2
    MaxFileSize = 3
    RWBufferSize = 2
    MaxDimension = 4
    MaxSearchDepth = 4
    U32 = 16
    Sep = 7
    Dots = 6
    IndexName <- MCIndexName
    IndexDataName <- MCIndexDataName
    MappingName <- MCMappingName
    ConfigJsonName <- MCConfigJsonName
    Root <- MCRoot
    SnapshotName <- MCSnapshotName
    PeerName <- MCPeerName
    Containers <- MCContainers
    Jsons <- MCJsons
    IoMayFail = TRUE
SPECIFICATION Spec
INVARIANTS
    TypeOK
    ContainerUnpacked
    CopiedAsDeclared
CHECK_DEADLOCK FALSE
