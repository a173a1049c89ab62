CONSTANTS
  DFS_FD_MAX = 2
  MaxParts = 2
  MaxMisread = 2
  MaxFailed = 1
  Uploads = {u1, u2}
  FileSizes = {0, 3, 4}
  PacketSize = 2
  Every = 2
  HeapBlocks = 2
  FRAME_SIZE = 2
  MailSize = 2
  MaxFrames = 3
SPECIFICATION MCSpec
INVARIANTS PhotoStored UploadWhole GpsReportsSound VoiceFramesWhole
PROPERTIES CameraEndsOnlyWhenFull UploadsEnd PhotosGoOn GpsReportsGoOn AlarmIsHeard
CHECK_DEADLOCK FALSE
