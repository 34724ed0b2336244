SPECIFICATION SyscallSpec
CONSTANTS
  FS_MAX_FILES = 2
  FS_BYTES_PER_SECTOR = 2
  FatCache <- MCFatCache
  FatSize <- MCFatSize
  Names <- MCNames
  LowCluster <- MCLowCluster
  FileSize <- MCFileSize
  Chain <- MCChain
  Counts <- MCCounts
  SeekOffsets <- MCAligned
  KERNEL_MAX_FILES = 3
  CatBuffer = 3
  CountModulus = 8
INVARIANT RefusedOnlyWhenFull
