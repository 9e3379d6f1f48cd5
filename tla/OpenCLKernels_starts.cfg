SPECIFICATION Spec
CONSTANTS
  p1 = p1
  p2 = p2
  a = a
  b = b
  c = c
  k1 = k1
  k2 = k2
  m = m
  far = far
  long = long
  None = None
  Proc <- Procs
  Source <- Sources
  Src <- SrcOf
  Thread <- Threads1
  ProcOf <- ProcOfThread
  Kernel <- Kernels1
  HostName <- HostNames
  Uses <- UsesOf
  Distance <- Distances
  Copied <- Copies
  NChunk = 2
  NUpgrade = 1
  NSlip = 1
INVARIANTS TypeOK CacheSettles StartsSucceed OwnKernels
PROPERTIES OwnArguments
