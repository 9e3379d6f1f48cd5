---------------------------- MODULE MCDeviceNew ----------------------------
(* Small instances of DeviceNew for TLC. *)
EXTENDS DeviceNew
CONSTANTS b1, b2
K(version, tiles, size, deleteAtOnce) ==
    [version |-> version, tiles |-> tiles, size |-> size,
     deleteAtOnce |-> deleteAtOnce]
Kernels == {K("Xmalloc", 2, 2, FALSE), K("Xmalloc", 1, 2, TRUE),
            K("malloc", 2, 1, TRUE), K("malloc", 1, 2, FALSE)}
=============================================================================
