---------------------------- MODULE MCHioSocket ----------------------------
\* Instances of HioSocket for TLC.  Three frames are needed on one connection -
\* one in the kernel, one queued, one over the limit - and one frame on the
\* next is enough to see what the first has left behind.
EXTENDS HioSocket

FramesOfTwo == <<3, 1>>
=============================================================================
