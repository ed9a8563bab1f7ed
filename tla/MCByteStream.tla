---- MODULE MCByteStream ----
EXTENDS ByteStreamBuffers
====
