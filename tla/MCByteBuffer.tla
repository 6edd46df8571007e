---------------------------- MODULE MCByteBuffer ----------------------------
\* Four slots, so three characters at most: every wrap-around of both indices
\* and every status occurs; three characters tell reorderings apart.
EXTENDS ByteBuffer
MCChar == {-1, 0, 7}
=============================================================================
