---------------------------- MODULE MCBufferEdits ----------------------------
EXTENDS BufferEdits
MCNarrowings == {<<1, 2>>}
=============================================================================
