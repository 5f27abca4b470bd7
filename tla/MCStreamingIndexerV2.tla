------------------------ MODULE MCStreamingIndexerV2 ------------------------
EXTENDS StreamingIndexerV2
CONSTANTS x1, x2
Streams == {<<x1, x1, x2>>, <<x1, x2, x2, x2>>, <<x1, x2, x2, x1, x2>>}
=============================================================================
