--------------------------- MODULE MCDataPipeline ---------------------------
\* Instance of DataPipeline for TLC, without symmetry: a liveness property is checked.
EXTENDS DataPipeline

MCBufferSizes == {0, 1}
=============================================================================
