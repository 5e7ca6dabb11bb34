-------------------------- MODULE MCRecorderControl --------------------------
EXTENDS RecorderControl
=============================================================================
