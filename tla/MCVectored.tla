----------------------------- MODULE MCVectored -----------------------------
EXTENDS Vectored

MCVecLens == <<2, 1>>
=============================================================================
