----------------------------- MODULE MCThumbHead -----------------------------
\* ThumbHead with the heads of ThumbCalls.
EXTENDS ThumbHead, ThumbCalls
=============================================================================
