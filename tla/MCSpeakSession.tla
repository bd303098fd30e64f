--------------------------- MODULE MCSpeakSession ---------------------------
EXTENDS SpeakSession
=============================================================================
