---------------------------- MODULE MCAudioCore ----------------------------
EXTENDS AudioCore
=============================================================================
