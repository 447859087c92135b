--------------------------- MODULE MCChatTurns ---------------------------
EXTENDS ChatTurns
=============================================================================
