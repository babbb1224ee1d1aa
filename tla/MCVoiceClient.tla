--------------------------- MODULE MCVoiceClient ---------------------------
EXTENDS VoiceClient
=============================================================================
