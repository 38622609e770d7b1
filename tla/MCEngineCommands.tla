--------------------------- MODULE MCEngineCommands ---------------------------
EXTENDS EngineCommands

MCModels == {"m1", "m2"}
MCEfforts == {"low", "high"}
MCKeyless == {"m2"}
=============================================================================
