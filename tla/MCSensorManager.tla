-------------------------- MODULE MCSensorManager --------------------------
EXTENDS SensorManager
MCListOrder == <<"acc", "grv", "la">>
=============================================================================
