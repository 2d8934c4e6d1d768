--------------------------- MODULE MCControlSession ---------------------------
EXTENDS ControlSession

OculusBase == {<<"oculus", "base">>}

=============================================================================
