--------------------------- MODULE MCGuestSurface ---------------------------
EXTENDS GuestSurface
=============================================================================
