--------------------------- MODULE MCAnisetteSetup --------------------------
EXTENDS AnisetteSetup
=============================================================================
