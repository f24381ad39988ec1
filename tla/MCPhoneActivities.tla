------------------------- MODULE MCPhoneActivities -------------------------
EXTENDS PhoneActivities

CONSTANTS d1, d2
MCLists == {<<d1, d2>>}
=============================================================================
