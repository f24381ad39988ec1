---------------------------- MODULE MCWifiSession ----------------------------
EXTENDS WifiSession
=============================================================================
