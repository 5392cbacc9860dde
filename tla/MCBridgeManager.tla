-------------------------- MODULE MCBridgeManager --------------------------
EXTENDS BridgeManager
=============================================================================
