-------------------------- MODULE MCBrokerProtocol --------------------------
EXTENDS BrokerProtocol
=============================================================================
