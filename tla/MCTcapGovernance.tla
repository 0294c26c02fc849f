-------------------------- MODULE MCTcapGovernance --------------------------
EXTENDS TcapGovernance
=============================================================================
