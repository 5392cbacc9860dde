---------------------------- MODULE MCMicroVMRun ----------------------------
EXTENDS MicroVMRun
=============================================================================
