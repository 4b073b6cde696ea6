---------------------------- MODULE MCCTPService ----------------------------
EXTENDS CTPService
=============================================================================
