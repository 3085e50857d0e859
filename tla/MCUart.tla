------------------------------- MODULE MCUart -------------------------------
EXTENDS Uart
=============================================================================
