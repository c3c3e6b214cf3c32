------------------------------ MODULE MCStation -------------------------------
EXTENDS Station
=============================================================================
