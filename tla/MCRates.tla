------------------------------ MODULE MCRates ------------------------------
EXTENDS Rates
MCRates == {1, 3, 549, 1098, 1099, 1100, 44100, 4000000, 36000000, 36000001, 71999999, 72000000, 100000000}
MCDuties == {0, 1, 128, 255, 256}
=============================================================================
