---------------------------- MODULE MCWifiProfiles ----------------------------
EXTENDS WifiProfiles, TLC

CONSTANTS t1, t2

MCThreads == {t1, t2}

MCSymmetry == Permutations(MCThreads)

=============================================================================
