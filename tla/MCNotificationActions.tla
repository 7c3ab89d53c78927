------------------------ MODULE MCNotificationActions ------------------------
EXTENDS NotificationActions, TLC
CONSTANTS t1, t2
MCTaps == {t1, t2}
TapSymmetry == Permutations(MCTaps)
=============================================================================
