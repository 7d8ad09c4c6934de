---------------------- MODULE MCLeakedSpinLockBreaker -----------------------
EXTENDS LeakedSpinLockBreaker
=============================================================================
