----------------------------- MODULE MCDelivery -----------------------------
EXTENDS Delivery, TLC

\* connections are interchangeable (not used for liveness)
ConnSymmetry == Permutations(Conns)
=============================================================================
