----------------------------- MODULE MCDelivery -----------------------------
\* Instances of Delivery for TLC.
EXTENDS Delivery, TLC

\* The calls of DeliverMessages are interchangeable.
Symmetry == Permutations(Requests)
=============================================================================
