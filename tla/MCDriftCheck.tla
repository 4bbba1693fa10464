---------------------------- MODULE MCDriftCheck ----------------------------
\* A small instance of DriftCheck: four rows of three kinds, windows of one
\* and two units.
EXTENDS DriftCheck

ThreeKinds == {[bin |-> 9, label |-> "positive"],
               [bin |-> 4, label |-> "positive"],
               [bin |-> 4, label |-> "negative"]}
=============================================================================
