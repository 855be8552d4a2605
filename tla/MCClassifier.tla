---------------------------- MODULE MCClassifier ----------------------------
(* The classifier on a small instance: see the cfg files for the constants.  *)
EXTENDS Classifier
=============================================================================
