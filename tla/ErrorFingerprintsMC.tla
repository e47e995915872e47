------------------------ MODULE ErrorFingerprintsMC ------------------------
(* Small instances of ErrorFingerprints for TLC.                           *)
EXTENDS ErrorFingerprints, TLC

Names == Permutations(Prints)
=============================================================================
