--------------------------- MODULE MCKeyEnvelope ---------------------------
(* Instances of KeyEnvelope: two containers on one shared volume.           *)
EXTENDS KeyEnvelope

(* Databases in which start-up can tell the right key from a wrong one.     *)
VerifiableInstalls == {"FRESH", "REGISTERED", "CIPHERTEXT"}
=============================================================================
