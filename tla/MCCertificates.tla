---------------------------- MODULE MCCertificates ----------------------------
(***************************************************************************)
(* Certificates for TLC: every TLS section there is, one edit of it with   *)
(* the webhook up or down, and one deletion of the generated secret.       *)
(***************************************************************************)
EXTENDS Certificates
=============================================================================
