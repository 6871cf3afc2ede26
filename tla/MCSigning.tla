----------------------------- MODULE MCSigning -----------------------------
(* Signing for two one-field commands, a shared secret and another.         *)
EXTENDS Signing

MCField == {"account"}
============================================================================
