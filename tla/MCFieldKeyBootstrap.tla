------------------------- MODULE MCFieldKeyBootstrap --------------------------
(* Instances of FieldKeyBootstrap for TLC.                                 *)
EXTENDS FieldKeyBootstrap, TLC

===============================================================================
