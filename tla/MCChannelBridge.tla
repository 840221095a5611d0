-------------------------- MODULE MCChannelBridge --------------------------
(* One conversation of two messages, small enough for TLC. *)
EXTENDS ChannelBridge
=============================================================================
