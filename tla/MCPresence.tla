------------------------------ MODULE MCPresence ------------------------------
(* A phone that connects twice and a laptop, and two conversations.           *)
EXTENDS Presence, TLC

CONSTANTS phone, laptop
MCDeviceOf == <<phone, phone, laptop>>
=============================================================================
