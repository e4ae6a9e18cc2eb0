------------------------------ MODULE MCMessages ------------------------------
(* Three stored messages in one conversation of two, beside a second one; one   *)
(* of the users is an administrator.                                          *)
EXTENDS Messages

CONSTANTS u1, u2, c1, c2, t1

MCOld == <<u1, u2, u1>>
===============================================================================
