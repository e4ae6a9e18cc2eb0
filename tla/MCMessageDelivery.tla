-------------------------- MODULE MCMessageDelivery --------------------------
(* Message delivery on small instances: one participant, whose phone         *)
(* connects a second time before or after its first connection has gone.     *)
EXTENDS MessageDelivery

CONSTANT phone

MCOwner    == [d \in Device |-> 1]
MCDeviceOf == [s \in Socket |-> phone]
=============================================================================
