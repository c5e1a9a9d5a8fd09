---------------------------- MODULE MCDeviceActor ----------------------------
(* DeviceActor with two callers and two priority callers on channels of    *)
(* one, so that both channels fill up while the actor is busy.             *)
EXTENDS DeviceActor

\* One command of each shape: opening, closing, streaming, storage.
MCUsed == {"Open", "Close", "Verify", "DeletePrint"}
==============================================================================
