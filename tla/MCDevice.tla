------------------------------- MODULE MCDevice -------------------------------
(* Small instances of Device.  The command channel has room for every      *)
(* caller, as the code's sixteen places have for the few callers here;     *)
(* MCDeviceActor covers the full channel.                                  *)
EXTENDS Device, TLC

MCCallers == Tasks \cup Watchers \cup Pumps
MCRxCap == Cardinality(MCCallers)
MCDeviceUsed == {"Open", "Close"} \cup OpKinds
MCAllMethods == ClaimedMethods \cup {"cl_auth"}
MCRaceMethods == {"cl_auth", "td_take", "vs_auth", "vs_stop"}
MCSessionMethods == MCAllMethods \ {"del_auth"}
MCSymmetry == Permutations(Tasks) \cup Permutations(Watchers) \cup Permutations(Pumps)
                \cup Permutations(Clients) \cup Permutations(Users)
===============================================================================
