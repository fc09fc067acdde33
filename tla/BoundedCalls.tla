----------------------------- MODULE BoundedCalls -----------------------------
(* A process that makes calls which may never end, and bounds them: the native
   calls of a readdressing by a watchdog that abandons the thread (IpModify), the
   exchanges with the runtime by a deadline on the socket (RuntimeExchange).  It
   makes the one kind of call or the other.                                   *)
EXTENDS IpModify, RuntimeExchange

CONSTANTS MaxCommands, MaxRequests

Init ==
    \/ ModifyInit(MaxCommands) /\ ExchangeInit(0)
    \/ /\ ModifyInit(0) /\ ExchangeInit(MaxRequests)
       /\ lib = {} /\ os = "linux" /\ address = [d \in Device |-> "old"]

Next == \/ ModifyNext /\ UNCHANGED exchangeVars
        \/ ExchangeNext /\ UNCHANGED modifyVars

Spec == Init /\ [][Next]_<<modifyVars, exchangeVars>>
=============================================================================
