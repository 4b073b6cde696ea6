---------------------------- MODULE MCPrepareSync ----------------------------
EXTENDS PrepareSync

(* Every configuration with an honest server; with a stranger, those that  *)
(* its answers can make a difference for.                                  *)
MCSetups ==
    {s \in SetupType :
        /\ s.server = "stranger" =>
               /\ s.refused = {} /\ ~s.proactive /\ s.password /\ s.sendDevInfo
               /\ s.demands = s.clientType /\ ~s.addressChange
        /\ ~s.required => s.serverType = "basic" /\ ~s.proactive
        /\ s.addressChange => s.refused = {} /\ s.password /\ ~s.required
        /\ ~s.sendDevInfo => s.refused = {} /\ s.password}

MCHdrStatuses == {-1, 200, 401, 500}
MCAlertStatuses == {-1, 200, 401, 404}

=============================================================================
