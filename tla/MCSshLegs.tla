------------------------------ MODULE MCSshLegs ------------------------------
(* Small instances of SshLegs.                                             *)
EXTENDS SshLegs

t1 == "t1"
t2 == "t2"
t3 == "t3"

(* Two processes race for the CA beside one that needs a client pair; or   *)
(* two connections race for the host key and then dial.                    *)
MCJobs == {(t1 :> "ca" @@ t2 :> "ca" @@ t3 :> "pair"), (t1 :> "host" @@ t2 :> "host" @@ t3 :> "none")}
MCPinJobs == {(t1 :> "host" @@ t2 :> "host")}
MCPairJobs == {(t1 :> "pair" @@ t2 :> "pair")}
MCGuestScript == <<"forward", "close">>
MCServerScript == <<"eof", "exit", "close">>
=============================================================================
