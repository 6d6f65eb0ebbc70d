------------------------------ MODULE MCTargets ------------------------------
(***************************************************************************)
(* Instances of Targets for TLC: addresses of four bits; networks of one,  *)
(* two, four and eight addresses, inside each other, side by side and at   *)
(* the end; a computer that has no DNS name, and one that is a server.     *)
(***************************************************************************)
EXTENDS Targets

MCFile      == {{}, {Net(5, 2), Target("ipv4", 4), Target("bare", 1)},
                {Net(14, 3), Target("ipv4", 15)}}
MCCli       == {{}, {Net(0, 1), Target("fqdn", 1)}, {Net(9, 4), Target("ipv6", 1)}}
MCComputers == {Target("bare", 1), Target("fqdn", 2), Target("bare", 3)}
MCServers   == {Target("bare", 3)}
MCNets      == {Net(4, 2), Net(12, 2)}
MCAuth      == {{}, {"password"}, {"hashes"}, {"key"}, {"key", "kerberos"}, {"windows"}}

MCOptions ==
  {[hasFile |-> h, file |-> f, fileReadable |-> r, cli |-> c, subnets |-> s, dc |-> d,
    auth |-> u, computers |-> MCComputers, servers |-> MCServers, nets |-> MCNets] :
     h \in BOOLEAN, f \in MCFile, r \in BOOLEAN, c \in MCCli, s \in BOOLEAN,
     d \in BOOLEAN, u \in MCAuth}
=============================================================================
