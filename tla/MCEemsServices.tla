--------------------------- MODULE MCEemsServices ---------------------------
(***************************************************************************)
(* A configuration without a port, and one with a port that is too large   *)
(* for its 16 bits; a search for this device, one for others, and a        *)
(* datagram that is malformed.                                             *)
(***************************************************************************)
EXTENDS EemsServices

Table(port) == [port |-> port, hostname |-> <<>>, name |-> <<>>, uuid |-> <<>>]

SomeTables == {Table(0), Table(PortModulus + 5)}

SomeHost == <<"nas">>
SomePorts == {6}

MSearch(st) == [method |-> "M-SEARCH", target |-> "*", man |-> "ssdp:discover", st |-> st]

SomeDatagrams ==
    {[sender |-> "renderer", request |-> MSearch("upnp:rootdevice")],
     [sender |-> "printer", request |-> MSearch("ssdp:all")],
     [sender |-> "renderer", request |-> Malformed]}
=============================================================================
