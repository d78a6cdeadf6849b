--------------------------- MODULE Configuration ---------------------------
(***************************************************************************)
(* load_configuration: what the program makes of its TOML file.  A text is *)
(* the sequence of its parts, <<>> if the file does not give it; an unset  *)
(* port is 0 and an unset flag is "".                                      *)
(***************************************************************************)
EXTENDS Integers, Sequences

CONSTANT PortModulus \* 2^16: listen_port is an unsigned short

ASSUME PortModulusAssumption == PortModulus \in Nat /\ PortModulus > 1

(* The version 5 UUID of a DNS name: names that differ have different ones. *)
NameUuid(host_name) == <<"dns">> \o host_name

NoUrl == [host |-> <<>>, port |-> 0]

(* load_server_config stores the port, an int64, in 16 bits as it is. *)
(* A variant with a seeded fault: the port is kept as it is in the file.   *)
PortAsGiven(table) == table.port

ListenPort(table) == table.port % PortModulus

(***************************************************************************)
(* The defaults, in this order: the name of the machine, and the friendly  *)
(* name and the UUID made from the name there is then.                     *)
(***************************************************************************)
HostName(table, host) == IF table.hostname = <<>> THEN host ELSE table.hostname

Uuid(table, host) ==
    IF table.uuid = <<>> THEN NameUuid(HostName(table, host)) ELSE table.uuid

LoadServerConfig(table, host) ==
    [listen_port |-> ListenPort(table),
     host_name   |-> HostName(table, host),
     name        |-> IF table.name = <<>> THEN <<"EEMSat">> \o HostName(table, host)
                     ELSE table.name,
     uuid        |-> Uuid(table, host),
     base_url    |-> NoUrl]

(***************************************************************************)
(* load_data_config: the libraries in the order of the file, or nothing if *)
(* one has another type than movies: that throws, before the DB is opened. *)
(* Collections cannot be turned off.                                       *)
(***************************************************************************)
UseFolderNames(table) == IF table.use_folder_names = "" THEN "yes" ELSE table.use_folder_names

LoadDataConfig(tables) ==
    IF \E i \in DOMAIN tables : tables[i].type # "movies" THEN {}
    ELSE {[i \in DOMAIN tables |-> [path |-> tables[i].path,
                                    use_folder_names |-> UseFolderNames(tables[i])]]}
=============================================================================
