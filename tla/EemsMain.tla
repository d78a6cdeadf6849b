------------------------------ MODULE EemsMain ------------------------------
(***************************************************************************)
(* The life of the eems process over its database: main() opens or creates *)
(* the DB, scans every library into a DB it has just created, and serves.  *)
(* systemd starts it again when it dies (config/eems.service has           *)
(* Restart=on-failure); it may be stopped, killed or lose power at any     *)
(* step in between.                                                        *)
(***************************************************************************)
EXTENDS MovieScanner

CONSTANT Inputs \* what may be on disk: records of a tree and a configuration

Content == Seq([path : Directory, use_folder_names : {"yes", "no"}])

ASSUME InputsAssumption ==
    \A input \in Inputs : /\ input.tree \in [Directory -> Listing]
                          /\ input.content \in Content

(***************************************************************************)
(* A folder is reached from a path if it is in every set of folders that   *)
(* holds the path and, with a folder, its subfolders.                      *)
(***************************************************************************)
ClosedFolders(t) == {S \in SUBSET Directory : \A dir \in S : t[dir].dirs \subseteq S}

Reaches(t, path, dir) == \A S \in ClosedFolders(t) : path \in S => dir \in S

(***************************************************************************)
(* A folder is the path it has, with the names of the links on the way: it *)
(* is below one folder only, and nothing below it is above it.             *)
(***************************************************************************)
ASSUME PathsAssumption ==
    \A input \in Inputs : \A dir \in Directory : \A sub \in input.tree[dir].dirs :
        /\ ~Reaches(input.tree, sub, dir)
        /\ \A other \in Directory : sub \in input.tree[other].dirs => other = dir

VARIABLES pc,      \* where main() is; "down" and "stopped": not running
          content, \* config.data.content_directories
          lib      \* how many of the libraries of content it has begun to scan

mainVars == <<pc, content, lib>>
vars == <<storeVars, scannerVars, mainVars>>

ProgramCounters == {"down", "stopped", "open", "root", "libraries", "scan", "serve"}

Init == /\ StoreInit
        /\ ScannerInit
        /\ pc = "down"
        /\ lib = 0
        /\ \E input \in Inputs : tree = input.tree /\ content = input.content

Running == pc \notin {"down", "stopped"}

(* The process is gone, and with it all that is not in the DB. *)
Die(state) == /\ pc' = state
              /\ lib' = 0
              /\ NewScanner
              /\ UNCHANGED <<tree, content>>

-----------------------------------------------------------------------------
Start == /\ ~Running
         /\ pc' = "open"
         /\ UNCHANGED <<content, lib, scannerVars, storeVars>>

(* A variant with a seeded fault: what was there is scanned again. *)
ReopenAndScan == /\ pc = "open"
                 /\ OpenExisting
                 /\ pc' = "libraries"
                 /\ UNCHANGED <<content, lib, scannerVars>>

(* open_db found a database: there is nothing to scan. *)
Reopen == /\ pc = "open"
          /\ OpenExisting
          /\ pc' = "serve"
          /\ UNCHANGED <<content, lib, scannerVars>>

Create == /\ pc = "open"
          /\ CreateDb
          /\ pc' = "root"
          /\ UNCHANGED <<content, lib, scannerVars>>

CreateRoot == /\ pc = "root"
              /\ PutRoot
              /\ pc' = "libraries"
              /\ UNCHANGED <<content, lib, scannerVars>>

(* "Failed to create root container" *)
CreateRootFails == /\ pc = "root"
                   /\ PutFails
                   /\ Die("down")

ScanLibrary ==
    /\ pc = "libraries"
    /\ lib < Len(content)
    /\ lib' = lib + 1
    /\ pc' = "scan"
    /\ \/ ScanKnownFolder(content[lib'].path, content[lib'].use_folder_names)
       \/ ScanNewFolder(content[lib'].path, content[lib'].use_folder_names)
    /\ UNCHANGED content

Scan == /\ pc = "scan"
        /\ ScanStep
        /\ pc' = IF step' = "idle" THEN "libraries" ELSE "scan"
        /\ UNCHANGED <<content, lib>>

(* An exception that nothing catches ends the process. *)
Throws == \/ /\ pc = "libraries"
             /\ lib < Len(content)
             /\ EnterThrows
          \/ /\ pc = "scan"
             /\ ListThrows \/ PutThrows

Throw == /\ Throws
         /\ Die("down")
         /\ UNCHANGED storeVars

(* The movie_scanner goes out of scope and the io_context runs. *)
Serve == /\ pc = "libraries"
         /\ lib = Len(content)
         /\ pc' = "serve"
         /\ lib' = 0
         /\ NewScanner
         /\ UNCHANGED <<content, tree, storeVars>>

-----------------------------------------------------------------------------
(* SIGTERM ends the process at any step; systemd leaves it stopped. *)
Stop == /\ Running
        /\ Die("stopped")
        /\ UNCHANGED storeVars

(* A crash, a kill, or an exception of LevelDB. *)
Crash == /\ Running
         /\ faults < MaxFaults
         /\ faults' = faults + 1
         /\ Die("down")
         /\ UNCHANGED <<db_files, db, durable>>

(* systemd starts the service again when the machine is back. *)
PowerLoss == /\ faults < MaxFaults
             /\ faults' = faults + 1
             /\ LoseUnflushed
             /\ Die("down")

WriteBack == Flush /\ UNCHANGED <<scannerVars, mainVars>>

Process == \/ Reopen
           \/ Create
           \/ CreateRoot
           \/ ScanLibrary
           \/ Scan
           \/ Throw
           \/ Serve

Next == \/ Start
        \/ Process
        \/ CreateRootFails
        \/ Stop
        \/ Crash
        \/ PowerLoss
        \/ WriteBack

Spec == Init /\ [][Next]_vars

(***************************************************************************)
(* A running process goes on, and systemd restarts one that failed.  One   *)
(* that was stopped need not be started again.                             *)
(***************************************************************************)
Restart == pc = "down" /\ Start

Fairness == WF_vars(Process) /\ WF_vars(Restart)

FairSpec == Spec /\ Fairness

-----------------------------------------------------------------------------
(***************************************************************************)
(* The tree of media objects that a reader of the DB sees.                 *)
(***************************************************************************)
ObjectKeys(d) == {k \in DOMAIN d : k.key_type = ObjectKeyType}
ChildrenIn(d) == [k \in ObjectKeys(d) |-> d[k].objects]

Library == INSTANCE MediaLibrary WITH
              Node <- ObjectKeySet, RootNode <- Root,
              children <- ChildrenIn(db), saved <- ChildrenIn(durable)
=============================================================================
