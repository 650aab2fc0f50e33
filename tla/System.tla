--------------------------------- MODULE System -------------------------------
(***************************************************************************)
(* Processes, descriptors and the network: Exit, Process, Directory and    *)
(* Network side by side.  They share no state, so a behaviour runs one of  *)
(* them, `part`, and the others keep one of their initial states: the      *)
(* states add up, and do not multiply.  Process runs as "process", with    *)
(* any calls, and as "pipeline", with programs that use a pipe as it is    *)
(* meant to be used.                                                       *)
(***************************************************************************)
EXTENDS Integers, Sequences

CONSTANTS
    Handler, MaxExits,                        \* Exit
    Scripts, MaxFd, PipeScripts, MaxPipeFd,   \* Process, in any way and as a pipeline
    MAX_DIRS, Handles, Listings, Stale, MaxReads,    \* Directory
    Devices, Ips, Sizes, MaxSockets, MaxQueue \* Network

VARIABLES
    part,
    cxa_handlers, atexit_handlers, exits, standard, printed, written, due, ran,  \* Exit
    proc, device, received, said, lost, twins,                                   \* Process
    dir_pool, files, handle, open, misused,                                      \* Directory
    addr, routes, sockets, handles, intended, answer                             \* Network

exiting == <<cxa_handlers, atexit_handlers, exits, standard, printed, written, due, ran>>
process == <<proc, device, received, said, lost, twins>>
directory == <<dir_pool, files, handle, open, misused>>
network == <<addr, routes, sockets, handles, intended, answer>>
vars == <<part, exiting, process, directory, network>>

Exiting == INSTANCE Exit WITH open <- standard
Running == INSTANCE Process
Piping == INSTANCE Process WITH Scripts <- PipeScripts, MaxFd <- MaxPipeFd
Listing == INSTANCE Directory WITH MaxCalls <- MaxReads
Net == INSTANCE Network

ASSUME SystemAssumption ==
    /\ Exiting!ExitAssumption /\ Running!ProcessAssumption /\ Piping!ProcessAssumption
    /\ Listing!DirectoryAssumption /\ Net!NetworkAssumption
    /\ \A s \in PipeScripts : \A k \in DOMAIN s[1] : s[1][k] # "print"   \* the child prints, its parent reads

-----------------------------------------------------------------------------
Init ==
    /\ part \in {"exit", "process", "pipeline", "directory", "network"}
    /\ Exiting!Init
    /\ IF part = "process" THEN Running!Init ELSE Piping!Init
    /\ part \in {"process", "pipeline"} \/ <<proc[1].script, proc[2].script>> = CHOOSE s \in PipeScripts : TRUE
    /\ Listing!Init /\ Net!Init

ExitStep == part = "exit" /\ Exiting!Next /\ UNCHANGED <<part, process, directory, network>>
ExitEnding == part = "exit" /\ Exiting!Ending /\ UNCHANGED <<part, process, directory, network>>
ProcessStep == part = "process" /\ Running!Next /\ UNCHANGED <<part, exiting, directory, network>>
PipelineStep(p) == part = "pipeline" /\ Piping!Run(p) /\ UNCHANGED <<part, exiting, directory, network>>
DirectoryStep == part = "directory" /\ Listing!Next /\ UNCHANGED <<part, exiting, process, network>>
NetworkStep == part = "network" /\ Net!Next /\ UNCHANGED <<part, exiting, process, directory>>

Next == ExitStep \/ ProcessStep \/ (\E p \in {1, 2} : PipelineStep(p)) \/ DirectoryStep \/ NetworkStep

Spec == Init /\ [][Next]_vars

(* exit goes on once it was called, and every process is scheduled.        *)
FairSpec == Spec /\ WF_vars(ExitEnding) /\ \A p \in {1, 2} : WF_vars(PipelineStep(p))

-----------------------------------------------------------------------------
(* Properties.  Each is the conjunction of properties stated, and          *)
(* explained, in the module of the component that runs.                    *)

(* Exit: every handler registered before exit runs, in the reverse order,  *)
(* and once in each call of exit, handlers that register others or call    *)
(* exit among them; and nothing printed is left unwritten.                 *)
HandlersRun ==
    part = "exit" =>
        /\ Exiting!TypeOK /\ Exiting!DueHandlersRan /\ Exiting!OncePerCall
        /\ Exiting!ReverseOrder /\ Exiting!NothingUnwritten

(* Processes: the destructor of Pipe closes foreign descriptors only after *)
(* a close by hand, fork doubles a text only out of a buffer, no text is   *)
(* lost unseen, and a pipe keeps their order.                              *)
TextsArrive ==
    /\ part = "process" => Running!OwnEndsClosed /\ Running!TextOnce /\ Running!TextArrives
    /\ part = "pipeline" => Piping!PipeInOrder /\ Piping!TextArrives

(* Directories: the pool and the kernel agree on what is open, handles     *)
(* stay apart unless one was closed twice, names fit whatever was read,    *)
(* and where every read is whole the records come in order to the end.     *)
DirectoriesRead ==
    part = "directory" =>
        Listing!PoolOwnsFiles /\ Listing!HandlesApart /\ Listing!RecordsInOrder /\ Listing!NamesFit

(* Network: addresses keep the order of their bytes, masks their prefix,   *)
(* settings read back as set, and no failure passes for a datagram below   *)
(* the longest.                                                            *)
NetworkMeant ==
    part = "network" => Net!NetworkOrder /\ Net!MasksArePrefixes /\ Net!ReadsBack /\ Net!SizesTold

(* Progress: exit ends the process, and a pipeline comes to its end.       *)
Busy == CASE part = "exit" -> Exiting!Busy [] part = "pipeline" -> Piping!Busy [] OTHER -> FALSE
SystemEnds == Busy ~> ~ Busy
==============================================================================
