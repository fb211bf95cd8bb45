----------------------------- MODULE Deployment -----------------------------
(***************************************************************************)
(* A server folder over time: the bootstrap launches the server in it, the *)
(* server loads its ban lists from it as it starts, and both leave files   *)
(* that the next launch finds.  The server process is up exactly while     *)
(* _run waits for it, and every restart goes through the bootstrap.        *)
(***************************************************************************)
EXTENDS Bootstrap, BanList

CONSTANT MaxEvents   \* bound on the faults, the user's changes and ban operations

VARIABLE events      \* how many of them there have been

deployVars == <<bootVars, banVars, events>>

DeployInit == BootInit /\ BanInit /\ events = 0

Happens == events < MaxEvents /\ events' = events + 1

\* _run starts the process, whose constructor loads the ban lists, or cannot.
RunServer ==
    /\ Run
    /\ \/ StartServer("read") /\ UNCHANGED events
       \/ StartServer("unread") /\ Happens

ServerEnds == Stopped /\ ServerGone /\ UNCHANGED events

Boots == BootProgress /\ UNCHANGED <<banVars, events>>

Interrupted == (Abort \/ CrashWriting \/ UserChange) /\ Happens /\ UNCHANGED banVars

Operates == BanOperation /\ Happens /\ UNCHANGED bootVars

TimePasses == Tick /\ UNCHANGED <<bootVars, events>>

DeployNext ==
    RunServer \/ ServerEnds \/ Boots \/ Interrupted \/ Operates \/ TimePasses

\* Whoever starts the bootstrap starts it again when it fails, and a step of
\* the bootstrap that can be taken is taken: it runs straight through.
DeploySpec ==
    /\ DeployInit
    /\ [][DeployNext]_deployVars
    /\ WF_deployVars(Boots)
    /\ WF_deployVars(RunServer)

-----------------------------------------------------------------------------

\* However the launches before it were cut short, a launch ends in a running
\* server, unless version.txt is torn or names a newer server: then every
\* launch fails until the user deletes the file (base.py:224, 229).
Recovers == []<>(step = "running" \/ Refuses)
=============================================================================
