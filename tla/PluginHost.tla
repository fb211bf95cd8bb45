----------------------------- MODULE PluginHost -----------------------------
(***************************************************************************)
(* What the server offers to plugin code, composed: events and plugin life *)
(* cycle (PluginEvents) and services (ServiceManager).  A service call is  *)
(* made by plugin code, on any thread, wherever that code is running.      *)
(***************************************************************************)
EXTENDS PluginEvents, ServiceManager

hostVars == <<vars, serviceVars>>

HostInit == Init /\ ServiceInit

HostNext ==
    \/ Next /\ UNCHANGED serviceVars
    \/ (\E t \in Thread : CanCall(t)) /\ ServiceNext /\ UNCHANGED vars

HostSpec == HostInit /\ [][HostNext]_hostVars
=============================================================================
