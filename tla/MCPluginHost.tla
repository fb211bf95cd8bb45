---------------------------- MODULE MCPluginHost ----------------------------
(***************************************************************************)
(* Instances of PluginHost for TLC.                                        *)
(***************************************************************************)
EXTENDS PluginHost

CONSTANTS p1, p2, ping, chat, h1, h2, h3, main, th

MCLoadOrder == <<p1, p2>>

\* Plugin code on the server thread calls the manager from within one call.
MCMaxDepth == main :> 2 @@ th :> 1

\* Two handlers of one event, in the reverse order of their priorities, one of an
\* asynchronous event.
MCInfo ==
    h1 :> [plugin |-> p1, event |-> ping, priority |-> 2, ignoreCancelled |-> TRUE] @@
    h2 :> [plugin |-> p2, event |-> ping, priority |-> 1, ignoreCancelled |-> FALSE] @@
    h3 :> [plugin |-> p1, event |-> chat, priority |-> 1, ignoreCancelled |-> FALSE]

\* The definitions of Vectors by ranks are those of the standard recursions, and a fold
\* takes the elements from the first to the last.
Samples == UNION {[1 .. n -> {h1, h2, h3}] : n \in 0 .. 3}

ASSUME VectorsAssumption ==
    /\ \A s \in Samples, S \in SUBSET {h1, h2, h3} :
          OnlyIn(s, S) = SelectSeq(s, LAMBDA x : x \in S)
    /\ \A r, s, t \in Samples : Joined(<<r, s, t>>) = FlattenSeq(<<r, s, t>>)
    /\ LET push == [h \in {h1, h2, h3} |-> [x \in Samples |-> Append(x, h)]] IN
       \A s \in Samples : Folded(push, <<>>, s) = s

\* Events and services share no variable: a behaviour of both is an interleaving of one
\* of each, and TLC need not go on from states in which both have been used.
Separately == stamps = 0 \/ (used = {} /\ \A t \in Thread : Calls(t) = {})
=============================================================================
