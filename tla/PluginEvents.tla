---------------------------- MODULE PluginEvents ----------------------------
(***************************************************************************)
(* Enabling and disabling plugins, and the events they listen to:          *)
(* EndstonePluginManager, PluginLoader, HandlerList and EventHandler.      *)
(*                                                                         *)
(* A thread is a stack of calls in progress.  Plugin code runs at the      *)
(* bottom of it (a task, a command), in onEnable and onDisable, and in     *)
(* event handlers; it may call the manager again, so frames nest.  Only    *)
(* the server thread changes plugins; other threads dispatch asynchronous  *)
(* events.                                                                 *)
(***************************************************************************)
EXTENDS Integers, Sequences, FiniteSets, SequencesExt, Vectors

CONSTANTS
    Plugin,
    LoadOrder,      \* plugins_: the plugins in the order they were loaded
    Thread, Main,   \* threads; Main is the server thread
    Event,          \* event names
    Async,          \* the asynchronous ones
    Cancellable,    \* those that can be cancelled
    EnableEvent, DisableEvent,
    Handler,        \* EventHandler objects
    Info,           \* what each is constructed with: plugin, event, priority, ignoreCancelled
    Priorities,     \* the number of priorities, 6 in the code
    MaxDepth        \* bound: nested calls, by thread

Priority == 1 .. Priorities

ASSUME EventsAssumption ==
    /\ LoadOrder \in Seq(Plugin)
    /\ Main \in Thread
    /\ Async \subseteq Event /\ Cancellable \subseteq Event
    /\ {EnableEvent, DisableEvent} \subseteq Event \ Async
    /\ Info \in [Handler -> [plugin : Plugin, event : Event, priority : Priority,
                             ignoreCancelled : BOOLEAN]]
    /\ Priorities \in Nat /\ MaxDepth \in [Thread -> Nat]

VARIABLES
    enabled,    \* Plugin::enabled_
    handlers,   \* HandlerList::handlers_: event to priority to vector
    baked,      \* baked_handlers_
    valid,      \* valid_
    used,       \* handlers that have been constructed ...
    freed,      \* ... and destroyed
    stack       \* the calls in progress on each thread

vars == <<enabled, handlers, baked, valid, used, freed, stack>>

\* callEvent: the copied vector from the current handler on.  snap, seen, excused
\* and off are history: the whole copy, the handlers called, those that were come to
\* while the event was cancelled and ignore such events, and the plugins that were
\* disabled, or lost their handlers, at some time since the copy.
CallFrame ==
    [op : {"call"}, pc : {"next", "checked", "body"}, event : Event, cancelled : BOOLEAN,
     rest : Seq(Handler), snap : Seq(Handler), seen : Seq(Handler),
     excused : SUBSET Handler, off : SUBSET Plugin]

\* enablePlugin, disablePlugin: in onEnable or onDisable, or after it.
LifeFrame == [op : {"enable", "disable"}, pc : {"hook", "after"}, plugin : Plugin]

\* clearPlugins: disablePlugins has come to plugin number left of plugins_.
ClearFrame == [op : {"clear"}, pc : {"loop"}, left : 0 .. Len(LoadOrder)]

TypeOK ==
    /\ enabled \in [Plugin -> BOOLEAN]
    /\ handlers \in [Event -> [Priority -> Seq(Handler)]]
    /\ baked \in [Event -> Seq(Handler)]
    /\ valid \in [Event -> BOOLEAN]
    /\ used \in SUBSET Handler
    /\ freed \in SUBSET used
    /\ stack \in [Thread -> Seq(CallFrame \cup LifeFrame \cup ClearFrame)]

Init ==
    /\ enabled = [p \in Plugin |-> FALSE]
    /\ handlers = [e \in Event |-> [r \in Priority |-> <<>>]]
    /\ baked = [e \in Event |-> <<>>]
    /\ valid = [e \in Event |-> FALSE]
    /\ used = {} /\ freed = {}
    /\ stack = [t \in Thread |-> <<>>]

-----------------------------------------------------------------------------
Top(t) == stack[t][Len(stack[t])]
Busy(t, op, pc) == stack[t] # <<>> /\ Top(t).op = op /\ Top(t).pc = pc

\* Plugin code is running on t and may call the manager.
CanCall(t) ==
    \/ stack[t] = <<>>
    \/ Busy(t, "call", "body")
    \/ \E op \in {"enable", "disable"} : Busy(t, op, "hook")

Pop(s) == SubSeq(s, 1, Len(s) - 1)
SetTop(s, f) == [s EXCEPT ![Len(s)] = f]

\* History: plugins ps are disabled or lose their handlers, as the calls in progress see it.
Spoil(s, ps) ==
    [i \in DOMAIN s |-> IF s[i].op = "call" THEN [s[i] EXCEPT !.off = @ \cup ps] ELSE s[i]]

-----------------------------------------------------------------------------
(* HandlerList *)

\* bake: by ascending priority, in the order of registration within one.
Bake(hs) == Joined(hs)

\* Mutant: registerHandler leaves the baked list as it is.
StillValid(v, e) == v
\* registerHandler and unregister invalidate the baked list.
Invalidate(v, e) == [v EXCEPT ![e] = FALSE]

\* registerEvent: refused while the plugin is not enabled.
registerEvent(h) ==
    LET i == Info[h] IN
    /\ CanCall(Main)
    /\ h \notin used
    /\ enabled[i.plugin]
    /\ used' = used \cup {h}
    /\ handlers' = [handlers EXCEPT ![i.event][i.priority] = Append(@, h)]
    /\ valid' = Invalidate(valid, i.event)
    /\ UNCHANGED <<enabled, baked, freed, stack>>

\* unregister(plugin) on every list.  A list that never had a handler has no vector to
\* go through and stays valid; one made anew by a clear is counted among those that had
\* one, which only makes it bake the same list again.
Of(p) == {h \in Handler : Info[h].plugin = p}
Unregistered(hs, p) == [r \in Priority |-> OnlyIn(hs[r], Handler \ Of(p))]
HasVector(e) == \E h \in used : Info[h].event = e

\* getHandlers: the baked list, baked again if it is not valid.
getHandlers(e) == IF valid[e] THEN baked[e] ELSE Bake(handlers[e])

\* The frame of callEvent once it has its copy.
Dispatch(e) ==
    [op |-> "call", pc |-> "next", event |-> e, cancelled |-> FALSE,
     rest |-> getHandlers(e), snap |-> getHandlers(e), seen |-> <<>>, excused |-> {},
     off |-> {p \in Plugin : ~enabled[p]}]
Baked(e) ==
    /\ baked' = [baked EXCEPT ![e] = getHandlers(e)]
    /\ valid' = [valid EXCEPT ![e] = TRUE]

-----------------------------------------------------------------------------
(* callEvent *)

\* Called from plugin code, or by the server itself at the bottom of a stack.  An
\* asynchronous event is refused on the server thread, a synchronous one elsewhere.
callEvent(t, e) ==
    /\ CanCall(t)
    /\ Len(stack[t]) < MaxDepth[t]
    /\ (e \in Async) <=> (t # Main)
    /\ Baked(e)
    /\ stack' = [stack EXCEPT ![t] = Append(@, Dispatch(e))]
    /\ UNCHANGED <<enabled, handlers, used, freed>>

\* The memory of a destroyed handler may still look like the handler, or not.
Looks(h) == IF h \in freed THEN BOOLEAN ELSE {enabled[Info[h].plugin]}

\* One iteration: handler->getPlugin().isEnabled().
Visit(t) ==
    /\ Busy(t, "call", "next")
    /\ LET f == Top(t) IN
       /\ f.rest # <<>>
       /\ \E on \in Looks(Head(f.rest)) :
            stack' = [stack EXCEPT ![t] = SetTop(@,
                IF on THEN [f EXCEPT !.pc = "checked"] ELSE [f EXCEPT !.rest = Tail(@)])]
    /\ UNCHANGED <<enabled, handlers, baked, valid, used, freed>>

\* Mutant: a handler that asks for it never hears of cancelled events, nor of others.
IgnoresAlways(f) == Info[Head(f.rest)].ignoreCancelled
\* EventHandler::callEvent returns at once for a cancelled event.
IgnoresCancelled(f) == f.cancelled /\ Info[Head(f.rest)].ignoreCancelled

\* handler->callEvent(event): the executor starts, or the event is ignored.
Enter(t) ==
    /\ Busy(t, "call", "checked")
    /\ LET f == Top(t)
           h == Head(f.rest)
           g == [f EXCEPT !.excused =
                    IF f.cancelled /\ Info[h].ignoreCancelled THEN @ \cup {h} ELSE @] IN
       stack' = [stack EXCEPT ![t] = SetTop(@,
           IF IgnoresCancelled(f) THEN [g EXCEPT !.pc = "next", !.rest = Tail(@)]
           ELSE [g EXCEPT !.pc = "body", !.seen = Append(@, h)])]
    /\ UNCHANGED <<enabled, handlers, baked, valid, used, freed>>

\* The executor returns or throws a std::exception, which is caught; it may have
\* changed whether the event is cancelled.
BodyEnd(t) ==
    /\ Busy(t, "call", "body")
    /\ \E c \in IF Top(t).event \in Cancellable THEN BOOLEAN ELSE {FALSE} :
         stack' = [stack EXCEPT ![t] = SetTop(@,
             [Top(t) EXCEPT !.pc = "next", !.rest = Tail(@), !.cancelled = c])]
    /\ UNCHANGED <<enabled, handlers, baked, valid, used, freed>>

Return(t) ==
    /\ Busy(t, "call", "next")
    /\ Top(t).rest = <<>>
    /\ stack' = [stack EXCEPT ![t] = Pop(@)]
    /\ UNCHANGED <<enabled, handlers, baked, valid, used, freed>>

-----------------------------------------------------------------------------
(* enablePlugin, disablePlugin, clearPlugins *)

Push(f) == stack' = [stack EXCEPT ![Main] = Append(@, f)]

\* setEnabled(true) up to the call of onEnable.
enablePlugin(p) ==
    /\ CanCall(Main)
    /\ Len(stack[Main]) < MaxDepth[Main]
    /\ ~enabled[p]
    /\ enabled' = [enabled EXCEPT ![p] = TRUE]
    /\ Push([op |-> "enable", pc |-> "hook", plugin |-> p])
    /\ UNCHANGED <<handlers, baked, valid, used, freed>>

\* setEnabled(false) up to the call of onDisable, on a stack s of the server thread.
BeginDisable(p, s) ==
    /\ enabled' = [enabled EXCEPT ![p] = FALSE]
    /\ stack' = [t \in Thread |-> Spoil(
           IF t = Main THEN Append(s, [op |-> "disable", pc |-> "hook", plugin |-> p])
           ELSE stack[t], {p})]
    /\ UNCHANGED <<handlers, baked, valid, used, freed>>

disablePlugin(p) ==
    /\ CanCall(Main)
    /\ Len(stack[Main]) < MaxDepth[Main]
    /\ enabled[p]
    /\ BeginDisable(p, stack[Main])

\* onEnable or onDisable returns, and the loader calls the event of the change.
HookReturns ==
    \E life \in {<<"enable", EnableEvent>>, <<"disable", DisableEvent>>} :
        /\ Busy(Main, life[1], "hook")
        /\ Baked(life[2])
        /\ stack' = [stack EXCEPT ![Main] =
               Append(SetTop(@, [Top(Main) EXCEPT !.pc = "after"]), Dispatch(life[2]))]
        /\ UNCHANGED <<enabled, handlers, used, freed>>

\* It throws: the loader returns without an event.  enabled_ keeps its new value.
HookThrows ==
    /\ \E op \in {"enable", "disable"} : Busy(Main, op, "hook")
    /\ stack' = [stack EXCEPT ![Main] = SetTop(@, [Top(Main) EXCEPT !.pc = "after"])]
    /\ UNCHANGED <<enabled, handlers, baked, valid, used, freed>>

EnableReturns ==
    /\ Busy(Main, "enable", "after")
    /\ stack' = [stack EXCEPT ![Main] = Pop(@)]
    /\ UNCHANGED <<enabled, handlers, baked, valid, used, freed>>

\* Mutant: the lists forget the handlers and keep their baked vectors.
KeepBaked == valid
DropBaked == [e \in Event |-> valid[e] /\ ~HasVector(e)]

\* The rest of disablePlugin: the tasks are cancelled (Scheduler) and every list drops,
\* and so destroys, the plugin's handlers.
DisableReturns ==
    /\ Busy(Main, "disable", "after")
    /\ LET p == Top(Main).plugin IN
       /\ handlers' = [e \in Event |-> Unregistered(handlers[e], p)]
       /\ freed' = freed \cup (used \cap Of(p))
       /\ stack' = [t \in Thread |-> Spoil(IF t = Main THEN Pop(stack[t]) ELSE stack[t], {p})]
    /\ valid' = DropBaked
    /\ UNCHANGED <<enabled, baked, used>>

\* clearPlugins, from the reload command or from plugin code that reloads the server.
clearPlugins ==
    /\ CanCall(Main)
    /\ Len(stack[Main]) < MaxDepth[Main]
    /\ Push([op |-> "clear", pc |-> "loop", left |-> Len(LoadOrder)])
    /\ UNCHANGED <<enabled, handlers, baked, valid, used, freed>>

\* disablePlugins goes through plugins_ from the back, once.
ClearStep ==
    /\ Busy(Main, "clear", "loop")
    /\ Top(Main).left > 0
    /\ LET p == LoadOrder[Top(Main).left]
           s == SetTop(stack[Main], [Top(Main) EXCEPT !.left = @ - 1]) IN
       IF enabled[p] THEN BeginDisable(p, s)
       ELSE /\ stack' = [stack EXCEPT ![Main] = s]
            /\ UNCHANGED <<enabled, handlers, baked, valid, used, freed>>

\* Plugins and handler lists are destroyed.  What is loaded next goes by the same names:
\* not enabled, and without the handlers there were.
ClearReturns ==
    /\ Busy(Main, "clear", "loop")
    /\ Top(Main).left = 0
    /\ enabled' = [p \in Plugin |-> FALSE]
    /\ handlers' = [e \in Event |-> [r \in Priority |-> <<>>]]
    /\ baked' = [e \in Event |-> <<>>]
    /\ valid' = [e \in Event |-> FALSE]
    /\ freed' = used
    /\ stack' = [t \in Thread |-> Spoil(IF t = Main THEN Pop(stack[t]) ELSE stack[t], Plugin)]
    /\ UNCHANGED used

-----------------------------------------------------------------------------
Next ==
    \/ \E h \in Handler : registerEvent(h)
    \/ \E t \in Thread : \E e \in Event : callEvent(t, e)
    \/ \E t \in Thread : Visit(t) \/ Enter(t) \/ BodyEnd(t) \/ Return(t)
    \/ \E p \in Plugin : enablePlugin(p) \/ disablePlugin(p)
    \/ HookReturns \/ HookThrows \/ EnableReturns \/ DisableReturns
    \/ clearPlugins \/ ClearStep \/ ClearReturns

Spec == Init /\ [][Next]_vars

-----------------------------------------------------------------------------
Calls(t) == {i \in DOMAIN stack[t] : stack[t][i].op = "call"}
Contents(e) == UNION {ToSet(handlers[e][r]) : r \in Priority}

\* A valid baked list is what baking would give now, and no list holds a destroyed
\* handler: what callEvent copies are the registered handlers, all of them alive.
BakedIsFresh ==
    \A e \in Event :
        /\ valid[e] => baked[e] = Bake(handlers[e])
        /\ Contents(e) \cap freed = {}

\* callEvent meets a destroyed handler only if a disablePlugin or clearPlugins that
\* reached the handler's plugin ran while this very dispatch was under way: called by
\* another handler on the same stack, or by the server thread during an asynchronous
\* event.  A dispatch that begins after a disablePlugin has returned never meets one.
DanglingOnlyWhenDisabled ==
    \A t \in Thread : \A i \in Calls(t) :
        \A h \in ToSet(stack[t][i].rest) \cap freed : Info[h].plugin \in stack[t][i].off

\* An event that has been dispatched has reached, exactly once, every handler that was
\* registered when the dispatch began and whose plugin has kept its handlers and been
\* enabled ever since, and not at all those that ignore it because it was cancelled
\* before their turn.  Handlers that register, disable and enable in between do not make
\* it skip or repeat one.  They are called in the order of their priorities ("LOWEST ->
\* LOW -> NORMAL -> HIGH -> HIGHEST -> MONITOR"), in whatever order they were registered.
DispatchIsComplete ==
    \A t \in Thread : \A i \in Calls(t) :
        LET f == stack[t][i] IN
        /\ f.rest = <<>> =>
             \A h \in ToSet(f.snap) : Info[h].plugin \notin f.off =>
                 Cardinality({j \in DOMAIN f.seen : f.seen[j] = h})
                     = (IF h \in f.excused THEN 0 ELSE 1)
        /\ \A j, k \in DOMAIN f.seen : j < k => Info[f.seen[j]].priority <= Info[f.seen[k]].priority
=============================================================================
