----------------------------- MODULE MCSynthesis -----------------------------
(***************************************************************************)
(* app emits an event at the line on which it may also call the handler,   *)
(* registers a callback with the hub and bridges to the driver; lib has    *)
(* the handler and may subscribe it; hub stores and dispatches callbacks   *)
(* and may subscribe as well.  ui has a React class, its tag and a route   *)
(* with two methods for its request; drv a table of function pointers.     *)
(* lib and drv may be missing.                                             *)
(***************************************************************************)
EXTENDS Synthesis, TLC

CONSTANTS app, lib, hub, ui, drv

MCFile == {app, lib, hub, ui, drv}

Node(f, name, kind, a, b) == [file |-> f, name |-> name, kind |-> kind, line |-> a, end |-> b]
At(name, l) == [name |-> name, line |-> l]

AppOf(calls, emits) ==
    [NoText EXCEPT !.nodes = {Node(app, "start", "function", 1, 4), Node(app, "cb", "function", 5, 6)},
                   !.calls = calls, !.emits = emits, !.bridges = {At("poll", 4)},
                   !.args = {[line |-> 3, via |-> "on", arg |-> "cb"],
                             [line |-> 2, via |-> "on", arg |-> "handle"]}]
On3 == At("on", 3)
Saved == [event |-> "saved", line |-> 2]
AppTexts == {AppOf({On3, At("handle", 2)}, {Saved}), AppOf({On3}, {Saved})}

Subscribe(handler, l) == {[event |-> "saved", handler |-> handler, line |-> l]}
LibText(ons) == [NoText EXCEPT !.nodes = {Node(lib, "handle", "function", 2, 3)}, !.ons = ons]

HubText(ons) ==
    [NoText EXCEPT !.nodes = {Node(hub, "on", "method", 1, 2), Node(hub, "fire", "method", 3, 4)},
                   !.stores = {[line |-> 2, field |-> "subs"]},
                   !.loops = {[line |-> 4, field |-> "subs"]}, !.ons = ons]

UiText ==
    [NoText EXCEPT !.nodes = {Node(ui, "Page", "class", 1, 6), Node(ui, "render", "method", 2, 3),
                              Node(ui, "click", "method", 4, 5), Node(ui, "Card", "component", 7, 8),
                              Node(ui, "GET /list", "route", 9, 9), Node(ui, "List", "method", 10, 11),
                              Node(ui, "Log", "method", 12, 13)},
                   !.setStates = {[line |-> 5]}, !.tags = {At("Card", 3)},
                   !.routes = {[name |-> "GET /list", key |-> "cash.ListReq", bare |-> "ListReq"]},
                   !.params = {[fn |-> "List", type |-> "ListReq"], [fn |-> "Log", type |-> "Entry"]}]
DrvText ==
    [NoText EXCEPT !.nodes = {Node(drv, "poll", "function", 1, 2), Node(drv, "loop", "function", 3, 4)},
                   !.assigns = {[field |-> "run", handler |-> "poll"]},
                   !.invokes = {[field |-> "run", line |-> 4]}]

MCTexts == (app :> AppTexts) @@ (lib :> {NoText, LibText({}), LibText(Subscribe("handle", 1)), LibText(Subscribe("on", 1))})
             @@ (hub :> {HubText({}), HubText(Subscribe("handle", 5))}) @@ (ui :> {UiText}) @@ (drv :> {NoText, DrvText})
MCNearness ==
    [f \in MCFile |-> [g \in MCFile |->
        IF f = g THEN "file" ELSE IF {f, g} \subseteq {app, lib, hub} THEN "dir" ELSE "far"]]
MCAddon == [f \in MCFile |-> "none"]
=============================================================================
