--------------------------- MODULE MCChangeRequests ---------------------------
(* Small plans of changes: two people, two replicas, two rooms.             *)
EXTENDS ChangeRequests

CONSTANTS ann, bob, r1, r2, polls, ops, dev

Webex(token, secret, room) == [token |-> token, secret |-> secret, room |-> room]
Polling == Webex(TRUE, FALSE, ops)
Hooked == Webex(TRUE, TRUE, ops)
SomeConfigs == {Polling, Hooked, Webex(TRUE, FALSE, dev)}

Timetables == {{}, {1}}
OneDay == [release |-> 2]
OneCalendar == [holidays |-> {2}]

Manual(active, activeUntil, until) ==
    [kind |-> "manual", active |-> active, activeUntil |-> activeUntil, until |-> until]
Tool(active, until) == [kind |-> "tool", active |-> active, until |-> until]
Exception(kind) == [kind |-> kind, label |-> "release"]
SomeAsks ==
    {Manual("down", None, NextTransition), Manual("up", 1, Unsaid), Manual("none", None, Unsaid),
     Tool("down", Unsaid), Tool("down", 1), Exception("add"), Exception("remove")}
SomeTools == {Tool("down", Unsaid), Exception("add")}

Scale(to, active, until) == [to |-> to, kind |-> "chat", active |-> active, until |-> until]
In(room, cmd) == [room |-> room, cmd |-> cmd]
Down(room) == In(room, Scale("us", "down", Unsaid))
Up(room) == In(room, Scale("us", "up", Unsaid))
Orders == {Down(ops), Down(dev)}
SomeMessages == Orders \cup
    {In(ops, Scale("us", "none", Forever)), In(ops, Scale("them", "down", 1)),
     In(ops, [to |-> "us", kind |-> "read"])}
AllMessages == SomeMessages \cup {Up(ops)}

Plan(parts, people, spaces, says, time, changesLeft, faultsLeft) ==
    [parts |-> parts, people |-> people, spaces |-> spaces, says |-> says, time |-> time,
     changes |-> changesLeft, faults |-> faultsLeft]

\* Chat plans run to MaxTime, the clock's end, as the monitors' timeouts need.
SomePlans ==
    {Plan({"people"}, {ann, bob}, {}, {}, 1, 2, 1),
     Plan({"chat"}, {}, {Polling}, Orders, 1, 2, 1),
     Plan({"chat"}, {}, {Hooked}, {Down(ops)}, 1, 2, 1),
     Plan({"chat"}, {}, SomeConfigs, SomeMessages, 1, 2, 0),
     Plan({"chat", "people"}, {ann}, {Hooked}, {Up(ops)}, 1, 2, 0),
     Plan({"assistant"}, {ann, bob}, {}, {}, 1, 2, 1),
     Plan({"assistant"}, {ann, bob}, {}, {}, 0, 3, 0),
     Plan({"settings"}, {}, {}, {}, 0, 3, 1)}

Two == {"east", "west"}
Cluster(names, tokens) == [n \in names |-> IF n \in tokens THEN 1 ELSE None]
With(enabled, id, key) == [enabled |-> enabled, id |-> id, key |-> key]
Plain(valid, value) == [valid |-> valid, value |-> value]
SomeSaves ==
    {[hook |-> [enabled |-> TRUE, url |-> 1], plain |-> Plain(TRUE, 1)],
     [hook |-> [enabled |-> TRUE, url |-> None], webex |-> [keys |-> [token |-> 1], remove |-> {}]],
     [webex |-> [keys |-> [secret |-> 1], remove |-> {}], plain |-> Plain(FALSE, 2)],
     [webex |-> [keys |-> [token |-> 2], remove |-> {"secret"}], cloud |-> With(TRUE, None, 1)],
     [cloud |-> With(TRUE, 1, 1), signin |-> With(FALSE, 1, None)],
     [signin |-> With(TRUE, None, 1)], [webex |-> [keys |-> NoKeys, remove |-> {"secret"}]],
     [clusters |-> Cluster(Two, Two)], [clusters |-> Cluster({"east"}, {})],
     [clusters |-> Cluster(Two, {"west"}), plain |-> Plain(TRUE, 2)]}
=============================================================================
