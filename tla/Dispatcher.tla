---------------------------- MODULE Dispatcher ----------------------------
(***************************************************************************)
(* The layered dispatcher of crates/sirinx-agents: one call of run over    *)
(* the registered agents.  The work waits on a stack; an agent that        *)
(* publishes is followed by every registered agent of the next layer, and  *)
(* the first error ends the call.  An event is named by the agents that    *)
(* handled it so far, so two deliveries are equal only if they are the     *)
(* same delivery twice.                                                    *)
(***************************************************************************)
EXTENDS Naturals, FiniteSets, SequencesExt

CONSTANT Agents          \* identifiers of the roster that may be registered

VARIABLES registered,    \* the registered agents
          start,         \* the agent the caller names
          queue,         \* deliveries on the stack, the last is next
          outputs,       \* what the agents answered, in execution order
          result         \* "running", "ok" or "err"

vars == <<registered, start, queue, outputs, result>>

Layers == {"chatbot", "perception", "analysis", "decision", "coordination",
           "research"}

\* Numbers past the roster have no layer and cannot be registered.
LayerOf(a) == CASE a = 0 -> "chatbot"
                [] a \in 1..16 -> "perception"
                [] a \in 17..25 -> "analysis"
                [] a \in 26..35 -> "decision"
                [] a \in 36..43 -> "coordination"
                [] a \in 44..47 -> "research"

AgentsInRoster == Agents \subseteq 0..47

Operational == {"perception", "analysis", "decision", "coordination"}

\* None for the end of the chain, for research and for the chatbot.
NextOperational == [l \in {"perception", "analysis", "decision"} |->
    CASE l = "perception" -> "analysis"
      [] l = "analysis" -> "decision"
      [] l = "decision" -> "coordination"]

MayPublish(a, layer) ==
    IF LayerOf(a) = "research" THEN layer \in Operational
    ELSE LayerOf(a) \in DOMAIN NextOperational
         /\ NextOperational[LayerOf(a)] = layer

\* A delivery's event has passed through path; its agent appends itself.
Delivery(a, path) == [agent |-> a, path |-> Append(path, a)]

\* Mutant: only one agent of the next layer.
FollowersOne(a) ==
    IF LayerOf(a) \in DOMAIN NextOperational
    THEN LET all == {b \in registered : LayerOf(b) = NextOperational[LayerOf(a)]}
         IN  IF all = {} THEN {} ELSE {CHOOSE b \in all : TRUE}
    ELSE {}

\* The registered agents of the layer after a's.
Followers(a) ==
    IF LayerOf(a) \in DOMAIN NextOperational
    THEN {b \in registered : LayerOf(b) = NextOperational[LayerOf(a)]}
    ELSE {}

\* The deliveries of what d's agent published, as the map may yield the
\* followers: in any order.
Routed(d) ==
    {[i \in DOMAIN next |-> Delivery(next[i], d.path)] : next \in SetToSeqs(Followers(d.agent))}
-----------------------------------------------------------------------------
Init ==
    /\ registered \in SUBSET Agents
    /\ start \in Agents
    /\ queue = <<Delivery(start, <<>>)>>
    /\ outputs = <<>>
    /\ result = "running"

Top == Last(queue)

Answer(d, publishes) == [agent |-> d.agent, path |-> d.path, publish |-> publishes]

\* Only the start can be unknown: followers come from the map itself.
UnknownAgent ==
    /\ result = "running" /\ queue # <<>>
    /\ Top.agent \notin registered
    /\ result' = "err"
    /\ UNCHANGED <<registered, start, queue, outputs>>

\* The agent fails: the error leaves run and the outputs are dropped.
Fails ==
    /\ result = "running" /\ queue # <<>>
    /\ Top.agent \in registered
    /\ result' = "err"
    /\ outputs' = <<>>
    /\ UNCHANGED <<registered, start, queue>>

\* check_route, asked about the next layer only, has nothing to refuse.
Process(publishes) ==
    /\ result = "running" /\ queue # <<>>
    /\ Top.agent \in registered
    /\ \E follow \in IF publishes THEN Routed(Top) ELSE {<<>>} :
         queue' = Front(queue) \o follow
    /\ outputs' = Append(outputs, Answer(Top, publishes))
    /\ UNCHANGED <<registered, start, result>>

Return ==
    /\ result = "running" /\ queue = <<>>
    /\ result' = "ok"
    /\ UNCHANGED <<registered, start, queue, outputs>>

Done == result # "running" /\ UNCHANGED vars

Next == UnknownAgent \/ Fails \/ (\E p \in BOOLEAN : Process(p)) \/ Return \/ Done

Spec == Init /\ [][Next]_vars /\ WF_vars(Next)
-----------------------------------------------------------------------------
Path == {o.path : o \in ToSet(outputs)}

\* Types of every variable.
TypeOK ==
    /\ registered \subseteq Agents
    /\ start \in Agents
    /\ \A d \in ToSet(queue) : d.agent \in Agents /\ Last(d.path) = d.agent
    /\ \A o \in ToSet(outputs) : o.agent \in registered /\ o.publish \in BOOLEAN
    /\ result \in {"running", "ok", "err"}

\* No layer is skipped (lib.rs, "the cardinal rule"): what run sends is what
\* check_route allows, at every step of an event's way.
NoLayerSkipped ==
    \A p \in Path : \A i \in 1..Len(p) - 1 : MayPublish(p[i], LayerOf(p[i + 1]))

\* A call that succeeds has let every registered agent of the next layer
\* handle every published event, exactly once, and nobody else.
FollowUpsDelivered ==
    result = "ok" =>
        /\ Cardinality(Path) = Len(outputs)
        /\ \A o \in ToSet(outputs) :
             {b \in registered : Append(o.path, b) \in Path}
               = IF o.publish /\ LayerOf(o.agent) \in DOMAIN NextOperational
                 THEN {b \in registered :
                         LayerOf(b) = NextOperational[LayerOf(o.agent)]}
                 ELSE {}

\* "Returns each produced output in execution order": an event's whole
\* consequence is contiguous behind it, since run works on a stack.
DepthFirst ==
    \A i, k \in 1..Len(outputs) : \A j \in i..k :
        IsPrefix(outputs[i].path, outputs[k].path)
            => IsPrefix(outputs[i].path, outputs[j].path)

=============================================================================
