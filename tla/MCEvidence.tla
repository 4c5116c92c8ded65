------------------------------ MODULE MCEvidence ------------------------------
(***************************************************************************)
(* Six machines that share no state, checked side by side: a behaviour is *)
(* one of them at work (`focus', a bound) and the others at rest.          *)
(***************************************************************************)
EXTENDS Sources, SourceHistory, Knowledge, LockOrder, McpServer, Injection

VARIABLE focus

Machines == {"sources", "history", "knowledge", "locks", "mcp", "injection"}

-----------------------------------------------------------------------------
(* Sources.                                                                *)

CONSTANTS h1, h2, ta, tb

MCWorkloads == {{"append", "walk"}, {"append", "view", "pin"}, {"append", "commit"}}
MCInputs == {[kind |-> "turn", pinned |-> FALSE], [kind |-> "note", pinned |-> TRUE]}
MCBodies == [id : 1..MaxCalls, kind : {"turn", "note", "checkpoint"},
             ref : Refs \cup {NoRef}, pinned : BOOLEAN]

-----------------------------------------------------------------------------
(* History: up to three events of every shape.                             *)

MCEvents ==
    [kind : {"turn"}, pinned : BOOLEAN, asked : BOOLEAN, cost : {1, 2}] \cup
    [kind : {"note"}, pinned : BOOLEAN, asked : {FALSE}, cost : {1, 2}] \cup
    [kind : {"checkpoint"}, pinned : {FALSE}, asked : {FALSE}, cost : {1}]
MCViews == UNION {[1..n -> MCEvents] : n \in 0..3}
MCSections == {[cost |-> 2, allowed |-> 1], [cost |-> 1, allowed |-> 1]}

-----------------------------------------------------------------------------
(* Knowledge: three records, two of them grounded before the store is      *)
(* opened; at rest, none.                                                  *)

CONSTANTS c1, c2, v1, v2

Covered == [revoked |-> FALSE, covers |-> TRUE, needs |-> NoVersion, links |-> << >>]
LinkTo(kind, to) == [kind |-> kind, to |-> to, hash |-> c1]
MCGroundings ==
    {Covered, [Covered EXCEPT !.revoked = TRUE], [Covered EXCEPT !.needs = v1]} \cup
    {[Covered EXCEPT !.covers = FALSE, !.links = <<LinkTo(SUPPORTS, to)>>] : to \in Ids} \cup
    {[Covered EXCEPT !.links = <<LinkTo(kind, to)>>] :
        kind \in {CONTRADICTS, SUPERSEDES}, to \in {1, 3}} \cup
    {[Covered EXCEPT !.covers = FALSE,
                     !.links = <<LinkTo(SUPPORTS, 1), LinkTo(SUPPORTS, 2)>>]}
MCStartLogs == {<< >>, <<Row(1, c1, 1, Covered), Row(2, c1, 1, Covered)>>}

-----------------------------------------------------------------------------
(* Locks.                                                                  *)

\* Three threads: a circle of two or of three would show.

-----------------------------------------------------------------------------
(* The MCP server: every way a line can be turned down, every tool with its *)
(* arguments right, missing and mistyped, with an id and without.          *)

Plain == [text |-> "object", id |-> "good", header |-> TRUE, method |-> "ping",
          meta |-> "none", version |-> "none", params |-> "object",
          tool |-> "memory_list", args |-> [good |-> {}, bad |-> {}]]
NoObject == {[Plain EXCEPT !.text = text] : text \in {"blank", "garbage", "array", "scalar"}}
OtherMethods ==
    {[Plain EXCEPT !.id = id, !.method = method, !.meta = meta, !.version = version] :
        id \in {"none", "good"}, meta \in {"none", "modern", "other"},
        version \in {"none", "other"},
        method \in (Methods \ {"tools/call"}) \cup {"notifications/any", "else"}}
Misfits == {[Plain EXCEPT !.id = "bad"], [Plain EXCEPT !.header = FALSE],
            [Plain EXCEPT !.header = FALSE, !.id = "none"],
            [Plain EXCEPT !.method = "tools/call", !.params = "bad"],
            [Plain EXCEPT !.method = "tools/call", !.params = "none"],
            [Plain EXCEPT !.method = "tools/call", !.tool = "else"]}
ArgsFor(tool) ==
    LET required == TOOLS[tool].required IN
    {[good |-> required, bad |-> {}], [good |-> {}, bad |-> {}]} \cup
    {[good |-> required \ {f}, bad |-> {f}] : f \in required \cup TOOLS[tool].optional}
Calls ==
    UNION {{[Plain EXCEPT !.id = id, !.method = "tools/call", !.meta = meta, !.tool = tool,
                          !.args = args] :
              id \in {"none", "good"}, meta \in {"none", "modern", "other"},
              args \in ArgsFor(tool)} : tool \in Tools}
MCLines == NoObject \cup OtherMethods \cup Misfits \cup Calls

-----------------------------------------------------------------------------
(* Injection: two identities, three context records, two projects' records; *)
(* templates with a title, with a section missing, with headings shared or *)
(* absent, and one with two placeholders on a line.                        *)

NoSignal == [bm25 |-> 0, vector |-> 0, exact |-> 0, coverage |-> 0]
Weak == [bm25 |-> 1, vector |-> 0, exact |-> 1, coverage |-> 1]
Near == [bm25 |-> 0, vector |-> 2, exact |-> 0, coverage |-> 0]
Strong == [bm25 |-> 2, vector |-> 1, exact |-> 2, coverage |-> 2]
Memory(zone, project, locked, relevance, cost, signal) ==
    [zone |-> zone, project |-> project, current |-> TRUE, deprecated |-> FALSE,
     expired |-> FALSE, inferred |-> FALSE, locked |-> locked, relevance |-> relevance,
     cost |-> cost, signal |-> signal]
Trait(locked, relevance, cost) ==
    Memory("identity", NoProject, locked, relevance, cost, NoSignal)
Fact(cost, signal) == Memory("context", NoProject, FALSE, 1, cost, signal)
Plan(project, signal) == Memory("project", project, FALSE, 1, 1, signal)
MCMemories ==
    {<<Trait(FALSE, 2, 1), Trait(TRUE, 1, 2), Fact(1, Weak), Fact(2, Strong), Fact(1, Near),
       Plan("a", Weak), Plan("b", Strong)>>,
     <<Trait(FALSE, 1, 1), Trait(FALSE, 1, 1), Fact(1, NoSignal), Fact(1, Weak), Fact(1, Weak),
       Plan("a", Strong), [Plan("a", Weak) EXCEPT !.deprecated = TRUE]>>,
     <<[Trait(TRUE, 1, 1) EXCEPT !.inferred = TRUE], Fact(3, Near), Plan("b", Near)>>}

Text == [blank |-> FALSE, holds |-> {}]
Blank == [blank |-> TRUE, holds |-> {}]
For(zones) == [blank |-> FALSE, holds |-> zones]
BaseLine == For({"base"})
Headed ==
    <<BaseLine, Blank, Text, Blank, Text, For({"identity"}), Blank, Text, For({"context"}),
      Blank, Text, For({"project"})>>
Stacked == <<Text, For({"context"}), Text, For({"identity"}), BaseLine, Text, For({"project"})>>
Partial == <<For({"project"}), Text, Text, For({"context"}), Blank, Blank, BaseLine>>
Crowded == <<Text, For({"identity", "context"}), Blank, For({"project"})>>
Wide == [identity |-> 2, context |-> 2, project |-> 1]
Narrow == [identity |-> 3, context |-> 1, project |-> 0]
Asking(template, budgets, projects) ==
    [template : {template}, limit : {2}, project : projects, budget : budgets]
MCRequests ==
    Asking(Headed, {Wide, Narrow}, {NoProject, "a"}) \cup Asking(Stacked, {Narrow}, {"a"}) \cup
    Asking(Partial, {Wide}, {"a"}) \cup Asking(Crowded, {Narrow}, {"a"})

-----------------------------------------------------------------------------
evidenceVars == <<sourceVars, historyVars, knowledgeVars, lockVars, mcpVars,
                  injectionVars, focus>>

\* A machine at rest is in one of its initial states.
HistoryAtRest ==
    /\ view = << >> /\ budget = 1 /\ section = [cost |-> 2, allowed |-> 1]
    /\ pass = 1 /\ offset = 0 /\ chosen = << >> /\ result = NoContext(0)
InjectionAtRest ==
    /\ known = << >> /\ request = (CHOOSE r \in Requests : TRUE) /\ phase = "identity" /\ prompt = NoPrompt
    /\ gathered = [z \in Zones |-> << >>] /\ changes = 0 /\ unnoted = << >>
    /\ accesses = << >> /\ detached = << >> /\ applied = << >> /\ missed = << >>
SourcesAtRest == frames = << >> /\ workload = {"append", "walk"}

EvidenceInit ==
    /\ focus \in Machines
    /\ SourcesInit /\ KnowledgeInit /\ LockInit /\ McpInit
    /\ focus # "sources" => SourcesAtRest
    /\ klog = << >> <=> focus # "knowledge"
    /\ IF focus = "history" THEN HistoryInit ELSE HistoryAtRest
    /\ IF focus = "injection" THEN InjectionInit ELSE InjectionAtRest

EvidenceNext ==
    /\ \/ focus = "sources" /\ SourcesNext
          /\ UNCHANGED <<historyVars, knowledgeVars, lockVars, mcpVars, injectionVars>>
       \/ focus = "history" /\ HistoryNext
          /\ UNCHANGED <<sourceVars, knowledgeVars, lockVars, mcpVars, injectionVars>>
       \/ focus = "knowledge" /\ KnowledgeNext
          /\ UNCHANGED <<sourceVars, historyVars, lockVars, mcpVars, injectionVars>>
       \/ focus = "locks" /\ LockNext
          /\ UNCHANGED <<sourceVars, historyVars, knowledgeVars, mcpVars, injectionVars>>
       \/ focus = "mcp" /\ McpNext
          /\ UNCHANGED <<sourceVars, historyVars, knowledgeVars, lockVars, injectionVars>>
       \/ focus = "injection" /\ InjectionNext
          /\ UNCHANGED <<sourceVars, historyVars, knowledgeVars, lockVars, mcpVars>>
    /\ UNCHANGED focus

EvidenceSpec == EvidenceInit /\ [][EvidenceNext]_evidenceVars

Symmetry == Permutations(Hosts) \cup Permutations(Texts)
=============================================================================
