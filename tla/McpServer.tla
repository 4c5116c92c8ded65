------------------------------- MODULE McpServer -------------------------------
(***************************************************************************)
(* asper-mcp (mcp/main.c): one thread reads a line, handles the request in *)
(* it and writes at most one line back.  Any allocation may fail; the rest *)
(* of that exit is then the code's, which often has no memory left for the *)
(* request's id either.                                                    *)
(*                                                                         *)
(* A line is what the handlers tell apart in it (LinesAssumption).         *)
(***************************************************************************)
EXTENDS Naturals, Sequences, FiniteSets

CONSTANTS Lines              \* the lines a host may send
CONSTANTS NoLine, NotCalled  \* model values

ASSUME LinesAssumption ==
    \A line \in Lines :
       /\ line.text \in {"blank", "garbage", "array", "scalar", "object"}
       /\ line.id \in {"none", "good", "bad"}            \* good: a string or an integer
       /\ line.header \in BOOLEAN                        \* "2.0", and a method
       /\ line.meta \in {"none", "modern", "other"}      \* the version in _meta
       /\ line.version \in {"none", "legacy", "other"}   \* initialize's own
       /\ line.params \in {"none", "bad", "object"}      \* bad: name, arguments too
       /\ {"good", "bad"} \subseteq DOMAIN line.args     \* and method, tool

VARIABLES
    stage,    \* "start", "reading", "line", "request", "called", "exited"
    job       \* [line, id, outcome, called, starved, replies] of the line in hand

mcpVars == <<stage, job>>

\* The fields each tool insists on and those it checks when they are there.
Takes(required, optional) == [required |-> required, optional |-> optional]
tool_memory_search       == Takes({"query"}, {"section", "project", "k"})
tool_memory_recall       == Takes({"question"}, {})
tool_memory_insert       == Takes({"section", "content"}, {"project", "locked"})
tool_memory_update       == Takes({"id", "content"}, {})
tool_memory_deprecate    == Takes({"id"}, {"reason"})
tool_memory_list         == Takes({}, {"section", "project", "include_deprecated"})
tool_project_select      == Takes({"slug"}, {})
tool_project_list        == Takes({}, {})
tool_source_append       == Takes({"scope", "kind", "text"}, {})
tool_context_materialize ==
    Takes({"scope", "query", "history_tokens", "checkpoint_tokens"},
          {"base_system_prompt"})
tool_memory_stats        == Takes({}, {})

TOOLS ==
    [memory_search |-> tool_memory_search, memory_recall |-> tool_memory_recall,
     memory_insert |-> tool_memory_insert, memory_update |-> tool_memory_update,
     memory_deprecate |-> tool_memory_deprecate, memory_list |-> tool_memory_list,
     project_select |-> tool_project_select, project_list |-> tool_project_list,
     source_append |-> tool_source_append, memory_stats |-> tool_memory_stats,
     context_materialize |-> tool_context_materialize]
Tools == DOMAIN TOOLS

\* args: the fields there with a value the tool takes, and those without.
ArgsGood(tool, args) ==
    /\ TOOLS[tool].required \subseteq args.good
    /\ args.bad \cap (TOOLS[tool].required \cup TOOLS[tool].optional) = {}

NoJob == [line |-> NoLine, id |-> "null", called |-> NotCalled, outcome |-> "none",
          starved |-> FALSE, replies |-> << >>]

McpInit == stage = "start" /\ job = NoJob

-----------------------------------------------------------------------------
(* Replies.                                                                *)

Result(id, isError) == [id |-> id, code |-> 0, isError |-> isError]
Error(id, code)     == [id |-> id, code |-> code, isError |-> TRUE]
OomReply            == Error("null", 32603)

HasId == job.line.id # "none"

\* Mutation: a notification is answered too.
SendAlways(want, reply) ==
    /\ stage' = "reading"
    /\ job' \in {[job EXCEPT !.replies = <<reply>>],
                 [job EXCEPT !.replies = <<OomReply>>, !.starved = TRUE]}

\* send_error, send_result, send_tool_result: nothing for a notification; the
\* static answer when this one cannot be built or written.
Send(want, reply) ==
    /\ stage' = "reading"
    /\ job' \in (IF want THEN {[job EXCEPT !.replies = <<reply>>],
                               [job EXCEPT !.replies = <<OomReply>>, !.starved = TRUE]}
                 ELSE {job})

Starving(want, reply) ==
    /\ stage' = "reading"
    /\ job' = [job EXCEPT !.starved = TRUE,
                          !.replies = IF want THEN <<reply>> ELSE << >>]

-----------------------------------------------------------------------------
(* main, read_line.                                                        *)

\* The options, then asper_open; --help, --version and errors leave here.
Start == stage = "start" /\ stage' \in {"reading", "exited"} /\ UNCHANGED job

\* The line before is forgotten: the server keeps nothing between requests.
ReadLine(line) ==
    /\ stage = "reading"
    /\ job' = [NoJob EXCEPT !.line = line] /\ stage' = "line"

\* No memory for the line: it is drained, whatever it was, and answered.
LineLost(line) ==
    /\ stage = "reading" /\ UNCHANGED stage
    /\ job' = [NoJob EXCEPT !.line = line, !.starved = TRUE, !.replies = <<OomReply>>]

EndOfInput == stage = "reading" /\ stage' = "exited" /\ UNCHANGED job

SkipBlank ==
    /\ stage = "line" /\ job.line.text = "blank"
    /\ stage' = "reading" /\ UNCHANGED job

\* jx_parse cannot tell want of memory from bad JSON.
ParseError ==
    /\ stage = "line" /\ job.line.text # "blank"
    /\ IF job.line.text = "garbage" THEN Send(TRUE, Error("null", 32700))
       ELSE Starving(TRUE, Error("null", 32700))

-----------------------------------------------------------------------------
(* handle_request                                                          *)

InvalidRequest ==
    LET l == job.line IN
    /\ stage = "line" /\ l.text \in {"array", "scalar", "object"}
    /\ \/ l.text # "object" /\ Send(TRUE, Error("null", 32600))
       \/ l.text = "object" /\ l.id = "bad" /\ Send(TRUE, Error("null", 32600))
       \/ /\ l.text = "object" /\ l.id # "bad" /\ ~l.header
          /\ Send(HasId, Error("id", 32600)) \/ Starving(HasId, Error("null", 32600))

WellFormed == job.line.text = "object" /\ job.line.id # "bad" /\ job.line.header
Ignored == job.line.id = "none" /\ job.line.method = "notifications/any"

IgnoreNotification ==
    /\ stage = "line" /\ WellFormed /\ Ignored
    /\ stage' = "reading" /\ UNCHANGED job

\* The id is copied for the reply; without memory for that the request is not
\* handled at all.
KeepId ==
    /\ stage = "line" /\ WellFormed /\ ~Ignored
    /\ \/ /\ stage' = "request"
          /\ job' = [job EXCEPT !.id = IF HasId THEN "id" ELSE "null"]
       \/ HasId /\ Starving(TRUE, OomReply)

VersionRefused ==
    \/ job.line.meta = "other" /\ job.line.method # "server/discover"
    \/ job.line.method = "initialize" /\ job.line.version = "other"

RejectVersion ==
    /\ stage = "request" /\ VersionRefused
    /\ Send(HasId, Error(job.id, 32022))

Request(method) == stage = "request" /\ ~VersionRefused /\ job.line.method = method

Initialize ==
    /\ Request("initialize")
    /\ Send(HasId, Result(job.id, FALSE)) \/ Starving(HasId, Error(job.id, 32603))

Discover ==
    /\ Request("server/discover")
    /\ Send(HasId, Result(job.id, FALSE)) \/ Starving(HasId, Error(job.id, 32603))

Ping == Request("ping") /\ Send(HasId, Result(job.id, FALSE))

ToolsList ==
    /\ Request("tools/list")
    /\ Send(HasId, Result(job.id, FALSE)) \/ Starving(HasId, Error(job.id, 32603))

Methods == {"initialize", "server/discover", "ping", "tools/list", "tools/call"}

UnknownMethod ==
    /\ stage = "request" /\ ~VersionRefused /\ job.line.method \notin Methods
    /\ Send(HasId, Error(job.id, 32601))

-----------------------------------------------------------------------------
(* handle_tools_call and the tools.                                        *)

Callable(line) ==
    /\ line.params = "object" /\ line.tool \in Tools
    /\ ArgsGood(line.tool, line.args)

InvalidParams ==
    /\ Request("tools/call") /\ ~Callable(job.line)
    /\ Send(HasId, Error(job.id, 32602))

\* The tool's one library call, a notification's too: it takes effect, fails
\* with an asper_err, or takes effect with no memory left to say so.
CallLibrary ==
    /\ Request("tools/call") /\ Callable(job.line)
    /\ stage' = "called"
    /\ \E outcome \in {"ok", "asper", "oom"} :
          job' = [job EXCEPT !.called = job.line.tool, !.outcome = outcome,
                             !.starved = outcome = "oom"]

AnswerCall ==
    /\ stage = "called"
    /\ \/ job.outcome = "ok" /\ Send(HasId, Result(job.id, FALSE))
       \/ /\ job.outcome = "asper"
          /\ Send(HasId, Result(job.id, TRUE)) \/ Starving(HasId, Error(job.id, 32603))
       \/ job.outcome = "oom" /\ Send(HasId, Error(job.id, 32603))

McpNext ==
    \/ Start \/ EndOfInput \/ SkipBlank \/ ParseError \/ InvalidRequest
    \/ IgnoreNotification \/ KeepId \/ RejectVersion \/ Initialize \/ Discover
    \/ Ping \/ ToolsList \/ UnknownMethod \/ InvalidParams \/ CallLibrary
    \/ AnswerCall
    \/ \E line \in Lines : ReadLine(line) \/ LineLost(line)

McpSpec == McpInit /\ [][McpNext]_mcpVars

-----------------------------------------------------------------------------
\* What a line asks for: an answer, and the tool to run.
Asks(line) ==
    \/ line.text \in {"garbage", "array", "scalar"}
    \/ line.text = "object" /\ line.id # "none"
Runs(line) ==
    /\ line.text = "object" /\ line.id # "bad" /\ line.header
    /\ line.meta # "other" /\ line.method = "tools/call" /\ Callable(line)

\* A host that counts answers and matches ids is never misled: every line that
\* asks for an answer gets one, with its own id while memory lasts; no other
\* line does, unless it could not even be read.  A tool runs exactly for the
\* lines that ask for it, and a request that was refused changed nothing: only
\* an answer of "out of memory" leaves open whether the tool ran.
AnswersTell ==
    stage = "reading" /\ job.line # NoLine =>
       LET l == job.line
           answered == job.replies # << >>
           reply == job.replies[1]
       IN  /\ Len(job.replies) <= 1
           /\ Asks(l) => answered
           /\ answered /\ ~Asks(l) => job.starved /\ reply.id = "null"
                                      /\ job.called = NotCalled
           /\ job.called # NotCalled => Runs(l) /\ job.called = l.tool
           /\ Runs(l) /\ ~job.starved => job.called = l.tool
           /\ answered =>
                /\ reply.id = "id" => l.id = "good"
                /\ l.text = "object" /\ l.id = "good" /\ ~job.starved => reply.id = "id"
                /\ reply.code \notin {0, 32603} => job.called = NotCalled
                /\ reply.code = 0 /\ l.method = "tools/call" =>
                      /\ job.called = l.tool
                      /\ reply.isError <=> job.outcome = "asper"
=============================================================================
