--------------------------------- MODULE Setup ---------------------------------
(* What is set up once in a project and then relied on.                        *)
(*   project: what bootstrap writes (project_bootstrap.py, source_templates.py,*)
(*     replay_templates.py, operator_presets.py), the skill (skill_install.py) *)
(*     and the MCP config that other tools write as well (mcp.py), by several  *)
(*     callers that may fail anywhere;                                         *)
(*   sources: what is found below a home and imported by its id                *)
(*     (source_discovery.py);                                                  *)
(*   adapters: replay adapters that are registered, registered again, and      *)
(*     whose servers are started, used and stopped (replay_adapters.py).       *)
(* The text of templates and of next steps is left out, and so are the paths.  *)
EXTENDS Naturals, Sequences, FiniteSets, SequencesExt

CONSTANTS
  None,
  Caller, Profile,
  OPERATOR_PRESETS,   \* a sequence
  Installed,          \* those whose executable is found
  Homes,              \* [hermes, openclaw |-> sequences of places, in the order of the code]
  Adapter, Url, Dir,
  MaxEdits, MaxCalls, MaxRegistrations   \* bounds

VARIABLES
  topic,
  \* project
  file,       \* [script -> None, generated or edited]
  config,     \* the MCP config: its state, and the servers in it
  operators,  \* the presets that are registered, and for which profile
  profiles,   \* the profile rows, the one created first in front
  call,       \* what each caller has yet to do
  wanted,     \* history: the servers the config should hold
  raced,      \* history: the config changed between a read and the write, or a write was cut
  edits, calls,
  \* sources
  home, listed, asked, imported,
  \* adapters
  row, port, state, op, answered, used, moved, registrations

project == <<file, config, operators, profiles, call, wanted, raced, edits, calls>>
sources == <<home, listed, asked, imported>>
adapters == <<row, port, state, op, answered, used, moved, registrations>>

--------------------------------------------------------------------------------
(* The project                                                                 *)

Bootstrapped == {"source", "replay", "next"}
Skill == {"claude", "agents"}

bootstrap_project ==
  <<<<"seed", None>>, <<"check", "source">>, <<"write", "source">>, <<"check", "replay">>, <<"write", "replay">>,
    <<"read", "mcp">>, <<"truncate", "mcp">>, <<"fill", "mcp">>>>
  \o [i \in DOMAIN OPERATOR_PRESETS |-> <<"operator", OPERATOR_PRESETS[i]>>] \o <<<<"write", "next">>>>
install_skill == <<<<"check", "claude">>, <<"check", "agents">>, <<"write", "claude">>, <<"write", "agents">>>>
write_mcp_config == <<<<"read", "mcp">>, <<"truncate", "mcp">>, <<"fill", "mcp">>>>

NoCall == [kind |-> None, todo |-> <<>>, profile |-> None, force |-> FALSE, read |-> {}, ok |-> FALSE]
Doing(c, kind, what) == call[c].todo # <<>> /\ Head(call[c].todo) = <<kind, what>>
Step(c) == [call EXCEPT ![c].todo = Tail(@), ![c].ok = Tail(call[c].todo) = <<>>]
Fail(c) == call' = [call EXCEPT ![c] = NoCall]

(* Whoever has read the config and not written it yet will undo this.          *)
Writes == {"truncate", "fill"}
Undone(c) == \E d \in Caller \ {c} : call[d].todo # <<>> /\ Head(call[d].todo)[1] \in Writes

Begin(c) ==
  /\ call[c].todo = <<>> /\ calls < MaxCalls /\ calls' = calls + 1
  /\ \E force \in BOOLEAN, profile \in Profile, kind \in {"bootstrap", "skill", "config"} :
       call' = [call EXCEPT ![c] = [NoCall EXCEPT !.kind = kind, !.profile = profile, !.force = force,
                  !.todo = CASE kind = "bootstrap" -> bootstrap_project [] kind = "skill" -> install_skill
                             [] kind = "config" -> write_mcp_config]]
  /\ UNCHANGED <<file, config, operators, profiles, wanted, raced, edits>>

(* The row is written whole, the time of its creation with it.                 *)
SeedProfile(c) ==
  /\ Doing(c, "seed", None)
  /\ profiles' = Append(SelectSeq(profiles, LAMBDA p : p # call[c].profile), call[c].profile)
  /\ call' = Step(c)
  /\ UNCHANGED <<file, config, operators, wanted, raced, edits, calls>>

CheckFree(c, path) ==
  /\ Doing(c, "check", path)
  /\ IF file[path] # None /\ ~ call[c].force THEN Fail(c) ELSE call' = Step(c)
  /\ UNCHANGED <<file, config, operators, profiles, wanted, raced, edits, calls>>

Write(c, path) ==
  /\ Doing(c, "write", path)
  /\ file' = [file EXCEPT ![path] = "generated"] /\ call' = Step(c)
  /\ UNCHANGED <<config, operators, profiles, wanted, raced, edits, calls>>

(* What is there is kept, if it is an object of servers.  It is looked at      *)
(* twice: what is truncated in between is no JSON.                             *)
merge_mcp_config_file(c) ==
  /\ Doing(c, "read", "mcp")
  /\ \/ config.state \in {"broken", "blank"} /\ Fail(c)
     \/ config.state # "broken" /\ call' = [Step(c) EXCEPT ![c].read = config.servers \cup {"kyoko"}]
  /\ UNCHANGED <<file, config, operators, profiles, wanted, raced, edits, calls>>

Truncate(c) ==
  /\ Doing(c, "truncate", "mcp")
  /\ config' = [state |-> "blank", servers |-> {}] /\ raced' = (raced \/ Undone(c)) /\ call' = Step(c)
  /\ UNCHANGED <<file, operators, profiles, wanted, edits, calls>>

Fill(c) ==
  /\ Doing(c, "fill", "mcp")
  /\ config' = [state |-> "json", servers |-> call[c].read] /\ raced' = (raced \/ Undone(c)) /\ call' = Step(c)
  /\ wanted' = wanted \cup {"kyoko"}
  /\ UNCHANGED <<file, operators, profiles, edits, calls>>

(* No profile is named: it is the first one.  What was registered under the    *)
(* name of a preset is overwritten.                                            *)
bootstrap_operator_adapters(c, o) ==
  /\ Doing(c, "operator", o)
  /\ operators' = IF o \in Installed THEN [operators EXCEPT ![o] = profiles[1]] ELSE operators
  /\ call' = Step(c)
  /\ UNCHANGED <<file, config, profiles, wanted, raced, edits, calls>>

(* An error or the end of the process, at any step.                            *)
Die(c) ==
  /\ call[c].todo # <<>> /\ Fail(c)
  /\ raced' = (raced \/ Head(call[c].todo)[1] = "fill")
  /\ UNCHANGED <<file, config, operators, profiles, wanted, edits, calls>>

(* The user and other tools: a script is made one's own, a server is added, or *)
(* what is in the config is no JSON.                                           *)
Edit ==
  /\ edits < MaxEdits /\ edits' = edits + 1
  /\ \/ \E path \in Bootstrapped \cup Skill :
          file' = [file EXCEPT ![path] = "edited"] /\ UNCHANGED <<config, wanted, raced>>
     \/ \E broken \in BOOLEAN :
          /\ broken \/ config.state # "broken"
          /\ wanted' = IF broken THEN {} ELSE wanted \cup {"other"}
          /\ config' = IF broken THEN [state |-> "broken", servers |-> {}]
                       ELSE [state |-> "json", servers |-> config.servers \cup {"other"}]
          /\ raced' = (raced \/ Undone(None)) /\ UNCHANGED file
  /\ UNCHANGED <<operators, profiles, call, calls>>

ProjectInit ==
  /\ file = [path \in Bootstrapped \cup Skill |-> None] /\ config = [state |-> "none", servers |-> {}]
  /\ operators = [o \in ToSet(OPERATOR_PRESETS) |-> None] /\ profiles = <<>>
  /\ call = [c \in Caller |-> NoCall] /\ wanted = {} /\ raced = FALSE /\ edits = 0 /\ calls = 0

ProjectNext ==
  \/ Edit
  \/ \E c \in Caller :
       \/ Begin(c) \/ SeedProfile(c) \/ merge_mcp_config_file(c) \/ Truncate(c) \/ Fill(c) \/ Die(c)
       \/ \E path \in Bootstrapped \cup Skill : CheckFree(c, path) \/ Write(c, path)
       \/ \E o \in ToSet(OPERATOR_PRESETS) : bootstrap_operator_adapters(c, o)

--------------------------------------------------------------------------------
(* The sources below a home                                                    *)

(* A directory that is reached twice is listed once, under its first name.     *)
(* The list is sorted by kind and id, those of the same id as they were.       *)
Listed(places) ==
  FoldLeft(LAMBDA list, p : IF p.status = "missing" \/ \E q \in ToSet(list) : q.real = p.real THEN list
                            ELSE Append(list, p), <<>>, places)
(* A board that is there is ready; of sessions, some must be there.            *)
discover_hermes(h) == Listed(h.hermes)
discover_openclaw(h) == Listed(h.openclaw)
discover_local_sources(h) == discover_hermes(h) \o discover_openclaw(h)

(* The last of those that have the id.                                            *)
candidate(list, id) ==
  LET found == SelectSeq(list, LAMBDA p : p.id = id) IN IF found = <<>> THEN None ELSE Last(found)

Discover(id) ==
  /\ asked = None /\ asked' = id /\ listed' = discover_local_sources(home) /\ UNCHANGED <<home, imported>>

(* A source that went after it was found is an error.                          *)
import_discovered_source ==
  /\ asked # None /\ imported = None
  /\ LET found == candidate(listed, asked) IN
     imported' = IF found = None \/ found.status # "ready" \/ found \notin ToSet(home.hermes \o home.openclaw)
                 THEN [place |-> None, kind |-> "error"] ELSE [place |-> found, kind |-> found.kind]
  /\ UNCHANGED <<home, listed, asked>>

Move(h) == imported = None /\ home' = h /\ home # h /\ UNCHANGED <<listed, asked, imported>>

SourceInit == home \in Homes /\ listed = <<>> /\ asked = None /\ imported = None
Ids == {p.id : p \in UNION {ToSet(h.hermes \o h.openclaw) : h \in Homes}}
SourceNext ==
  \/ import_discovered_source
  \/ \E id \in Ids : Discover(id)
  \/ \E h \in Homes : Move(h)

--------------------------------------------------------------------------------
(* Replay adapters.  A server is known by the URL it listens at: port says     *)
(* which directory its state file is in, state which server a state file names.*)
(* One operation is under way at a time; ReplayServers has several, with what  *)
(* happens while one waits.                                                    *)

Kinds == {"command", "http_server", "managed_http_server"}
adapter_output_dir(a, r) == <<r.dir, a>>
Running(dir) == state[dir] # None

(* A row that was there is overwritten; what runs is left alone.               *)
register_replay_adapter(a) ==
  /\ registrations < MaxRegistrations /\ registrations' = registrations + 1
  /\ \E kind \in Kinds, url \in Url, dir \in Dir, profile \in Profile, enabled \in BOOLEAN :
       LET new == [kind |-> kind, url |-> IF kind = "command" THEN None ELSE url, dir |-> dir, profile |-> profile,
                   enabled |-> enabled] IN
       /\ row' = [row EXCEPT ![a] = new]
       /\ used' = [used EXCEPT ![a] = @ \cup ({new.url} \ {None})]
       /\ moved' = IF row[a] \in {None, new} THEN moved ELSE moved \cup {a}
  /\ UNCHANGED <<port, state, op, answered>>

(* What an operation needs of the row, which is read before it acts.           *)
Refused(what, r, profile) ==
  \/ r = None \/ ~ r.enabled
  \/ what = "run" /\ r.profile # profile
  \/ what = "status" /\ r.kind = "command"
  \/ what \in {"start", "stop"} /\ r.kind # "managed_http_server"

get_adapter(a, what, profile) ==
  /\ op = None
  /\ ~ Refused(what, row[a], profile)
  /\ op' = [adapter |-> a, what |-> what, row |-> row[a]]
  /\ UNCHANGED <<row, port, state, answered, used, moved, registrations>>

Done == op' = None /\ UNCHANGED <<row, used, moved, registrations>>
Dir_ == adapter_output_dir(op.adapter, op.row)
Acting(what) == op # None /\ op.what = what

(* One that runs and answers is kept.  Another is started otherwise: it takes  *)
(* the port, or never answers and is stopped, or finds the port taken: then    *)
(* somebody answers all the same, or it has ended by then.                     *)
start_registered_replay_server_adapter ==
  /\ Acting("start")
  /\ IF Running(Dir_) /\ port[op.row.url] # None THEN UNCHANGED <<port, state>>
     ELSE \/ /\ port[op.row.url] = None
             /\ port' = [port EXCEPT ![op.row.url] = Dir_]
             /\ state' = [state EXCEPT ![Dir_] = op.row.url]
          \/ UNCHANGED port /\ state' = [state EXCEPT ![Dir_] = None]
  /\ answered' = None /\ Done

stop_registered_replay_server_adapter ==
  /\ Acting("stop")
  /\ port' = IF Running(Dir_) THEN [port EXCEPT ![state[Dir_]] = None] ELSE port
  /\ state' = [state EXCEPT ![Dir_] = None]
  /\ answered' = None /\ Done

registered_replay_server_status ==
  /\ Acting("status")
  /\ answered' = [adapter |-> op.adapter, row |-> op.row,
                  by |-> IF Running(Dir_) /\ port[op.row.url] # None THEN port[op.row.url] ELSE None]
  /\ UNCHANGED <<port, state>> /\ Done

(* A command answers itself; an HTTP server is whatever listens; a managed one *)
(* is the one that was started, if it runs and answers, or one for this replay *)
(* alone, unless the port is taken: then that one answers.  Any may fail to.   *)
run_registered_replay_adapter ==
  /\ Acting("run")
  /\ LET listens == IF op.row.kind = "command" THEN None ELSE port[op.row.url]
         by == IF op.row.kind = "command" \/ (op.row.kind = "managed_http_server" /\ listens = None)
               THEN Dir_ ELSE listens IN
     \E who \in {None, by} : answered' = [adapter |-> op.adapter, row |-> op.row, by |-> who]
  /\ UNCHANGED <<port, state>> /\ Done

(* A server ends by itself: its port is free, and its pid names no process.    *)
ServerDies(u) ==
  /\ port[u] # None /\ port' = [port EXCEPT ![u] = None]
  /\ state' = [d \in DOMAIN state |-> IF state[d] = u THEN None ELSE state[d]]
  /\ UNCHANGED <<row, op, answered, used, moved, registrations>>

AdapterInit ==
  /\ row = [a \in Adapter |-> None] /\ port = [u \in Url |-> None] /\ state = [d \in Dir \X Adapter |-> None]
  /\ op = None /\ answered = None /\ used = [a \in Adapter |-> {}] /\ moved = {} /\ registrations = 0

AdapterNext ==
  \/ start_registered_replay_server_adapter \/ stop_registered_replay_server_adapter
  \/ registered_replay_server_status \/ run_registered_replay_adapter
  \/ \E u \in Url : ServerDies(u)
  \/ \E a \in Adapter : \/ register_replay_adapter(a)
                        \/ \E what \in {"start", "stop", "status", "run"}, profile \in Profile :
                             get_adapter(a, what, profile)

--------------------------------------------------------------------------------

SetupInit ==
  /\ topic \in {"project", "sources", "adapters"}
  /\ IF topic = "project" THEN ProjectInit
     ELSE file = None /\ config = None /\ operators = None /\ profiles = None /\ call = None /\ wanted = None
          /\ raced = None /\ edits = None /\ calls = None
  /\ IF topic = "sources" THEN SourceInit ELSE home = None /\ listed = None /\ asked = None /\ imported = None
  /\ IF topic = "adapters" THEN AdapterInit
     ELSE row = None /\ port = None /\ state = None /\ op = None /\ answered = None /\ used = None
          /\ moved = None /\ registrations = None

SetupNext ==
  /\ UNCHANGED topic
  /\ \/ topic = "project" /\ ProjectNext /\ UNCHANGED <<sources, adapters>>
     \/ topic = "sources" /\ SourceNext /\ UNCHANGED <<project, adapters>>
     \/ topic = "adapters" /\ AdapterNext /\ UNCHANGED <<project, sources>>

(* A bootstrap that succeeded left everything there, whoever failed before or  *)
(* beside it: the profile, the files, the operators that are installed; and    *)
(* the servers of all tools stay in the config, unless somebody wrote it       *)
(* between the read and the write of another, or a write of it was cut off.    *)
ProjectIsWhole ==
  topic = "project" =>
    /\ \A c \in Caller :
         call[c].ok /\ call[c].kind = "bootstrap" =>
           /\ call[c].profile \in ToSet(profiles) /\ \A path \in Bootstrapped : file[path] # None
           /\ \A o \in Installed : operators[o] \in ToSet(profiles)
    /\ ~ raced => wanted \subseteq config.servers \/ \E c \in Caller : Doing(c, "fill", "mcp")

(* What is imported is a source that has the id that was asked for and was     *)
(* ready when it was found, and there is an id to ask for every ready source:  *)
(* unless its directory is listed under an earlier name, or another source     *)
(* that comes after it has the same id.                                        *)
SourcesAreFound ==
  topic = "sources" =>
    /\ imported # None /\ imported.place # None =>
         imported.place.id = asked /\ imported.place.status = "ready" /\ imported.place \in ToSet(listed)
    /\ \A places \in {home.hermes, home.openclaw} : \A i \in DOMAIN places :
         LET p == places[i] IN
         /\ p.status = "ready" /\ (\A j \in DOMAIN places : j < i => places[j].real # p.real)
              /\ (\A j \in DOMAIN places : j > i => places[j].id # p.id)
            => candidate(discover_local_sources(home), p.id) = p
         /\ p.status = "ready" => \E q \in ToSet(discover_local_sources(home)) : q.kind = p.kind /\ q.real = p.real

(* Those whose URL another one has been registered at.                         *)
Shared == {a \in Adapter : \E b \in Adapter \ {a} : used[a] \cap used[b] # {}}

(* A replay is answered by what its adapter started, not by the server of      *)
(* another one, as long as no other was ever registered at its URL; and what   *)
(* an adapter started can be stopped by it, unless it was registered anew.     *)
AdaptersKeepToTheirOwn ==
  topic = "adapters" =>
    /\ answered # None /\ answered.row.kind = "managed_http_server" /\ answered.by # None
         /\ answered.adapter \notin Shared => answered.by[2] = answered.adapter
    /\ \A u \in Url : port[u] # None =>
         LET a == port[u][2] IN
         a \notin moved \cup Shared =>
           row[a].kind = "managed_http_server" /\ adapter_output_dir(a, row[a]) = port[u] /\ state[port[u]] = u

(* All three, each of its topic.                                               *)
SetupIsWhole == ProjectIsWhole /\ SourcesAreFound /\ AdaptersKeepToTheirOwn
================================================================================
