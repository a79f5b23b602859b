---------------------------- MODULE AgentLaunch ----------------------------
(***************************************************************************)
(* What happens when an agent is started by its name in a pane             *)
(* (tool_hooks.rs and the grove-agent crate): the shell runs grove's shim, *)
(* the shim runs the launcher, the launcher looks for the real binary,     *)
(* plans its arguments, claims the pane and becomes it.  Each of these     *)
(* replaces the process, and the environment carries over: the PATH, the   *)
(* binaries this chain has run and how many there were.  An agent may      *)
(* start another one the same way, with the environment it has.  The pane  *)
(* may be older than the application, which installs the launcher, the     *)
(* shims and the plugin when it opens its first pane.                      *)
(*                                                                         *)
(* A place is a directory of the PATH by what it holds under the agent's   *)
(* name: "grove" (the shim; always first, as daemon_child_env puts it),    *)
(* "copy" (a copy of the shim), "manager" (a version manager that runs the *)
(* agent again by name), "agent" and "other" (real ones), "none".  An      *)
(* argument of the user is "--settings", "value" or "=value" (readable     *)
(* settings with hooks of the user, behind the flag or in one word with    *)
(* it), "bad" (no settings) or "text".                                     *)
(***************************************************************************)
EXTENDS Integers, Sequences, SequencesExt, FiniteSets

CONSTANTS Layouts, UserArgs, DepthCap, MaxNest, MaxHops

ASSUME LaunchAssumption == DepthCap \in Nat /\ MaxNest \in Nat /\ MaxHops \in Nat

VARIABLES
  layout,     \* what each place of the pane's PATH holds
  installed,  \* ~/.grove/bin/grove-agent is there
  written,    \* the shim, and the plugin's hooks.json and plugin.json: "none", "torn", "ok"
  supports,   \* the claude there is knows --plugin-dir
  setup,      \* how far install has come, and what it had found
  strips,     \* the version manager takes its own directory off the PATH
  args,       \* the user's arguments
  environ,    \* the environment: path, skip and depth
  image,      \* the place whose file the process is, 0 for the launcher
  phase,      \* what that process is about to do
  argv,       \* the arguments it has
  hops,       \* how often this chain came through a shim or a manager
  nest        \* how many agents up the process tree

places == <<layout, strips, args>>
installs == <<installed, written, supports, setup>>
launchVars == <<places, installs, environ, image, phase, argv, hops, nest>>

NoPlugin == [shim |-> "ok", hooks |-> "none", manifest |-> "none"]
Whole == [shim |-> "ok", hooks |-> "ok", manifest |-> "ok"]

LaunchInit ==
  /\ layout \in Layouts /\ args \in UserArgs
  /\ installed \in BOOLEAN /\ written \in {NoPlugin, Whole} /\ strips \in BOOLEAN
  /\ Len(layout) > 2 => args = <<>>
  /\ setup \in [at : {"agent", "done"}, agent : {installed}, plugin : {written = Whole}]
  /\ supports \in BOOLEAN
  /\ setup.at = "done" => supports
  /\ setup.at = "agent" => Len(layout) = 2 /\ Len(args) < 2
  /\ environ = [path |-> [i \in DOMAIN layout |-> i], skip |-> {}, depth |-> 0]
  /\ image = 0 /\ phase = "typed" /\ argv = args /\ hops = 0 /\ nest = 0

\* The first executable of the name among some places of the PATH.
FirstOf(path, ps) ==
  LET hits == {i \in DOMAIN path : path[i] \in ps /\ layout[path[i]] # "none"}
  IN IF hits = {} THEN 0 ELSE path[CHOOSE i \in hits : \A j \in hits : i <= j]

Shims == {i \in DOMAIN layout : layout[i] \in {"grove", "copy"}}
GroveBin == {i \in DOMAIN layout : layout[i] = "grove"}

\* A process becomes the file at place p: what it does then depends on what it is.
Becomes(p) ==
  /\ image' = p
  /\ phase' = IF p = 0 THEN "not found"
              ELSE CASE layout[p] \in {"grove", "copy"} -> "shim"
                     [] layout[p] = "manager" -> "manager"
                     [] OTHER -> "agent"

\* The shell, or a program in an agent, runs the agent by name.
RunByName ==
  /\ phase = "typed"
  /\ Becomes(FirstOf(environ.path, DOMAIN layout))
  /\ UNCHANGED <<places, installs, environ, argv, hops, nest>>

\* agent_wrapper_script: exec grove-agent, or without one the first file of the name that
\* is in another directory.  A shim that is being written is an empty script.
Shim ==
  /\ phase = "shim" /\ hops < MaxHops
  /\ hops' = hops + 1
  /\ IF written.shim = "torn" THEN phase' = "nothing" /\ UNCHANGED image
     ELSE IF installed THEN image' = 0 /\ phase' = "launch"
     ELSE Becomes(FirstOf(environ.path, DOMAIN layout \ {image}))
  /\ UNCHANGED <<places, installs, environ, argv, nest>>

\* The manager runs the agent by name.
Manager ==
  /\ phase = "manager" /\ hops < MaxHops
  /\ hops' = hops + 1
  /\ phase' = "typed"
  /\ environ' = IF strips THEN [environ EXCEPT !.path = SelectSeq(@, LAMBDA p : p # image)] ELSE environ
  /\ UNCHANGED <<places, installs, image, argv, nest>>

-----------------------------------------------------------------------------
(* The launcher                                                            *)

\* Mutant: what the chain has run already is not skipped.
CandidatesAll == DOMAIN layout \ Shims

\* find_real_binary: not grove's directory (D0, D1), not a marked file (D2, D3) and, below
\* the cap, not what this chain has run (D4).
Candidates == (DOMAIN layout \ Shims) \ (IF environ.depth < DepthCap THEN environ.skip ELSE {})

\* last_settings_slot: the place of the last settings' value, 0 for none.
LastSlot(a) ==
  LET slots == {i \in DOMAIN a : (i > 1 /\ a[i - 1] = "--settings") \/ a[i] \in {"=value", "=both"}}
  IN IF slots = {} THEN 0 ELSE CHOOSE i \in slots : \A j \in slots : j <= i

\* merge_hook_groups, for settings that load_settings can read.
Merged == [v \in {"value", "=value", "both", "=both", "grove"} |->
             CASE v \in {"value", "both"} -> "both" [] v \in {"=value", "=both"} -> "=both" [] v = "grove" -> "grove"]

\* plan_claude_settings: grove's own settings in front, or grove's hook groups merged into
\* the last of the user's; settings that cannot be read are left alone.
PlanSettings(a) ==
  IF LastSlot(a) = 0 THEN <<"--settings", "grove">> \o a
  ELSE IF a[LastSlot(a)] \in DOMAIN Merged THEN [a EXCEPT ![LastSlot(a)] = Merged[@]]
  ELSE a

\* claude_plugin_is_installed, and plan_argv for claude.
PluginIsInstalled == written.manifest # "none"
PlanArgv(a) == IF PluginIsInstalled THEN <<"--plugin-dir">> \o a ELSE PlanSettings(a)

\* launch::run: no binary ends it; else the arguments are planned and the pane is claimed
\* (which may fail and costs nothing but the badge), and then execv.
RunLauncher ==
  /\ phase = "launch"
  /\ LET real == FirstOf(environ.path, Candidates) IN
     IF real = 0 THEN phase' = "not found" /\ UNCHANGED <<image, environ, argv>>
     ELSE /\ Becomes(real)
          /\ argv' = PlanArgv(argv)
          /\ environ' = [depth |-> environ.depth + 1, skip |-> environ.skip \cup {real},
                         path |-> IF environ.depth < DepthCap THEN environ.path
                                  ELSE SelectSeq(environ.path, LAMBDA p : p \notin GroveBin)]
  /\ UNCHANGED <<places, installs, hops, nest>>

\* execv fails: the binary has gone since it was found.
ExecFails ==
  /\ phase = "launch"
  /\ FirstOf(environ.path, Candidates) # 0
  /\ phase' = "exec failed"
  /\ UNCHANGED <<places, installs, environ, image, argv, hops, nest>>

\* The agent runs the agent, say from its shell tool.
StartInside ==
  /\ phase = "agent" /\ nest < MaxNest
  /\ phase' = "typed" /\ nest' = nest + 1 /\ argv' = args /\ hops' = 0
  /\ UNCHANGED <<places, installs, environ, image>>

-----------------------------------------------------------------------------
(* The application's install, in another process than the pane's           *)

Sets(at) == setup' = [setup EXCEPT !.at = at]
process == <<places, environ, image, phase, argv, hops, nest>>

\* install_grove_agent: a rename, if there is a launcher to install and it is another one.
InstallAgent ==
  /\ setup.at = "agent"
  /\ installed' \in {installed, TRUE}
  /\ Sets("shim")
  /\ UNCHANGED <<process, written, supports>>

\* A file is written in place: truncated, then written.
Writes(file, next) ==
  /\ setup.at = file
  /\ IF written[file] = "torn"
     THEN written' = [written EXCEPT ![file] = "ok"] /\ Sets(next)
     ELSE written' = [written EXCEPT ![file] = "torn"] /\ UNCHANGED setup
  /\ UNCHANGED <<process, installed, supports>>

WriteExecutable == Writes("shim", "probe")

\* claude_supports_plugin_dir: what the first claude that is no shim says of itself; one
\* that is not there, or cannot be run, does not.
Probe ==
  /\ setup.at = "probe"
  /\ \/ FirstOf([i \in DOMAIN layout |-> i], DOMAIN layout \ Shims) # 0 /\ supports /\ Sets("hooks")
     \/ Sets("remove")
  /\ UNCHANGED <<process, installed, written, supports>>

\* install_claude_plugin: the hooks first, the manifest last.
InstallPlugin == Writes("hooks", "manifest") \/ Writes("manifest", "done")

\* remove_dir_all, in whatever order.
RemovePlugin ==
  /\ setup.at = "remove"
  /\ \/ written = NoPlugin /\ Sets("done") /\ UNCHANGED written
     \/ /\ \E f \in {"hooks", "manifest"} : written[f] # "none" /\ written' = [written EXCEPT ![f] = "none"]
        /\ UNCHANGED setup
  /\ UNCHANGED <<process, installed, supports>>

\* Any step of it may fail and ends it, with the file it was writing as it is.
InstallFails ==
  /\ setup.at # "done" /\ Sets("done")
  /\ UNCHANGED <<process, installed, written, supports>>

LaunchNext ==
  \/ RunByName \/ Shim \/ Manager \/ RunLauncher \/ ExecFails \/ StartInside
  \/ InstallAgent \/ WriteExecutable \/ Probe \/ InstallPlugin \/ RemovePlugin \/ InstallFails

-----------------------------------------------------------------------------
(* Properties                                                              *)

\* How claude reads its arguments (external): a flag takes the next word, the last settings
\* count and must be readable, and a plugin adds to them.
ClaudeHooks(a) ==
  LET isValue[i \in 0..Len(a)] == i > 1 /\ a[i - 1] = "--settings" /\ ~isValue[i - 1]
      values == {i \in DOMAIN a : isValue[i] \/ a[i] \in {"=value", "=both"}}
      last == CHOOSE i \in values : \A j \in values : j <= i
  IN CASE a # <<>> /\ Last(a) = "--settings" /\ ~isValue[Len(a)] -> {"error"}
       [] values = {} -> {}
       [] a[last] \notin DOMAIN Merged \/ (isValue[last] /\ a[last] \in {"=value", "=both"}) -> {"error"}
       [] OTHER -> CASE a[last] \in {"value", "=value"} -> {"user"}
                     [] a[last] \in {"both", "=both"} -> {"user", "grove"}
                     [] a[last] = "grove" -> {"grove"}

\* The agent was given the plugin of an earlier installation, which is being rewritten or
\* is of no use to this claude.
Outdated == /\ argv # <<>> /\ argv[1] = "--plugin-dir"
            /\ setup.plugin /\ (written # Whole \/ ~supports)

\* An agent that the launcher started has grove's hooks and every hook its user asked for,
\* whatever --settings the user passed and in whatever form; and what claude would have
\* refused it still refuses.  A first installation may be under way: a launch that sees
\* the plugin finds its hooks.
HooksKept ==
  phase = "agent" /\ hops > 0 /\ environ.depth > 0 /\ ~Outdated =>
    LET plug == IF argv # <<>> /\ argv[1] = "--plugin-dir" /\ written.hooks = "ok" THEN {"grove"} ELSE {} IN
    IF "error" \in ClaudeHooks(args) THEN "error" \in ClaudeHooks(argv)
    ELSE ClaudeHooks(argv) \cup plug = ClaudeHooks(args) \cup {"grove"}

RealOnPath == \E i \in DOMAIN layout : layout[i] \in {"agent", "other"}

Managers == {i \in DOMAIN layout : layout[i] = "manager"}

\* Nothing stands between the shim and the real binary; or the launcher does the looking,
\* and the managers take themselves off the PATH or are fewer than the cap (a manager that
\* stays on it is run again at the cap, and then finds itself by name, for ever).
Reachable == \/ \A i \in DOMAIN layout : layout[i] \notin {"copy", "manager"}
             \/ setup.agent /\ (strips \/ Cardinality(Managers) < DepthCap)

\* The agent that is typed at a prompt is found, if there is one: without a launcher when
\* no copy of the shim and no manager is in the way, with one behind copies and behind
\* managers that come back to the shim by name, after at most one turn through every
\* manager; and it starts with its hooks.  (A shim that is being rewritten just then does
\* nothing.)
AgentStarts ==
  /\ RealOnPath /\ Reachable /\ nest = 0 =>
       phase # "not found" /\ hops <= 2 * Cardinality(Managers) + 1
  /\ HooksKept

-----------------------------------------------------------------------------
(* Not kept by the code: TLC finds a counterexample, and no run checks it. *)

\* Without a launcher the shim runs the real agent itself, and no shim is taken for it over
\* and over (tool_hooks.rs: "The user always gets their agent", "can never be mistaken for
\* the real binary and exec'd in a loop").
NeverInALoop == RealOnPath /\ nest = 0 => hops <= 2 * Len(layout)

\* An agent that another agent starts is found too ("The user always gets their agent").
AgentStartsInside == setup.agent /\ RealOnPath => phase # "not found"
=============================================================================
