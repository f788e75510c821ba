---------------------------- MODULE PackageCommands ----------------------------
(***************************************************************************)
(* api2agent generate, test and the agents over one package directory. A   *)
(* generation writes the files of a package one after the other, over      *)
(* those of an earlier one when forced, and may be cut short; the tests    *)
(* read some of the files to decide and others to act, and an agent reads  *)
(* its files as it starts. Shells run these commands side by side.         *)
(*                                                                         *)
(* A build is a source with the options it is generated with; what         *)
(* generate_package makes of it is a constant here. A file on disk is the  *)
(* build that wrote it, Absent, or Damaged when the write was cut short.   *)
(***************************************************************************)
EXTENDS Integers, Sequences, Functions

CONSTANTS
  Shells, Absent, Damaged,
  Builds,
  Built,           \* the package of each build
  Fitting,         \* <<tested, offered>>: the scripts of the one fit the tools of the other
  MaxGenerations, MaxTests, MaxInterrupts

ASSUME FilesAssumption == Absent \notin Builds /\ Damaged \notin Builds

VARIABLES
  disk,          \* what each file of the package directory is
  made,          \* the directory is there and not empty
  shells,        \* what each shell is doing
  settled,       \* the last generation ended, and no other ran beside it
  sent,          \* the requests that tests have sent to the provider
  unmet,         \* calls of agents for which the runner had no such tool or too few inputs
  spent          \* generations, tests or agents, and interrupts so far

vars == <<disk, made, shells, settled, sent, unmet, spent>>

--------------------------------------------------------------------------------
\* What the files say.

\* In the order of the writes, without the two that no command reads back:
\* README.md and claude_desktop_config.json.
Files == <<"capability.json", "tools.json", "diagnostics.json", "auth.env.example", "runner.py",
           "smoke_test.py", "manual_write_test.py", "mcp_server.py", "openai_agent.py">>

Writing == {"write", "delete"}

\* render_smoke_test and render_manual_write_test: one call of the first tool
\* of the kind, by its name.
ScriptOf(package, kinds) ==
  LET tools == package.tools
  IN  {[name |-> tools[i].name, params |-> tools[i].sample] :
         i \in {i \in DOMAIN tools : /\ tools[i].safety \in kinds
                                     /\ \A j \in 1..(i - 1) : tools[j].safety \notin kinds}}

\* _find_tool, and the CLI's own search: the first tool of the name.
FirstNamed(tools, name) ==
  {i \in DOMAIN tools : tools[i].name = name /\ \A j \in 1..(i - 1) : tools[j].name # name}

FirstsOf(tools) == {tools[i] : i \in UNION {FirstNamed(tools, t.name) : t \in Range(tools)}}

\* execute_tool, in an environment that has every secret and base URL: whether it gets as
\* far as a request, and of what tool. Whoever goes by the proxy leaves the auth to it.
Knows(package, name, params) ==
  \E i \in FirstNamed(package.tools, name) : package.tools[i].required \subseteq params

Executes(package, name, params, proxied) ==
  {t \in {package.tools[i] : i \in FirstNamed(package.tools, name)} :
     t.required \subseteq params /\ (t.authorized \/ proxied)}

\* What an agent calls of the tools it is offered.
Calls(package) == {[name |-> t.name, required |-> t.offered.required] : t \in Range(package.tools)}

ReportsDuplicates(package) == "duplicate_tool_names" \in package.diagnostics.ids

\* What a package is, whatever it is made of: tools.json asks for every input
\* that the runner requires, the report has the names that two tools share,
\* and its own scripts fit.
ASSUME PackagesAssumption ==
  \A b \in Builds :
    LET tools == Built[b].tools
    IN  /\ Len(tools) \in Nat /\ DOMAIN tools = 1..Len(tools)
        /\ \A i \in DOMAIN tools : tools[i].required \subseteq tools[i].offered.required
        /\ \/ ReportsDuplicates(Built[b])
           \/ \A i, j \in DOMAIN tools : tools[i].name = tools[j].name => i = j
        /\ <<b, b>> \in Fitting

\* api2agent diagnose: the report in the package, or where there is none the
\* same one made anew from capability.json. Whether it warns of names.
Warned ==
  \/ disk["diagnostics.json"] \in Builds /\ ReportsDuplicates(Built[disk["diagnostics.json"]])
  \/ /\ disk["diagnostics.json"] = Absent /\ disk["capability.json"] \in Builds
     /\ ReportsDuplicates(Built[disk["capability.json"]])

--------------------------------------------------------------------------------
\* The commands.

Idle == [does |-> "nothing"]
Generating == {s \in Shells : shells[s].does = "generate"}

Init ==
  /\ disk = [f \in Range(Files) |-> Absent]
  /\ made = FALSE
  /\ shells = [s \in Shells |-> Idle]
  /\ settled = FALSE
  /\ sent = {}
  /\ unmet = {}
  /\ spent = [generations |-> 0, tests |-> 0, interrupts |-> 0]

\* What another shell's new generation does to a shell: who writes is no longer
\* alone, and what a test or a starting agent has still to read may be new.
Disturbed(shell) ==
  CASE shell.does = "generate" -> [shell EXCEPT !.alone = FALSE]
    [] shell.does \in {"test", "start", "load"} -> [shell EXCEPT !.steady = FALSE]
    [] OTHER -> shell

\* generate, up to the first write: refused when no tool is left, and without
\* --force when the directory has anything in it.
Generate(s) ==
  /\ shells[s] = Idle
  /\ spent.generations < MaxGenerations
  /\ \E b \in Builds, force \in BOOLEAN :
       /\ made => force
       /\ Built[b].tools # <<>>
       /\ shells' = [t \in Shells |->
            IF t = s THEN [does |-> "generate", build |-> b, next |-> 1, alone |-> Generating = {}]
                     ELSE Disturbed(shells[t])]
  /\ made' = TRUE
  /\ settled' = FALSE
  /\ spent' = [spent EXCEPT !.generations = @ + 1]
  /\ UNCHANGED <<disk, sent, unmet>>

\* Mutant: leaves a file that is already there.
Bug_KeepsFiles(s) ==
  /\ shells[s].does = "generate"
  /\ disk' = [disk EXCEPT ![Files[shells[s].next]] = IF @ = Absent THEN shells[s].build ELSE @]
  /\ IF shells[s].next = Len(Files)
       THEN shells' = [shells EXCEPT ![s] = Idle] /\ settled' = shells[s].alone
       ELSE shells' = [shells EXCEPT ![s].next = @ + 1] /\ UNCHANGED settled
  /\ UNCHANGED <<made, sent, unmet, spent>>

WriteFile(s) ==
  /\ shells[s].does = "generate"
  /\ disk' = [disk EXCEPT ![Files[shells[s].next]] = shells[s].build]
  /\ IF shells[s].next = Len(Files)
       THEN shells' = [shells EXCEPT ![s] = Idle] /\ settled' = shells[s].alone
       ELSE shells' = [shells EXCEPT ![s].next = @ + 1] /\ UNCHANGED settled
  /\ UNCHANGED <<made, sent, unmet, spent>>

\* The generation is killed or the disk is full, before or within a write.
Interrupt(s) ==
  /\ shells[s].does = "generate"
  /\ spent.interrupts < MaxInterrupts
  /\ \/ disk' = [disk EXCEPT ![Files[shells[s].next]] = Damaged]
     \/ UNCHANGED disk
  /\ shells' = [shells EXCEPT ![s] = Idle]
  /\ spent' = [spent EXCEPT !.interrupts = @ + 1]
  /\ UNCHANGED <<made, settled, sent, unmet>>

\* A command other than generate begins.
Begin(s, shell) ==
  /\ shells[s] = Idle
  /\ spent.tests < MaxTests
  /\ shells' = [shells EXCEPT ![s] = shell]
  /\ spent' = [spent EXCEPT !.tests = @ + 1]
  /\ UNCHANGED <<disk, made, settled, sent, unmet>>

\* A test that a file of the build `decided` let begin; it is steady on files
\* that a generation left which ended with no other beside it, until the next.
Testing(decided, name, params, allow) ==
  [does |-> "test", decided |-> decided, name |-> name, params |-> params, allow |-> allow,
   steady |-> settled]

\* Mutant: a delete is not taken for a write.
Bug_DeletesFreely(tool, allow) == tool.safety = "write" => allow

\* Whether a tool may be run with or without --allow-write.
MayRun(tool, allow) == tool.safety \in Writing => allow

\* test --tool: capability.json decides whether the tool may be run.
TestTool(s) ==
  /\ disk["capability.json"] \in Builds
  /\ disk["runner.py"] # Absent
  /\ \E all, allow \in BOOLEAN, tool \in FirstsOf(Built[disk["capability.json"]].tools) :
       /\ MayRun(tool, allow)
       /\ Begin(s, Testing(disk["capability.json"], tool.name, IF all THEN tool.required ELSE {}, allow))

\* test, with or without --allow-write: the script is read; one without a
\* call of its own only prints.
TestScript(s) ==
  \E allow \in BOOLEAN :
    LET file == disk[IF allow THEN "manual_write_test.py" ELSE "smoke_test.py"]
    IN  /\ file \in Builds
        /\ \E call \in ScriptOf(Built[file], IF allow THEN Writing ELSE {"read"}) :
             Begin(s, Testing(file, call.name, DOMAIN call.params, allow))

\* The process that was started imports runner.py as it is by now.
RunTest(s) ==
  LET test   == shells[s]
      runner == disk["runner.py"]
  IN  /\ test.does = "test"
      /\ \E proxied \in BOOLEAN :
           LET request == IF runner \in Builds THEN Executes(Built[runner], test.name, test.params, proxied)
                          ELSE {}
           IN  sent' = sent \cup {[safety |-> tool.safety, allow |-> test.allow, decided |-> test.decided,
                                  ran |-> runner, steady |-> test.steady, warned |-> Warned] : tool \in request}
      /\ shells' = [shells EXCEPT ![s] = Idle]
      /\ UNCHANGED <<disk, made, settled, unmet, spent>>

\* An agent starts: mcp_server.py, with the tools it was written with, or openai_agent.py.
StartAgent(s) ==
  \E file \in {"mcp_server.py", "openai_agent.py"} :
    /\ disk[file] \in Builds
    /\ Begin(s, [does |-> "start", file |-> file, offers |-> disk[file],
                 steady |-> settled, warned |-> Warned])

\* It imports runner.py, once; what it cannot import ends it.
ImportRunner(s) ==
  /\ shells[s].does = "start"
  /\ shells' = [shells EXCEPT ![s] =
       IF disk["runner.py"] \in Builds
         THEN [does |-> IF shells[s].file = "mcp_server.py" THEN "agent" ELSE "load",
               file |-> shells[s].file, offers |-> shells[s].offers, runner |-> disk["runner.py"],
               steady |-> shells[s].steady, warned |-> shells[s].warned]
         ELSE Idle]
  /\ UNCHANGED <<disk, made, settled, sent, unmet, spent>>

\* main of openai_agent.py reads the tools it offers from tools.json.
LoadTools(s) ==
  /\ shells[s].does = "load"
  /\ shells' = [shells EXCEPT ![s] =
       IF disk["tools.json"] \in Builds
         THEN [shells[s] EXCEPT !.does = "agent", !.offers = disk["tools.json"]] ELSE Idle]
  /\ UNCHANGED <<disk, made, settled, sent, unmet, spent>>

\* It calls a tool it was offered with the inputs that are required of it.
\* Neither of the two asks whether the tool writes. A server goes on.
AgentCall(s) ==
  /\ shells[s].does = "agent"
  /\ \E call \in Calls(Built[shells[s].offers]) :
       unmet' = IF Knows(Built[shells[s].runner], call.name, call.required) THEN unmet
                ELSE unmet \cup {[steady |-> shells[s].steady, warned |-> shells[s].warned]}
  /\ \/ shells' = [shells EXCEPT ![s] = Idle]
     \/ shells[s].file = "mcp_server.py" /\ UNCHANGED shells
  /\ UNCHANGED <<disk, made, settled, sent, spent>>

Next == \E s \in Shells : \/ Generate(s) \/ WriteFile(s) \/ Interrupt(s)
                          \/ TestTool(s) \/ TestScript(s) \/ RunTest(s)
                          \/ StartAgent(s) \/ ImportRunner(s) \/ LoadTools(s) \/ AgentCall(s)

Spec == Init /\ [][Next]_vars

--------------------------------------------------------------------------------
\* Properties.

\* A test without --allow-write writes to the provider in two cases only. The
\* file that decided it and runner.py are of different builds: never on a
\* package whose last generation ended with no other beside it, unless another
\* began during the test, but so it may be on what an interrupted or an
\* overlapped generation left, though nobody else is at work. Or they are of
\* builds of which the runner's has two tools of one name: the CLI looks at
\* capability.json, the smoke test was chosen at generation, and runner.py
\* executes the first of a name; on such a package diagnose warns of it.
WritesAreConsented ==
  \A r \in sent : r.safety \in Writing /\ ~r.allow =>
    \/ r.decided # r.ran /\ ~r.steady
    \/ ReportsDuplicates(Built[r.ran]) /\ (r.steady => r.warned)

\* Once a generation has ended with no other beside it, whatever was left by
\* interrupted ones before it, the files of the package are of one build: its
\* tests call tools that it has, with every required input and values that the
\* schemas in tools.json admit, and auth.env.example names every secret the
\* calls need. An agent that was started then is never told that a tool it was
\* offered is unknown or lacks an input, not even after the package has been
\* written over, unless diagnose warned of names.
PackageHoldsTogether ==
  /\ settled => /\ \A f, g \in Range(Files) : disk[f] = disk[g]
                /\ <<disk["smoke_test.py"], disk["tools.json"]>> \in Fitting
  /\ \A call \in unmet : call.steady => call.warned
================================================================================
