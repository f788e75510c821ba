------------------------ MODULE PackageCommands_proofs ------------------------
(***************************************************************************)
(* Proofs about PackageCommands: the inductive invariant says of every     *)
(* command under way what it has read and what still holds of the files.   *)
(***************************************************************************)
EXTENDS PackageCommands, TLAPS

--------------------------------------------------------------------------------
\* The inductive invariant.

Does == {"nothing", "generate", "test", "start", "load", "agent"}

FieldsOf(does) ==
  CASE does = "nothing"  -> {"does"}
    [] does = "generate" -> {"does", "build", "next", "alone"}
    [] does = "test"     -> {"does", "decided", "name", "params", "allow", "steady"}
    [] does = "start"    -> {"does", "file", "offers", "steady", "warned"}
    [] OTHER             -> {"does", "file", "offers", "runner", "steady", "warned"}

ShapeInv ==
  /\ DOMAIN disk = Range(Files)
  /\ DOMAIN shells = Shells
  /\ settled \in BOOLEAN
  /\ \A s \in Shells : shells[s].does \in Does /\ DOMAIN shells[s] = FieldsOf(shells[s].does)

\* Every file is of one build.
WholeOf(b) == \A f \in Range(Files) : disk[f] = b

SettledInv == settled => \E b \in Builds : WholeOf(b)

\* While one generation runs nothing is settled, and one that is alone has
\* written what comes before its next file.
GenerateInv(s) ==
  shells[s].does = "generate" =>
    /\ shells[s].build \in Builds /\ shells[s].next \in 1..Len(Files) /\ shells[s].alone \in BOOLEAN
    /\ ~settled
    /\ shells[s].alone =>
         /\ \A t \in Shells : shells[t].does = "generate" => t = s
         /\ \A i \in 1..(shells[s].next - 1) : disk[Files[i]] = shells[s].build

\* The tool that the name means to the runner of a build does not write, or
\* its report warns.
ReadsOnly(b, name) ==
  \/ ReportsDuplicates(Built[b])
  \/ \A i \in FirstNamed(Built[b].tools, name) : Built[b].tools[i].safety \notin Writing

\* A test without --allow-write was let begin by a build that means a tool
\* that reads; one that was not disturbed still finds the files of that build.
TestInv(s) ==
  shells[s].does = "test" =>
    /\ shells[s].allow \in BOOLEAN /\ shells[s].steady \in BOOLEAN /\ shells[s].decided \in Builds
    /\ ~shells[s].allow => ReadsOnly(shells[s].decided, shells[s].name)
    /\ shells[s].steady => settled /\ WholeOf(shells[s].decided)

\* So does an agent while it starts; then it needs the files no more.
StartInv(s) ==
  shells[s].does \in {"start", "load"} /\ shells[s].steady => settled /\ WholeOf(shells[s].offers)

AgentInv(s) ==
  shells[s].does \in {"start", "load", "agent"} =>
    /\ shells[s].offers \in Builds /\ shells[s].steady \in BOOLEAN /\ shells[s].warned \in BOOLEAN
    /\ shells[s].steady =>
         /\ ReportsDuplicates(Built[shells[s].offers]) => shells[s].warned
         /\ shells[s].does # "start" => shells[s].runner = shells[s].offers

ShellInv(s) == GenerateInv(s) /\ TestInv(s) /\ StartInv(s) /\ AgentInv(s)

HistoryInv == WritesAreConsented /\ \A call \in unmet : call.steady => call.warned

IInv == ShapeInv /\ SettledInv /\ (\A s \in Shells : ShellInv(s)) /\ HistoryInv

--------------------------------------------------------------------------------
\* The files and the packages.

\* The directory has nine files, those that the commands read among them.
LEMMA FileNames ==
  /\ Len(Files) = 9 /\ DOMAIN Files = 1..9
  /\ \A f \in Range(Files) : \E i \in 1..9 : f = Files[i]
  /\ \A i \in 1..9 : Files[i] \in Range(Files)
  /\ {"capability.json", "tools.json", "diagnostics.json", "runner.py", "smoke_test.py",
      "manual_write_test.py", "mcp_server.py", "openai_agent.py"} \subseteq Range(Files)
<1>1. Len(Files) = 9 /\ DOMAIN Files = 1..9
  BY DEF Files
<1>2. Range(Files) = {Files[i] : i \in 1..9}
  BY <1>1 DEF Range
<1>3. /\ Files[1] = "capability.json" /\ Files[2] = "tools.json" /\ Files[3] = "diagnostics.json"
      /\ Files[5] = "runner.py" /\ Files[6] = "smoke_test.py"
      /\ Files[7] = "manual_write_test.py" /\ Files[8] = "mcp_server.py"
      /\ Files[9] = "openai_agent.py"
  BY DEF Files
<1> QED
  BY <1>1, <1>2, <1>3

\* What a package is, one build at a time.
LEMMA PackageShape ==
  ASSUME NEW b \in Builds, NEW tools, tools = Built[b].tools
  PROVE  /\ Len(tools) \in Nat /\ DOMAIN tools = 1..Len(tools)
         /\ \A i \in DOMAIN tools : tools[i].required \subseteq tools[i].offered.required
         /\ \/ ReportsDuplicates(Built[b])
            \/ \A i, j \in DOMAIN tools : tools[i].name = tools[j].name => i = j
         /\ <<b, b>> \in Fitting
BY PackagesAssumption

\* A name means at most one tool.
LEMMA FirstIsOne ==
  ASSUME NEW b \in Builds, NEW name,
         NEW i \in FirstNamed(Built[b].tools, name), NEW j \in FirstNamed(Built[b].tools, name)
  PROVE  i = j
<1> DEFINE tools == Built[b].tools
<1>1. Len(tools) \in Nat /\ DOMAIN tools = 1..Len(tools)
  BY PackageShape
<1>2. /\ i \in 1..Len(tools) /\ tools[i].name = name /\ \A k \in 1..(i - 1) : tools[k].name # name
      /\ j \in 1..Len(tools) /\ tools[j].name = name /\ \A k \in 1..(j - 1) : tools[k].name # name
  BY <1>1 DEF FirstNamed
<1> HIDE DEF tools
<1> QED
  BY <1>1, <1>2

\* Where no two tools share a name, a tool is the first of its own.
LEMMA OwnNameIsFirst ==
  ASSUME NEW b \in Builds, ~ReportsDuplicates(Built[b]), NEW i \in DOMAIN Built[b].tools
  PROVE  FirstNamed(Built[b].tools, Built[b].tools[i].name) = {i}
<1> DEFINE tools == Built[b].tools
<1>1. /\ Len(tools) \in Nat /\ DOMAIN tools = 1..Len(tools)
      /\ \A k, j \in DOMAIN tools : tools[k].name = tools[j].name => k = j
  BY PackageShape
<1> HIDE DEF tools
<1>2. i \in 1..Len(tools)
  BY <1>1 DEF tools
<1>3. FirstNamed(tools, tools[i].name) = {i}
  BY <1>1, <1>2 DEF FirstNamed
<1> QED
  BY <1>3 DEF tools

\* The tool that the smoke test calls by its name reads.
LEMMA SmokeTestReads ==
  ASSUME NEW b \in Builds, NEW call \in ScriptOf(Built[b], {"read"})
  PROVE  ReadsOnly(b, call.name)
<1>1. PICK i \in DOMAIN Built[b].tools :
        Built[b].tools[i].safety = "read" /\ call.name = Built[b].tools[i].name
  BY DEF ScriptOf
<1>2. ASSUME ~ReportsDuplicates(Built[b]) PROVE FirstNamed(Built[b].tools, call.name) = {i}
  BY <1>1, <1>2, OwnNameIsFirst
<1> QED
  BY <1>1, <1>2 DEF ReadsOnly, Writing

\* A tool that test --tool admits without --allow-write reads.
LEMMA AdmittedToolReads ==
  ASSUME NEW b \in Builds, NEW tool \in FirstsOf(Built[b].tools), MayRun(tool, FALSE)
  PROVE  ReadsOnly(b, tool.name)
<1>1. PICK named \in Range(Built[b].tools) : \E i \in FirstNamed(Built[b].tools, named.name) : tool = Built[b].tools[i]
  BY DEF FirstsOf
<1> DEFINE name == named.name
<1>2. PICK i \in FirstNamed(Built[b].tools, name) : tool = Built[b].tools[i] /\ tool.name = name
  BY <1>1 DEF FirstNamed
<1>3. \A j \in FirstNamed(Built[b].tools, name) : j = i
  BY FirstIsOne
<1> QED
  BY <1>2, <1>3 DEF ReadsOnly, MayRun

\* The runner of a package knows whatever its tools.json offers.
LEMMA OffersAreKnown ==
  ASSUME NEW b \in Builds, ~ReportsDuplicates(Built[b]), NEW call \in Calls(Built[b])
  PROVE  Knows(Built[b], call.name, call.required)
<1>1. PICK i \in DOMAIN Built[b].tools :
        call.name = Built[b].tools[i].name /\ call.required = Built[b].tools[i].offered.required
  BY DEF Calls, Range
<1>2. FirstNamed(Built[b].tools, call.name) = {i}
  BY <1>1, OwnNameIsFirst
<1>3. Built[b].tools[i].required \subseteq call.required
  BY <1>1, PackageShape
<1> QED
  BY <1>2, <1>3 DEF Knows

\* Files of one build: which one, and what diagnose makes of it.
LEMMA WholePackage ==
  ASSUME SettledInv, settled
  PROVE  \E b \in Builds :
           /\ WholeOf(b) /\ \A c : WholeOf(c) => c = b
           /\ \A f \in {"capability.json", "tools.json", "diagnostics.json", "runner.py", "smoke_test.py",
                        "mcp_server.py", "openai_agent.py"} : disk[f] = b
           /\ ReportsDuplicates(Built[b]) => Warned
<1>1. PICK b \in Builds : WholeOf(b)
  BY DEF SettledInv
<1>2. \A f \in {"capability.json", "tools.json", "diagnostics.json", "runner.py", "smoke_test.py",
                "mcp_server.py", "openai_agent.py"} : f \in Range(Files)
  BY FileNames
<1> QED
  BY <1>1, <1>2 DEF WholeOf, Warned

--------------------------------------------------------------------------------
\* Steps that leave the files alone.

\* Shell s goes on to another state, and the others stay.
Steps(s, shell) == shells' = [shells EXCEPT ![s] = shell]

LEMMA StepKeeps ==
  ASSUME IInv, NEW s \in Shells, NEW shell, Steps(s, shell), UNCHANGED <<disk, settled>>,
         shell.does \in Does \ {"generate"}, DOMAIN shell = FieldsOf(shell.does),
         TestInv(s)', StartInv(s)', AgentInv(s)', HistoryInv'
  PROVE  IInv'
<1>1. ShapeInv /\ SettledInv /\ \A t \in Shells : ShellInv(t)
  BY DEF IInv
<1>2. DOMAIN shells' = Shells /\ shells'[s] = shell /\ \A t \in Shells : t # s => shells'[t] = shells[t]
  BY <1>1 DEF ShapeInv, Steps
<1>3. ShapeInv'
  BY <1>1, <1>2 DEF ShapeInv
<1>4. SettledInv'
  BY <1>1 DEF SettledInv, WholeOf
<1>5. ASSUME NEW t \in Shells PROVE ShellInv(t)'
  <2>1. CASE t = s
    BY <2>1, <1>2 DEF ShellInv, GenerateInv
  <2>2. CASE t # s
    <3>1. GenerateInv(t) /\ TestInv(t) /\ StartInv(t) /\ AgentInv(t) /\ shells'[t] = shells[t]
      BY <2>2, <1>1, <1>2 DEF ShellInv
    <3>2. GenerateInv(t)'
      BY <3>1, <1>2 DEF GenerateInv
    <3>3. TestInv(t)'
      BY <3>1 DEF TestInv, WholeOf
    <3>4. StartInv(t)' /\ AgentInv(t)'
      BY <3>1 DEF StartInv, AgentInv, WholeOf
    <3> QED
      BY <3>2, <3>3, <3>4 DEF ShellInv
  <2> QED
    BY <2>1, <2>2
<1> QED
  BY <1>3, <1>4, <1>5 DEF IInv

\* A shell that has nothing to do has nothing to keep.
LEMMA Stops ==
  ASSUME IInv, NEW s \in Shells, Steps(s, Idle), UNCHANGED <<disk, settled>>, HistoryInv'
  PROVE  IInv'
<1>1. Idle.does = "nothing" /\ DOMAIN Idle = FieldsOf("nothing")
  BY DEF Idle, FieldsOf
<1>2. shells'[s] = Idle
  BY DEF Steps, IInv, ShapeInv
<1>3. TestInv(s)' /\ StartInv(s)' /\ AgentInv(s)'
  BY <1>1, <1>2 DEF TestInv, StartInv, AgentInv
<1> QED
  BY <1>1, <1>3, StepKeeps DEF Does

\* What was sent and unmet stays as it was.
LEMMA HistoryKept ==
  ASSUME IInv, UNCHANGED <<sent, unmet>>
  PROVE  HistoryInv'
BY DEF IInv, HistoryInv, WritesAreConsented

\* A test that a file lets begin: without --allow-write it reads, by that file.
LEMMA Admitted ==
  ASSUME IInv, NEW s \in Shells, NEW f \in Range(Files), NEW b \in Builds, disk[f] = b,
         NEW name, NEW params, NEW allow \in BOOLEAN,
         Begin(s, Testing(b, name, params, allow)), ~allow => ReadsOnly(b, name)
  PROVE  IInv'
<1> DEFINE shell == Testing(b, name, params, allow)
<1>1. /\ shell.does = "test" /\ shell.name = name /\ shell.allow = allow /\ shell.steady = settled
      /\ shell.decided = b /\ DOMAIN shell = FieldsOf("test")
  BY DEF Testing, FieldsOf
<1>2. Steps(s, shell) /\ UNCHANGED <<disk, settled, sent, unmet>>
  BY DEF Begin, Steps
<1> HIDE DEF shell
<1>3. shells'[s] = shell /\ settled \in BOOLEAN /\ SettledInv
  BY <1>2 DEF Steps, IInv, ShapeInv
<1>4. settled => WholeOf(b)
  BY <1>3 DEF SettledInv, WholeOf
<1>5. TestInv(s)'
  BY <1>1, <1>2, <1>3, <1>4 DEF TestInv, WholeOf
<1>6. StartInv(s)' /\ AgentInv(s)'
  BY <1>1, <1>3 DEF StartInv, AgentInv
<1> QED
  BY <1>1, <1>2, <1>5, <1>6, HistoryKept, StepKeeps DEF Does

LEMMA TestToolInv ==
  ASSUME IInv, NEW s \in Shells, TestTool(s)
  PROVE  IInv'
<1> DEFINE b == disk["capability.json"]
<1>1. PICK all \in BOOLEAN, allow \in BOOLEAN, tool \in FirstsOf(Built[b].tools) :
        /\ MayRun(tool, allow)
        /\ Begin(s, Testing(b, tool.name, IF all THEN tool.required ELSE {}, allow))
  BY DEF TestTool
<1>2. b \in Builds /\ "capability.json" \in Range(Files)
  BY FileNames DEF TestTool
<1>3. ASSUME ~allow PROVE ReadsOnly(b, tool.name)
  <2>1. allow = FALSE
    BY <1>3
  <2> QED
    BY <2>1, <1>1, <1>2, AdmittedToolReads
<1> QED
  BY <1>1, <1>2, <1>3, Admitted

LEMMA TestScriptInv ==
  ASSUME IInv, NEW s \in Shells, TestScript(s)
  PROVE  IInv'
<1>1. PICK allow \in BOOLEAN :
        LET file == disk[IF allow THEN "manual_write_test.py" ELSE "smoke_test.py"]
        IN  /\ file \in Builds
            /\ \E call \in ScriptOf(Built[file], IF allow THEN Writing ELSE {"read"}) :
                 Begin(s, Testing(file, call.name, DOMAIN call.params, allow))
  BY DEF TestScript
<1>2. "manual_write_test.py" \in Range(Files) /\ "smoke_test.py" \in Range(Files)
  BY FileNames
<1>3. CASE allow
  BY <1>1, <1>2, <1>3, Admitted
<1>4. CASE ~allow
  <2> DEFINE b == disk["smoke_test.py"]
  <2>1. b \in Builds
    BY <1>1, <1>4
  <2>2. PICK call \in ScriptOf(Built[b], {"read"}) : Begin(s, Testing(b, call.name, DOMAIN call.params, allow))
    BY <1>1, <1>4
  <2>3. ReadsOnly(b, call.name)
    BY <2>1, <2>2, SmokeTestReads
  <2> QED
    BY <2>1, <2>2, <2>3, <1>2, Admitted
<1> QED
  BY <1>3, <1>4

LEMMA RunTestInv ==
  ASSUME IInv, NEW s \in Shells, RunTest(s)
  PROVE  IInv'
<1> DEFINE ran == disk["runner.py"]
<1>1. /\ shells[s].does = "test" /\ Steps(s, Idle) /\ UNCHANGED <<disk, settled, unmet>>
      /\ SettledInv /\ HistoryInv /\ TestInv(s)
  BY DEF RunTest, Steps, IInv, ShellInv
<1>2. PICK proxied \in BOOLEAN :
        sent' = sent \cup {[safety |-> tool.safety, allow |-> shells[s].allow, decided |-> shells[s].decided,
                           ran |-> ran, steady |-> shells[s].steady, warned |-> Warned] :
                          tool \in IF ran \in Builds
                                    THEN Executes(Built[ran], shells[s].name, shells[s].params, proxied) ELSE {}}
  BY DEF RunTest
<1>3. ASSUME NEW r \in sent', r.safety \in Writing, ~r.allow
      PROVE  \/ r.decided # r.ran /\ ~r.steady
             \/ ReportsDuplicates(Built[r.ran]) /\ (r.steady => r.warned)
  <2>1. CASE r \in sent
    BY <2>1, <1>1, <1>3 DEF HistoryInv, WritesAreConsented
  <2>2. CASE r \notin sent
    <3>1. PICK tool : /\ ran \in Builds
                      /\ tool \in Executes(Built[ran], shells[s].name, shells[s].params, proxied)
                      /\ r = [safety |-> tool.safety, allow |-> shells[s].allow, decided |-> shells[s].decided,
                              ran |-> ran, steady |-> shells[s].steady, warned |-> Warned]
      BY <2>2, <1>2
    <3>2. ReadsOnly(shells[s].decided, shells[s].name)
      BY <3>1, <1>1, <1>3 DEF TestInv
    <3>3. PICK i \in FirstNamed(Built[ran].tools, shells[s].name) : tool = Built[ran].tools[i]
      BY <3>1 DEF Executes
    <3>4. r.decided = r.ran => ReportsDuplicates(Built[r.ran])
      BY <3>1, <3>2, <3>3, <1>3 DEF ReadsOnly
    <3>5. r.steady => r.decided = r.ran /\ (ReportsDuplicates(Built[r.ran]) => r.warned)
      <4>1. ASSUME shells[s].steady
            PROVE  ran = shells[s].decided /\ (ReportsDuplicates(Built[ran]) => Warned)
        BY <4>1, <1>1, WholePackage DEF TestInv
      <4> QED
        BY <4>1, <3>1
    <3> QED
      BY <3>4, <3>5
  <2> QED
    BY <2>1, <2>2
<1>4. HistoryInv'
  BY <1>1, <1>3 DEF HistoryInv, WritesAreConsented
<1> QED
  BY <1>1, <1>4, Stops

--------------------------------------------------------------------------------
\* Agents.

LEMMA StartAgentInv ==
  ASSUME IInv, NEW s \in Shells, StartAgent(s)
  PROVE  IInv'
<1>1. PICK file \in {"mcp_server.py", "openai_agent.py"} :
        /\ disk[file] \in Builds
        /\ Begin(s, [does |-> "start", file |-> file, offers |-> disk[file],
                     steady |-> settled, warned |-> Warned])
  BY DEF StartAgent
<1> DEFINE shell == [does |-> "start", file |-> file, offers |-> disk[file],
                     steady |-> settled, warned |-> Warned]
<1>2. /\ shell.does = "start" /\ shell.offers = disk[file] /\ shell.steady = settled
      /\ shell.warned = Warned /\ DOMAIN shell = FieldsOf("start")
  BY DEF FieldsOf
<1>3. Steps(s, shell) /\ UNCHANGED <<disk, settled, sent, unmet>>
  BY <1>1 DEF Begin, Steps
<1> HIDE DEF shell
<1>4. shells'[s] = shell /\ settled \in BOOLEAN /\ SettledInv
  BY <1>3 DEF Steps, IInv, ShapeInv
<1>5. settled => WholeOf(disk[file]) /\ (ReportsDuplicates(Built[disk[file]]) => Warned)
  BY <1>1, <1>4, WholePackage
<1>6. Warned \in BOOLEAN
  BY DEF Warned
<1>7. StartInv(s)'
  BY <1>2, <1>3, <1>4, <1>5 DEF StartInv, WholeOf
<1>8. AgentInv(s)'
  BY <1>1, <1>2, <1>3, <1>4, <1>5, <1>6 DEF AgentInv
<1>9. TestInv(s)'
  BY <1>2, <1>4 DEF TestInv
<1> QED
  BY <1>2, <1>3, <1>7, <1>8, <1>9, HistoryKept, StepKeeps DEF Does

LEMMA ImportRunnerInv ==
  ASSUME IInv, NEW s \in Shells, ImportRunner(s)
  PROVE  IInv'
<1> DEFINE runner == disk["runner.py"]
           shell == [does |-> IF shells[s].file = "mcp_server.py" THEN "agent" ELSE "load",
                     file |-> shells[s].file, offers |-> shells[s].offers, runner |-> runner,
                     steady |-> shells[s].steady, warned |-> shells[s].warned]
<1>1. /\ shells[s].does = "start" /\ UNCHANGED <<disk, settled, sent, unmet>>
      /\ Steps(s, IF runner \in Builds THEN shell ELSE Idle)
  BY DEF ImportRunner, Steps
<1>2. SettledInv /\ StartInv(s) /\ AgentInv(s)
  BY DEF IInv, ShellInv
<1>3. CASE runner \in Builds
  <2>1. /\ shell.does \in {"agent", "load"} /\ shell.offers = shells[s].offers /\ shell.runner = runner
        /\ shell.steady = shells[s].steady /\ shell.warned = shells[s].warned
        /\ DOMAIN shell = FieldsOf(shell.does)
    BY DEF FieldsOf
  <2>2. Steps(s, shell)
    BY <1>1, <1>3
  <2> HIDE DEF shell
  <2>3. shells'[s] = shell
    BY <2>2 DEF Steps, IInv, ShapeInv
  <2>4. shells[s].steady => settled /\ WholeOf(shells[s].offers) /\ runner = shells[s].offers
    BY <1>1, <1>2, FileNames DEF StartInv, WholeOf
  <2>5. StartInv(s)'
    BY <1>1, <2>1, <2>3, <2>4 DEF StartInv, WholeOf
  <2>6. AgentInv(s)'
    BY <1>1, <1>2, <2>1, <2>3, <2>4 DEF AgentInv
  <2>7. TestInv(s)'
    BY <2>1, <2>3 DEF TestInv
  <2> QED
    BY <1>1, <2>1, <2>2, <2>5, <2>6, <2>7, HistoryKept, StepKeeps DEF Does
<1>4. CASE runner \notin Builds
  BY <1>1, <1>4, HistoryKept, Stops
<1> QED
  BY <1>3, <1>4

LEMMA LoadToolsInv ==
  ASSUME IInv, NEW s \in Shells, LoadTools(s)
  PROVE  IInv'
<1> DEFINE offers == disk["tools.json"]
           shell == [shells[s] EXCEPT !.does = "agent", !.offers = offers]
<1>1. /\ shells[s].does = "load" /\ UNCHANGED <<disk, settled, sent, unmet>>
      /\ Steps(s, IF offers \in Builds THEN shell ELSE Idle)
  BY DEF LoadTools, Steps
<1>2. SettledInv /\ StartInv(s) /\ AgentInv(s) /\ DOMAIN shells[s] = FieldsOf("load")
  BY <1>1 DEF IInv, ShellInv, ShapeInv
<1>3. CASE offers \in Builds
  <2>1. /\ shell.does = "agent" /\ shell.offers = offers /\ shell.runner = shells[s].runner
        /\ shell.steady = shells[s].steady /\ shell.warned = shells[s].warned
        /\ DOMAIN shell = FieldsOf(shell.does)
    BY <1>2 DEF FieldsOf
  <2>2. Steps(s, shell)
    BY <1>1, <1>3
  <2> HIDE DEF shell
  <2>3. shells'[s] = shell
    BY <2>2 DEF Steps, IInv, ShapeInv
  <2>4. shells[s].steady => offers = shells[s].offers
    BY <1>1, <1>2, FileNames DEF StartInv, WholeOf
  <2>5. AgentInv(s)'
    BY <1>1, <1>2, <1>3, <2>1, <2>3, <2>4 DEF AgentInv
  <2>6. StartInv(s)' /\ TestInv(s)'
    BY <2>1, <2>3 DEF StartInv, TestInv
  <2> QED
    BY <1>1, <2>1, <2>2, <2>5, <2>6, HistoryKept, StepKeeps DEF Does
<1>4. CASE offers \notin Builds
  BY <1>1, <1>4, HistoryKept, Stops
<1> QED
  BY <1>3, <1>4

LEMMA AgentCallInv ==
  ASSUME IInv, NEW s \in Shells, AgentCall(s)
  PROVE  IInv'
<1>1. PICK call \in Calls(Built[shells[s].offers]) :
        unmet' = IF Knows(Built[shells[s].runner], call.name, call.required) THEN unmet
                 ELSE unmet \cup {[steady |-> shells[s].steady, warned |-> shells[s].warned]}
  BY DEF AgentCall
<1>2. /\ shells[s].does = "agent" /\ UNCHANGED <<disk, settled, sent>>
      /\ Steps(s, Idle) \/ UNCHANGED shells
      /\ HistoryInv /\ AgentInv(s)
  BY DEF AgentCall, Steps, IInv, ShellInv
<1>3. ASSUME NEW c \in unmet', c.steady PROVE c.warned
  <2>1. CASE c \in unmet
    BY <2>1, <1>2, <1>3 DEF HistoryInv
  <2>2. CASE c \notin unmet
    <3>1. /\ c = [steady |-> shells[s].steady, warned |-> shells[s].warned]
          /\ ~Knows(Built[shells[s].runner], call.name, call.required)
      BY <2>2, <1>1, <1>3
    <3>2. /\ shells[s].runner = shells[s].offers /\ shells[s].offers \in Builds
          /\ ReportsDuplicates(Built[shells[s].offers]) => shells[s].warned
      BY <3>1, <1>2, <1>3 DEF AgentInv
    <3>3. ReportsDuplicates(Built[shells[s].offers])
      BY <3>1, <3>2, <1>1, OffersAreKnown
    <3> QED
      BY <3>1, <3>2, <3>3
  <2> QED
    BY <2>1, <2>2
<1>4. HistoryInv'
  BY <1>2, <1>3 DEF HistoryInv, WritesAreConsented
<1>5. CASE Steps(s, Idle)
  BY <1>5, <1>2, <1>4, Stops
<1>6. CASE UNCHANGED shells
  BY <1>6, <1>2, <1>4 DEF IInv, ShapeInv, SettledInv, ShellInv, GenerateInv, TestInv, StartInv, AgentInv, WholeOf
<1> QED
  BY <1>2, <1>5, <1>6

--------------------------------------------------------------------------------
\* Generations.

\* A generation that runs alone or not leaves no other shell steady on the files.
LEMMA NothingSteady ==
  ASSUME IInv, NEW s \in Shells, shells[s].does = "generate"
  PROVE  /\ ~settled
         /\ \A t \in Shells : shells[t].does \in {"test", "start", "load"} => ~shells[t].steady
         /\ shells[s].alone => \A t \in Shells : shells[t].does = "generate" => t = s
         /\ shells[s].build \in Builds /\ shells[s].next \in 1..9 /\ shells[s].alone \in BOOLEAN
BY FileNames DEF IInv, ShellInv, GenerateInv, TestInv, StartInv

\* So a step of it disturbs none of them.
LEMMA OthersKept ==
  ASSUME IInv, NEW s \in Shells, shells[s].does = "generate", NEW shell, Steps(s, shell),
         NEW t \in Shells, t # s, UNCHANGED settled \/ (settled' = shells[s].alone /\ shell = Idle)
  PROVE  ShellInv(t)'
<1>1. /\ ~settled /\ (shells[t].does \in {"test", "start", "load"} => ~shells[t].steady)
      /\ shells[s].alone \in BOOLEAN
      /\ shells[t].does = "generate" => ~shells[s].alone /\ ~shells[t].alone
  <2>1. GenerateInv(t)
    BY DEF IInv, ShellInv
  <2> QED
    BY <2>1, NothingSteady DEF GenerateInv
<1>2. shells'[t] = shells[t]
  BY DEF Steps, IInv, ShapeInv
<1>3. GenerateInv(t) /\ TestInv(t) /\ StartInv(t) /\ AgentInv(t)
  BY DEF IInv, ShellInv
<1>4. GenerateInv(t)'
  BY <1>1, <1>2, <1>3 DEF GenerateInv
<1>5. TestInv(t)'
  BY <1>1, <1>2, <1>3 DEF TestInv
<1>6. StartInv(t)' /\ AgentInv(t)'
  BY <1>1, <1>2, <1>3 DEF StartInv, AgentInv
<1> QED
  BY <1>4, <1>5, <1>6 DEF ShellInv

LEMMA WriteFileInv ==
  ASSUME IInv, NEW s \in Shells, WriteFile(s)
  PROVE  IInv'
<1> DEFINE n == shells[s].next
           b == shells[s].build
<1>1. /\ shells[s].does = "generate" /\ disk' = [disk EXCEPT ![Files[n]] = b] /\ UNCHANGED <<sent, unmet>>
      /\ ShapeInv /\ GenerateInv(s)
  BY DEF WriteFile, IInv, ShellInv
<1>2. ~settled /\ b \in Builds /\ n \in 1..9 /\ shells[s].alone \in BOOLEAN
  BY <1>1, NothingSteady
<1>3. DOMAIN disk' = Range(Files) /\ disk'[Files[n]] = b /\ \A f \in Range(Files) : disk'[f] \in {b, disk[f]}
  BY <1>1, <1>2, FileNames DEF ShapeInv
<1>4. shells[s].alone => \A i \in 1..n : disk'[Files[i]] = b
  <2>1. ASSUME shells[s].alone, NEW i \in 1..n PROVE disk'[Files[i]] = b
    <3>1. i = n \/ i \in 1..(n - 1)
      BY <1>2
    <3>2. i \in 1..(n - 1) => disk[Files[i]] = b
      BY <1>1, <2>1 DEF GenerateInv
    <3>3. Files[i] \in Range(Files)
      BY <1>2, FileNames
    <3> QED
      BY <3>1, <3>2, <3>3, <1>3
  <2> QED
    BY <2>1
<1>5. CASE n = Len(Files)
  <2>1. Steps(s, Idle) /\ settled' = shells[s].alone
    BY <1>5 DEF WriteFile, Steps
  <2>2. shells'[s] = Idle /\ DOMAIN shells' = Shells /\ \A t \in Shells : t # s => shells'[t] = shells[t]
    BY <2>1, <1>1 DEF Steps, ShapeInv
  <2>3. Idle.does = "nothing" /\ DOMAIN Idle = FieldsOf("nothing")
    BY DEF Idle, FieldsOf
  <2>4. ShapeInv'
    BY <2>1, <2>2, <2>3, <1>1, <1>2, <1>3 DEF ShapeInv, Does
  <2>5. SettledInv'
    BY <2>1, <1>2, <1>4, <1>5, FileNames DEF SettledInv, WholeOf
  <2>6. ShellInv(s)'
    BY <2>2, <2>3 DEF ShellInv, GenerateInv, TestInv, StartInv, AgentInv
  <2>7. \A t \in Shells : t # s => ShellInv(t)'
    BY <2>1, <1>1, OthersKept
  <2> QED
    BY <2>4, <2>5, <2>6, <2>7, <1>1, HistoryKept DEF IInv
<1>6. CASE n # Len(Files)
  <2> DEFINE shell == [shells[s] EXCEPT !.next = n + 1]
  <2>1. Steps(s, shell) /\ UNCHANGED settled
    BY <1>6 DEF WriteFile, Steps
  <2>2. DOMAIN shells[s] = FieldsOf("generate")
    BY <1>1 DEF ShapeInv
  <2>3. /\ shell.does = "generate" /\ shell.build = b /\ shell.next = n + 1 /\ shell.alone = shells[s].alone
        /\ DOMAIN shell = FieldsOf("generate")
    BY <2>2, <1>1 DEF FieldsOf
  <2> HIDE DEF shell
  <2>4. shells'[s] = shell /\ DOMAIN shells' = Shells /\ \A t \in Shells : t # s => shells'[t] = shells[t]
    BY <2>1, <1>1 DEF Steps, ShapeInv
  <2>5. ShapeInv'
    BY <2>1, <2>3, <2>4, <1>1, <1>3 DEF ShapeInv, Does
  <2>6. SettledInv'
    BY <2>1, <1>2 DEF SettledInv
  <2>7. GenerateInv(s)'
    <3>1. n + 1 \in 1..Len(Files) /\ (n + 1) - 1 = n
      BY <1>2, <1>6, FileNames
    <3>2. shells[s].alone => \A t \in Shells : shells'[t].does = "generate" => t = s
      BY <2>4, <1>1 DEF GenerateInv
    <3> QED
      BY <3>1, <3>2, <2>1, <2>3, <2>4, <1>2, <1>4 DEF GenerateInv
  <2>8. TestInv(s)' /\ StartInv(s)' /\ AgentInv(s)'
    BY <2>3, <2>4 DEF TestInv, StartInv, AgentInv
  <2>9. \A t \in Shells : t # s => ShellInv(t)'
    BY <2>1, <1>1, OthersKept
  <2> QED
    BY <2>5, <2>6, <2>7, <2>8, <2>9, <1>1, HistoryKept DEF IInv, ShellInv
<1> QED
  BY <1>5, <1>6

LEMMA InterruptInv ==
  ASSUME IInv, NEW s \in Shells, Interrupt(s)
  PROVE  IInv'
<1>1. /\ shells[s].does = "generate" /\ Steps(s, Idle) /\ UNCHANGED <<settled, sent, unmet>>
      /\ ShapeInv /\ DOMAIN disk' = DOMAIN disk
  BY DEF Interrupt, Steps, IInv, ShapeInv
<1>2. ~settled
  BY <1>1, NothingSteady
<1>3. shells'[s] = Idle /\ DOMAIN shells' = Shells /\ \A t \in Shells : t # s => shells'[t] = shells[t]
  BY <1>1 DEF Steps, ShapeInv
<1>4. Idle.does = "nothing" /\ DOMAIN Idle = FieldsOf("nothing")
  BY DEF Idle, FieldsOf
<1>5. ShapeInv'
  BY <1>1, <1>3, <1>4 DEF ShapeInv, Does
<1>6. SettledInv'
  BY <1>1, <1>2 DEF SettledInv
<1>7. ShellInv(s)'
  BY <1>3, <1>4 DEF ShellInv, GenerateInv, TestInv, StartInv, AgentInv
<1>8. \A t \in Shells : t # s => ShellInv(t)'
  BY <1>1, OthersKept
<1> QED
  BY <1>1, <1>5, <1>6, <1>7, <1>8, HistoryKept DEF IInv

\* A shell that was disturbed knows what it knew, and is alone or steady no more.
KnowsAs(old, new) ==
  /\ new.does = old.does /\ DOMAIN new = DOMAIN old
  /\ old.does = "generate" => new.alone = FALSE /\ new.build = old.build /\ new.next = old.next
  /\ old.does \in {"test", "start", "load"} => new.steady = FALSE
  /\ old.does = "test" => new.allow = old.allow /\ new.decided = old.decided /\ new.name = old.name
  /\ old.does \in {"start", "load"} => new.offers = old.offers /\ new.warned = old.warned
  /\ old.does \in {"nothing", "agent"} => new = old

LEMMA DisturbedShell ==
  ASSUME NEW shell, shell.does \in Does, DOMAIN shell = FieldsOf(shell.does)
  PROVE  KnowsAs(shell, Disturbed(shell))
<1>1. CASE shell.does = "generate"
  BY <1>1 DEF Disturbed, FieldsOf, KnowsAs
<1>2. CASE shell.does = "test"
  BY <1>2 DEF Disturbed, FieldsOf, KnowsAs
<1>3. CASE shell.does = "start"
  BY <1>3 DEF Disturbed, FieldsOf, KnowsAs
<1>4. CASE shell.does = "load"
  BY <1>4 DEF Disturbed, FieldsOf, KnowsAs
<1>5. CASE shell.does \in {"nothing", "agent"}
  BY <1>5 DEF Disturbed, KnowsAs
<1> QED
  BY <1>1, <1>2, <1>3, <1>4, <1>5 DEF Does

LEMMA GenerateKeeps ==
  ASSUME IInv, NEW s \in Shells, Generate(s)
  PROVE  IInv'
<1>1. PICK b \in Builds :
        shells' = [t \in Shells |->
          IF t = s THEN [does |-> "generate", build |-> b, next |-> 1, alone |-> Generating = {}]
                   ELSE Disturbed(shells[t])]
  BY DEF Generate
<1>2. settled' = FALSE /\ UNCHANGED <<disk, sent, unmet>> /\ ShapeInv
  BY DEF Generate, IInv
<1>3. ASSUME NEW t \in Shells, t # s
      PROVE  /\ KnowsAs(shells[t], shells'[t])
             /\ shells[t].does \in Does /\ DOMAIN shells[t] = FieldsOf(shells[t].does)
  <2>1. shells'[t] = Disturbed(shells[t])
    BY <1>1, <1>3
  <2>2. shells[t].does \in Does /\ DOMAIN shells[t] = FieldsOf(shells[t].does)
    BY <1>2 DEF ShapeInv
  <2> QED
    BY <2>1, <2>2, DisturbedShell
<1>4. /\ shells'[s].does = "generate" /\ shells'[s].build = b /\ shells'[s].next = 1
      /\ shells'[s].alone = (Generating = {}) /\ DOMAIN shells'[s] = FieldsOf("generate")
  BY <1>1 DEF FieldsOf
<1>5. DOMAIN shells' = Shells
  BY <1>1
<1>6. ShapeInv'
  <2>1. ASSUME NEW t \in Shells
        PROVE  shells'[t].does \in Does /\ DOMAIN shells'[t] = FieldsOf(shells'[t].does)
    <3>1. CASE t = s
      BY <3>1, <1>4 DEF Does
    <3>2. CASE t # s
      BY <3>2, <1>3 DEF KnowsAs
    <3> QED
      BY <3>1, <3>2
  <2> QED
    BY <2>1, <1>2, <1>5 DEF ShapeInv
<1>7. SettledInv'
  BY <1>2 DEF SettledInv
<1>8. ShellInv(s)'
  <2>1. Generating = {} => \A t \in Shells : shells'[t].does = "generate" => t = s
    BY <1>3 DEF Generating, KnowsAs
  <2>2. shells'[s].alone \in BOOLEAN /\ (shells'[s].alone => Generating = {})
    BY <1>4
  <2>3. 1 \in 1..Len(Files) /\ 1..(1 - 1) = {}
    BY FileNames
  <2>4. GenerateInv(s)'
    BY <2>1, <2>2, <2>3, <1>2, <1>4 DEF GenerateInv
  <2> QED
    BY <2>4, <1>4 DEF ShellInv, TestInv, StartInv, AgentInv
<1>9. ASSUME NEW t \in Shells, t # s PROVE ShellInv(t)'
  <2>1. /\ GenerateInv(t) /\ TestInv(t) /\ StartInv(t) /\ AgentInv(t)
        /\ KnowsAs(shells[t], shells'[t])
    BY <1>3, <1>9 DEF IInv, ShellInv
  <2>2. GenerateInv(t)'
    BY <2>1, <1>2 DEF GenerateInv, KnowsAs
  <2>3. TestInv(t)'
    BY <2>1 DEF TestInv, KnowsAs
  <2>4. StartInv(t)'
    BY <2>1 DEF StartInv, KnowsAs
  <2>5. AgentInv(t)'
    BY <2>1 DEF AgentInv, KnowsAs
  <2> QED
    BY <2>2, <2>3, <2>4, <2>5 DEF ShellInv
<1> QED
  BY <1>2, <1>6, <1>7, <1>8, <1>9, HistoryKept DEF IInv

--------------------------------------------------------------------------------
\* The theorems.

LEMMA InitInv == Init => IInv
<1> SUFFICES ASSUME Init PROVE IInv
  OBVIOUS
<1>1. Idle.does = "nothing" /\ DOMAIN Idle = FieldsOf("nothing")
  BY DEF Idle, FieldsOf
<1>2. \A s \in Shells : shells[s] = Idle
  BY DEF Init
<1>3. ShapeInv
  BY <1>1, <1>2 DEF Init, ShapeInv, Does
<1>4. SettledInv /\ HistoryInv
  BY DEF Init, SettledInv, HistoryInv, WritesAreConsented
<1>5. \A s \in Shells : ShellInv(s)
  BY <1>1, <1>2 DEF ShellInv, GenerateInv, TestInv, StartInv, AgentInv
<1> QED
  BY <1>3, <1>4, <1>5 DEF IInv

LEMMA NextInv == IInv /\ [Next]_vars => IInv'
<1> SUFFICES ASSUME IInv, [Next]_vars PROVE IInv'
  OBVIOUS
<1>1. CASE UNCHANGED vars
  BY <1>1 DEF vars, IInv, ShapeInv, SettledInv, HistoryInv, WritesAreConsented,
              ShellInv, GenerateInv, TestInv, StartInv, AgentInv, WholeOf
<1>2. ASSUME NEW s \in Shells,
             \/ Generate(s) \/ WriteFile(s) \/ Interrupt(s) \/ TestTool(s) \/ TestScript(s) \/ RunTest(s)
             \/ StartAgent(s) \/ ImportRunner(s) \/ LoadTools(s) \/ AgentCall(s)
      PROVE  IInv'
  BY <1>2, GenerateKeeps, WriteFileInv, InterruptInv, TestToolInv, TestScriptInv, RunTestInv,
     StartAgentInv, ImportRunnerInv, LoadToolsInv, AgentCallInv
<1> QED
  BY <1>1, <1>2 DEF Next

\* What every command under way has read still holds of the files.
THEOREM Invariant == Spec => []IInv
BY InitInv, NextInv, PTL DEF Spec

\* Whatever generations, interrupts and tests run side by side, and however
\* many: a test without --allow-write writes to the provider only where
\* runner.py is of another build than the file that decided, on files of a
\* generation that was interrupted, overlapped or still at work, or where two
\* tools of the runner's build share a name, of which diagnose warns.
THEOREM TestsWriteWithConsent == Spec => []WritesAreConsented
<1>1. IInv => WritesAreConsented
  BY DEF IInv, HistoryInv
<1> QED
  BY <1>1, Invariant, PTL

\* A generation that ended alone leaves a package of one build, whose scripts
\* fit its tools; and agents that were started on one are offered nothing that
\* their runner does not know.
THEOREM PackagesAreWhole == Spec => []PackageHoldsTogether
<1>1. ASSUME IInv PROVE PackageHoldsTogether
  <2>1. ASSUME settled
        PROVE  /\ \A f, g \in Range(Files) : disk[f] = disk[g]
               /\ <<disk["smoke_test.py"], disk["tools.json"]>> \in Fitting
    <3>1. PICK b \in Builds : WholeOf(b) /\ disk["smoke_test.py"] = b /\ disk["tools.json"] = b
      BY <1>1, <2>1, WholePackage DEF IInv
    <3>2. <<b, b>> \in Fitting
      BY PackageShape
    <3> QED
      BY <3>1, <3>2 DEF WholeOf
  <2> QED
    BY <2>1, <1>1 DEF IInv, HistoryInv, PackageHoldsTogether
<1> QED
  BY <1>1, Invariant, PTL
================================================================================
