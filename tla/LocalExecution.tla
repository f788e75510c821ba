----------------------------- MODULE LocalExecution -----------------------------
(***************************************************************************)
(* The Python plane at work: processes that call a capability              *)
(* (capabilities/execution.py, sdk.py, the call command of cli.py), the    *)
(* proxy (control/proxy.py) with one thread for each request, the usage    *)
(* store all of them share, and an operator who replays recorded calls     *)
(* (replay.py), by the proxy when the environment has one, and marks       *)
(* golden traces.                                                          *)
(*                                                                         *)
(* A step of this module is what happens between two points where another  *)
(* process or thread can come in: a transaction of the store, a request to *)
(* a provider, a wait for the proxy. A process may die at any step, a      *)
(* write to the store may fail, and a caller may stop waiting while the    *)
(* proxy goes on.                                                          *)
(*                                                                         *)
(* One capability, one project; a provider has one tool. contacts and      *)
(* cause are history: every request that reached a provider, and for each  *)
(* row of the ledger the contact it accounts for.                          *)
(***************************************************************************)
EXTENDS Runner, UsageStore

CONSTANTS
  Callers,        \* processes that make one call each
  Registry,       \* the providers' candidates, in the order of the registry
  Package,        \* provider -> its package
  Declared,       \* provider -> metadata.credential, or NoCredential
  Mapped,         \* provider -> whether it has an output_mapping
  Duration,       \* provider -> milliseconds of an answer
  Adapters,       \* the SDK's adapters, in order
  Workloads,      \* sets of calls: caller -> the call's arguments and environment
  Outcomes,       \* provider -> what contacting it may come to
  Environ,        \* variables with secrets, in the callers' environment
  ProxyEnviron,   \* and in the proxy's
  ProxyConfig,    \* the proxy's credential config
  Operator,       \* who replays: no caller
  OperatorEnviron, \* the environments replays run in: [proxyUrl, baseUrl, key]
  PackageName,    \* provider -> [capability, provider], what its package goes by outside a call
  ApiKey,         \* whether the proxy asks for a key
  Quota,          \* the proxy's quota, or NoLimit
  MaxFaults,      \* bound: processes, threads and writes that fail
  MaxCommands,    \* bound: replays and golden marks
  MaxBusy         \* bound: calls under way while there is one

Capability == "capability"
Project    == "local"
Tool(p)    == <<p, "tool">>

Providers == {Registry[i].id : i \in DOMAIN Registry}
CandidateOf(p) == Registry[CHOOSE i \in DOMAIN Registry : Registry[i].id = p]

ASSUME ShapeAssumption ==
  /\ \A p \in Providers : /\ Package[p].problem \in {"none", "missing_package_dir", "missing_runner"}
                          /\ ValidDefinition(Declared[p])
  /\ \A p \in Providers : \A o \in Outcomes[p] : o.ok => o.error = NoError
  /\ \A w \in Workloads : \A c \in Callers : w[c].limit \in Int
  /\ {MaxFaults, MaxCommands, MaxBusy} \subseteq Nat /\ Quota \in Int
  /\ Operator \notin Callers
  /\ \A env \in OperatorEnviron : env.proxyUrl \in {"unset", "url"} /\ env.baseUrl \in Bases

\* A provider has one tool, and is in the registry once; the SDK's adapters
\* are the keys of a dict.
ASSUME RegistryAssumption ==
  /\ Registry \in Seq(Range(Registry)) /\ Adapters \in Seq(Range(Adapters)) /\ IsInjective(Adapters)
  /\ \A i, j \in DOMAIN Registry : Registry[i].id = Registry[j].id => i = j

\* The parsers make the only credential of an auth from the auth itself
\* (_select_auth): it names a variable, a bearer token goes into the header
\* Authorization, and a key into a header, the query or a cookie.
ASSUME AuthAssumption ==
  \A p \in Providers :
    LET auth == Package[p].auth
        key  == auth.credentials[1]
    IN  auth.type \in {"api_key", "bearer"} /\ Len(auth.credentials) = 1 =>
          /\ auth.credentials = <<key>> /\ key.type = auth.type /\ key.env # NoName
          /\ IF key.type = "bearer" THEN key.location = "authorization" /\ key.name = "Authorization"
             ELSE key.location \in {"header", "query", "cookie"}

VARIABLES
  events,      \* the table usage_events
  decisions,   \* the table routing_decisions
  call,        \* what each caller is doing
  handlers,    \* the proxy's threads, in the order the requests came
  peak,        \* history: the most threads the quota had let pass at once
  contacts,    \* history: requests that reached a provider
  cause,       \* history: row -> contact
  faults,      \* faults so far
  commands     \* replays and golden marks so far

store  == <<events, cause>>
vars   == <<events, decisions, call, handlers, peak, contacts, cause, faults, commands>>

--------------------------------------------------------------------------------
\* A result, as execute_tool, the proxy or an adapter answers it. `known` is
\* whether it has a method and a path; `contact` is history.
Result(ok, error, status) ==
  [ok |-> ok, error |-> error, status |-> status, unmapped |-> FALSE, known |-> TRUE,
   reference |-> <<"none">>, credential |-> NoCredential, contact |-> 0]
Failure(error) == Result(FALSE, error, NoStatus)
NoResult == Failure("none")

\* Mutant: any answer is taken for a success.
Bug_AnyAnswerIsSuccess(outcome) ==
  IF outcome.status # NoStatus THEN [Result(TRUE, NoError, outcome.status) EXCEPT !.unmapped = outcome.unmapped]
  ELSE Failure("http_error")

\* What an HTTP client makes of an outcome: every error of the transport is
\* an httpx.HTTPError.
HttpResult(outcome) ==
  IF outcome.ok THEN [Result(TRUE, NoError, outcome.status) EXCEPT !.unmapped = outcome.unmapped]
  ELSE IF outcome.status # NoStatus THEN Result(FALSE, "http_status", outcome.status)
  ELSE Failure("http_error")

\* And what an adapter makes of it, normalization included.
AdapterResult(outcome) ==
  IF outcome.ok THEN IF outcome.unmapped THEN Result(FALSE, "NORMALIZATION_ERROR", outcome.status)
                     ELSE Result(TRUE, NoError, outcome.status)
  ELSE IF outcome.status # NoStatus
    THEN Result(FALSE, ErrorTypeForStatus(outcome.status), outcome.status)
  ELSE Failure(IF outcome.error = "timeout" THEN "TIMEOUT" ELSE "PROVIDER_ERROR")

\* The names a request for p goes by at the proxy: a call's, or those of the
\* package, with no decision.
CallNames(decision, p) == [decision |-> decision, capability |-> Capability, provider |-> p]
OwnNames(p) == [decision |-> 0, capability |-> PackageName[p].capability, provider |-> PackageName[p].provider]

\* A request reaches p. `decision` and `provider` say what it is for, `as`
\* says what the proxy takes it for.
Reaches(decision, p, as, entry, slots, outcome, twice) ==
  contacts' = Append(contacts, [decision |-> decision, provider |-> p, as |-> as, entry |-> entry,
                                slots |-> slots, ok |-> outcome.ok, twice |-> twice])

RecordRow(row, contact) ==
  /\ events' = Record(events, row)
  /\ cause' = Append(cause, contact)

\* The row of an attempt at p, with what all writers put in it alike.
Row(decision, mode, p, r, params) ==
  [NoEvent EXCEPT !.decision = decision, !.mode = mode, !.project = Project,
     !.capability = Capability, !.provider = p, !.tool = Tool(p), !.status = r.status,
     !.success = r.ok, !.error = r.error, !.reference = r.reference,
     !.latency = IF r.contact = 0 THEN 0 ELSE Duration[p],
     !.metadata = [kind |-> "call", credential |-> r.credential, params |-> params]]

--------------------------------------------------------------------------------
\* One call.
NoCall == [pc |-> "idle", options |-> <<>>, ranked |-> <<>>, policy |-> FailoverPolicy(FALSE, 0),
           decision |-> 0, phase |-> "main", turn |-> 1, result |-> NoResult,
           handler |-> 0, tries |-> <<>>, ok |-> FALSE]

Ended == {"done", "refused", "raised"}

Init ==
  /\ events = <<>> /\ cause = <<>> /\ decisions = <<>>
  /\ \E w \in Workloads : call = [c \in Callers |-> [NoCall EXCEPT !.options = w[c]]]
  /\ handlers = <<>> /\ peak = 0
  /\ contacts = <<>> /\ faults = 0 /\ commands = 0

UnderWay(c) == call[c].pc \notin {"idle"} \cup Ended
Is(c, step) == call[c].pc = step
Set(c, new) == call' = [call EXCEPT ![c] = new]

IsSdk(o) == o.entry = "sdk"
Candidates(o) ==
  IF ~IsSdk(o) THEN Registry
  ELSE LET ids == IF o.provider # "any" THEN <<o.provider>> ELSE Adapters
       IN  [i \in DOMAIN ids |-> [id |-> ids[i], cost |-> Zero, regions |-> <<>>, geo |-> "unknown"]]

\* provider_package_warnings: the call command refuses a registry with a
\* package it cannot load.
PackageErrors == {p \in Providers : Package[p].problem # "none"}

\* The SDK refuses a provider that it has no adapter for.
Refuses(o) == \/ o.entry = "cli" /\ PackageErrors # {}
              \/ IsSdk(o) /\ o.provider \notin {"any"} \cup Range(Adapters)

Policy(o, count) ==
  IF IsSdk(o) THEN BuildSdkFailoverPolicy(o.failover, count, o.limit, o.codes, {})
  ELSE BuildFailoverPolicy(o.failover, count, o.limit, o.codes)

\* Read the metrics, rank the candidates, decide how often to try.
Start(c) ==
  /\ Is(c, "idle")
  /\ LET o       == call[c].options
         metrics == MetricsForCapability(events, Capability, o.includeShadow, FALSE, o.policy.region)
         ranked  == IF IsSdk(o) /\ o.provider # "any" THEN Candidates(o)
                    ELSE RankProviders(Candidates(o), metrics, o.policy)
     IN  IF Refuses(o) THEN Set(c, [call[c] EXCEPT !.pc = "refused"])
         ELSE Set(c, [call[c] EXCEPT !.pc = "routed", !.policy = Policy(o, Len(ranked)),
                                     !.ranked = [i \in DOMAIN ranked |-> ranked[i].id]])
  /\ UNCHANGED <<events, decisions, handlers, peak, contacts, cause, faults, commands>>

\* record_routing_decision. When nobody was selected nothing is called, and
\* the SDK raises.
RecordDecision(c) ==
  LET k == call[c]
  IN  /\ Is(c, "routed")
      /\ decisions' = Append(decisions, [strategy |-> k.options.policy.strategy, ranked |-> k.ranked])
      /\ Set(c, [k EXCEPT !.pc = IF k.ranked # <<>> THEN "attempt"
                                 ELSE IF IsSdk(k.options) THEN "raised" ELSE "done",
                          !.decision = Len(decisions')])
      /\ UNCHANGED <<events, handlers, peak, contacts, cause, faults, commands>>

\* How many of the ranked providers it may try, and who is run in shadow.
Attempts(k)  == IF k.policy.enabled THEN Min({k.policy.maxAttempts, Len(k.ranked)}) ELSE 1
ShadowIds(k) == IF k.options.shadowIds # <<>> THEN k.options.shadowIds
                ELSE IF k.options.shadow THEN k.ranked ELSE <<>>
Current(k)   == (IF k.phase = "main" THEN k.ranked ELSE ShadowIds(k))[k.turn]

\* _credential_definition: what the registry declares, or the package's
\* auth, as a header, whatever place the package names for it.
CredentialDefinitionOf(p) ==
  LET auth == Package[p].auth
      key  == Head(auth.credentials)
  IN  IF Declared[p] # NoCredential THEN Declared[p]
      ELSE IF auth.type \in {"none", "unknown"} \/ key.env = NoName THEN NoCredential
      ELSE [NoCredential EXCEPT
              !.id = <<p, key.env>>, !.owner = Project, !.ownerType = "project",
              !.provider = p, !.source = "env", !.ref = key.env, !.mode = "header",
              !.authType = IF auth.type = "bearer" THEN "bearer" ELSE "api_key",
              !.name = IF key.location = "header" /\ key.name # NoName THEN key.name
                       ELSE IF auth.type = "bearer" THEN "Authorization" ELSE "X-API-Key"]

ProxyUrl(o) == IF o.proxyUrl = "url" THEN "url" ELSE o.ambient

\* _execute_provider up to the request: the failures that stop it, or how
\* the runner sends it.
Prepare(o, p) ==
  LET verdict == Resolve(<<>>, RequestFor(Project, Capability, p, Tool(p), CredentialDefinitionOf(p)),
                         Environ)
      stopped(error, known, reference, c) ==
        [sent |-> Stops(error), result |-> [Failure(error) EXCEPT !.known = known,
                                              !.reference = reference, !.credential = c]]
      tool == ExecuteTool(Package[p], p, Project, o.params, Environ, ProxyUrl(o), o.baseUrl,
                          Injecting(verdict.patch))
  IN  IF p \in PackageErrors THEN stopped(Package[p].problem, FALSE, <<>>, NoCredential)
      ELSE IF ~verdict.resolved
        THEN stopped(verdict.error, Package[p].tool.known, verdict.reference, verdict.metadata)
        ELSE [sent   |-> tool,
                   result |-> [Failure(tool.error) EXCEPT !.known = Package[p].tool.known,
                                 !.reference = verdict.reference, !.credential = verdict.metadata]]

--------------------------------------------------------------------------------
\* The steps of an attempt.

\* The provider cannot be called, or is called from this process.
AttemptHere(c) ==
  LET k == call[c]
      p == Current(k)
      ready == Prepare(k.options, p)
  IN  /\ Is(c, "attempt") /\ ~IsSdk(k.options)
      /\ \/ /\ ready.sent.kind = "error"
            /\ Set(c, [k EXCEPT !.pc = "called", !.result = ready.result])
            /\ UNCHANGED contacts
         \/ /\ ready.sent.kind = "http"
            /\ \E outcome \in Outcomes[p] :
                 /\ Reaches(k.decision, p, CallNames(k.decision, p), "direct", ready.sent.slots, outcome, FALSE)
                 /\ Set(c, [k EXCEPT !.pc = "called",
                              !.result = [HttpResult(outcome) EXCEPT !.contact = Len(contacts'),
                                            !.reference = ready.result.reference,
                                            !.credential = ready.result.credential]])
      /\ UNCHANGED <<events, decisions, handlers, peak, cause, faults, commands>>

\* _proxy_call: only the first credential the tool needs is sent along.
AttemptByProxy(c) ==
  LET k == call[c]
      p == Current(k)
      ready == Prepare(k.options, p)
  IN  /\ Is(c, "attempt") /\ ~IsSdk(k.options)
      /\ ready.sent.kind = "proxy"
      /\ handlers' = Append(handlers,
           [pc |-> "received", caller |-> c, decision |-> k.decision, provider |-> p,
            as |-> CallNames(k.decision, p), credential |-> ready.sent.credential,
            key |-> k.options.key, twice |-> k.options.proxyUrl # "url",
            slots |-> {}, result |-> NoResult, source |-> <<>>])
      /\ Set(c, [k EXCEPT !.pc = "waiting", !.handler = Len(handlers'), !.result = ready.result])
      /\ UNCHANGED <<events, decisions, peak, contacts, cause, faults, commands>>

\* An SDK adapter wants its input first.
AttemptByAdapter(c) ==
  LET k == call[c]
      p == Current(k)
      After(r) == Set(c, [k EXCEPT !.pc = "called",
                                   !.result = [r EXCEPT !.reference = <<>>]])
  IN  /\ Is(c, "attempt") /\ IsSdk(k.options)
      /\ \/ /\ k.options.params = {}
            /\ After(Failure("INVALID_REQUEST"))
            /\ UNCHANGED contacts
         \/ /\ k.options.params # {}
            /\ \E outcome \in Outcomes[p] :
                 /\ Reaches(k.decision, p, CallNames(k.decision, p), "direct", {}, outcome, FALSE)
                 /\ After([AdapterResult(outcome) EXCEPT !.contact = Len(contacts')])
      /\ UNCHANGED <<events, decisions, handlers, peak, cause, faults, commands>>

\* The proxy's answer, with the credential the caller's side resolved.
TakeAnswer(c) ==
  LET k == call[c]
  IN  /\ Is(c, "waiting")
      /\ handlers[k.handler].pc = "answered"
      /\ Set(c, [k EXCEPT !.pc = "called",
                   !.result = [handlers[k.handler].result EXCEPT
                                 !.known = k.result.known, !.reference = k.result.reference,
                                 !.credential = k.result.credential]])
      /\ UNCHANGED <<events, decisions, handlers, peak, contacts, cause, faults, commands>>

\* Mutant: a closed connection goes unnoticed, and there is no timeout.
Bug_NoTimeout(c) == Is(c, "waiting") /\ handlers[call[c].handler].pc = "answered" /\ FALSE /\ UNCHANGED vars

\* No answer in 25 seconds, or the connection was closed without one.
GiveUp(c) ==
  LET k == call[c]
  IN  /\ Is(c, "waiting")
      /\ handlers[k.handler].pc # "answered"
      /\ Set(c, [k EXCEPT !.pc = "called",
                   !.result = [Failure("proxy_error") EXCEPT
                                 !.known = k.result.known, !.reference = k.result.reference,
                                 !.credential = k.result.credential]])
      /\ UNCHANGED <<events, decisions, handlers, peak, contacts, cause, faults, commands>>

\* Mutant: everybody is run in shadow, also who was tried.
Bug_ShadowTheTried(k, p) ==
  IsSdk(k.options) \/ (k.options.proxyUrl # "url" /\ p \in Providers)

\* Who is passed over as a shadow: who was tried, and everyone without a
\* candidate. The SDK leaves out everyone it would have tried; through the
\* proxy nobody is run.
MayShadow(k, p) ==
  IF IsSdk(k.options) THEN \A i \in 1..Attempts(k) : k.ranked[i] # p
  ELSE /\ k.options.proxyUrl # "url" /\ p \in Providers
       /\ \A i \in DOMAIN k.tries : k.tries[i].main => k.tries[i].provider # p

\* The next shadow from position `from` on, or the end. The SDK raises at a
\* shadow provider it has no adapter for.
NextShadow(k, from) ==
  LET left == {i \in from..Len(ShadowIds(k)) : MayShadow(k, ShadowIds(k)[i])}
      next == [k EXCEPT !.phase = "shadow", !.result = NoResult]
  IN  IF left = {} THEN [next EXCEPT !.pc = "done", !.turn = 0]
      ELSE [next EXCEPT !.turn = Min(left),
                        !.pc = IF IsSdk(k.options) /\ ShadowIds(k)[Min(left)] \notin Range(Adapters)
                               THEN "raised" ELSE "attempt"]

\* The call after an attempt that came to r: it goes on to the next
\* provider, or to the shadows.
AfterAttempt(k, p, r, again) ==
  LET tried == [provider |-> p, ok |-> r.ok, again |-> again, main |-> TRUE, contact |-> r.contact]
      next  == [k EXCEPT !.tries = Append(@, tried), !.ok = r.ok, !.result = NoResult]
  IN  IF ~r.ok /\ k.turn < Attempts(k) /\ again THEN [next EXCEPT !.pc = "attempt", !.turn = @ + 1]
      ELSE NextShadow(next, 1)

AfterShadow(k, p, r) ==
  LET tried == [provider |-> p, ok |-> r.ok, again |-> TRUE, main |-> FALSE, contact |-> r.contact]
  IN  NextShadow([k EXCEPT !.tries = Append(@, tried)], k.turn + 1)

\* normalize_output turns an answer without the mapped fields into a failure.
Normalized(p, r) ==
  IF r.ok /\ r.unmapped /\ Mapped[p]
  THEN [Failure("output_normalization") EXCEPT !.contact = r.contact] ELSE r

\* _record_usage_event, then the decision what to do next. Through the proxy
\* it is the proxy that records; a result without a method has no row. The
\* row says what the provider answered, whatever normalization makes of it.
Settle(c) ==
  LET k == call[c]
      p == Current(k)
      r == k.result
      final == Normalized(p, r)
      mode  == IF k.phase = "main" THEN "direct" ELSE "shadow"
      row   == [Row(k.decision, mode, p, r, k.options.params) EXCEPT !.cost = CandidateOf(p).cost.n,
                                                   !.runtime = "local_package"]
  IN  /\ Is(c, "called") /\ ~IsSdk(k.options)
      /\ IF k.options.proxyUrl # "url" /\ r.known THEN RecordRow(row, r.contact)
         ELSE UNCHANGED store
      /\ Set(c, IF k.phase = "main"
                THEN AfterAttempt(k, p, final, ShouldFailover(final, k.policy))
                ELSE AfterShadow(k, p, r))
      /\ UNCHANGED <<decisions, handlers, peak, contacts, faults, commands>>

SettleByAdapter(c) ==
  LET k == call[c]
      p == Current(k)
      r == k.result
      mode == IF k.phase = "main" THEN "direct" ELSE "shadow"
  IN  /\ Is(c, "called") /\ IsSdk(k.options)
      /\ RecordRow([Row(k.decision, mode, p, r, k.options.params) EXCEPT !.runtime = "sdk"], r.contact)
      /\ Set(c, IF k.phase = "main"
                THEN AfterAttempt(k, p, r, ShouldFailoverAdapterResult(r, k.policy))
                ELSE AfterShadow(k, p, r))
      /\ UNCHANGED <<decisions, handlers, peak, contacts, faults, commands>>

\* The process dies, or a transaction of its own fails and the error ends
\* the call.
Abort(c) ==
  /\ call[c].pc \in {"routed", "attempt", "waiting", "called"}
  /\ faults < MaxFaults /\ faults' = faults + 1
  /\ Set(c, [call[c] EXCEPT !.pc = "raised"])
  /\ UNCHANGED <<events, decisions, handlers, peak, contacts, cause, commands>>

--------------------------------------------------------------------------------
\* The proxy: _authorized, then execute_proxy_call. A handler runs alongside
\* every other; its caller may have given up. `source` is the row that its
\* caller replays, if that is what it waits for.
HandlerIs(h, step) == handlers[h].pc = step
SetHandler(h, new) == handlers' = [handlers EXCEPT ![h] = new]
Answered(h, r)     == SetHandler(h, [handlers[h] EXCEPT !.pc = "answered", !.result = r])

HandlerReject(h) ==
  /\ HandlerIs(h, "received")
  /\ ApiKey /\ ~handlers[h].key
  /\ Answered(h, Failure("unauthorized"))
  /\ UNCHANGED <<events, decisions, call, peak, contacts, cause, faults, commands>>

\* _resolve_proxy_credential: a definition the model of a credential
\* refuses, one the resolver judges, or none at all.
ProxyVerdict(m) ==
  IF ~ValidDefinition(m.credential)
  THEN Unresolved(m.credential, <<"invalid">>, "invalid_credential")
  ELSE Resolve(ProxyConfig,
               RequestFor(Project, m.as.capability, m.as.provider, Tool(m.provider), m.credential), ProxyEnviron)

\* Past the quota, until its row is written.
Admitted == {h \in DOMAIN handlers : handlers[h].pc \in {"forward", "forwarded"}}

\* The thread after the verdict, with what its row will say of it.
GoesOn(m, pc, error, slots, reference, credential) ==
  [m EXCEPT !.pc = pc, !.slots = slots,
            !.result = [Failure(error) EXCEPT !.reference = reference, !.credential = credential]]

\* The quota is compared with what is recorded now: neither the calls being
\* forwarded nor the ones about to be refused are in the count.
HandlerAdmit(h) ==
  LET m == handlers[h]
      verdict == ProxyVerdict(m)
      full == Quota # NoLimit /\ Count(events, Project) >= Quota
  IN  /\ HandlerIs(h, "received")
      /\ ApiKey => m.key
      /\ SetHandler(h, IF full
             THEN GoesOn(m, "refuse", "quota_exceeded", {},
                         IF m.credential = NoCredential THEN <<>> ELSE CredentialReference(m.credential),
                         m.credential)
           ELSE IF ~verdict.resolved
             THEN GoesOn(m, "deny", verdict.error, {}, verdict.reference, verdict.metadata)
           ELSE GoesOn(m, "forward", "none", verdict.patch, verdict.reference, verdict.metadata))
      /\ peak' = Max({peak, Cardinality(Admitted')})
      /\ UNCHANGED <<events, decisions, call, contacts, cause, faults, commands>>

HandlerForward(h) ==
  LET m == handlers[h]
  IN  /\ HandlerIs(h, "forward")
      /\ \E outcome \in Outcomes[m.provider] :
           /\ Reaches(m.decision, m.provider, m.as, IF m.caller = Operator THEN "replay" ELSE "proxy",
                      m.slots, outcome, m.twice)
           /\ SetHandler(h, [m EXCEPT !.pc = "forwarded",
                               !.result = [HttpResult(outcome) EXCEPT !.contact = Len(contacts'),
                                             !.reference = m.result.reference,
                                             !.credential = m.result.credential]])
      /\ UNCHANGED <<events, decisions, call, peak, cause, faults, commands>>

\* store.record and the answer. A refusal has a status in its row and none in
\* its answer; what no answer came for costs nothing, nor does a replay, which
\* tells no cost.
HandlerRecord(h) ==
  LET m == handlers[h]
      r == m.result
      status == IF m.pc = "refuse" THEN 429 ELSE IF m.pc = "deny" THEN 401 ELSE r.status
      cost   == IF m.pc = "forwarded" /\ r.error # "http_error" /\ m.caller # Operator
                THEN CandidateOf(m.provider).cost.n ELSE 0
  IN  /\ m.pc \in {"refuse", "deny", "forwarded"}
      /\ RecordRow([Row(m.as.decision, "proxy", m.provider, r, {})
                      EXCEPT !.capability = m.as.capability, !.provider = m.as.provider,
                             !.status = status, !.cost = cost, !.runtime = "proxy:http"], r.contact)
      /\ Answered(h, r)
      /\ UNCHANGED <<decisions, call, peak, contacts, faults, commands>>

\* The row cannot be written, or the thread dies of another error: the
\* connection closes without an answer, whatever the provider has done.
HandlerFails(h) ==
  /\ handlers[h].pc \notin {"answered", "lost"}
  /\ faults < MaxFaults /\ faults' = faults + 1
  /\ SetHandler(h, [handlers[h] EXCEPT !.pc = "lost"])
  /\ UNCHANGED <<events, decisions, call, peak, contacts, cause, commands>>

--------------------------------------------------------------------------------
\* The operator. replay builds a credential from the row's metadata: what is
\* missing there has a default, and whether it was disabled or had expired is
\* not in it.
ReplayCredential(e) ==
  LET c == e.metadata.credential
  IN  [c EXCEPT !.id = IF c = NoCredential THEN e.reference ELSE c.id,
                !.owner = IF c = NoCredential THEN Project ELSE c.owner,
                !.provider = IF c = NoCredential THEN e.provider ELSE c.provider,
                !.authType = IF c.authType = "none" THEN "api_key" ELSE c.authType,
                !.mode = IF c.mode = "none" THEN "header" ELSE c.mode,
                !.status = "active", !.expired = FALSE, !.value = NoSecret]

ReplayVerdict(e) ==
  CASE e.reference = <<>> -> Resolved(NoCredential, <<"none">>, {})
    [] e.reference # <<>> /\ (e.metadata.kind # "call" \/ ~ValidDefinition(ReplayCredential(e))) ->
         Unresolved(NoCredential, e.reference, "missing_replay_credential")
    [] OTHER -> Resolve(<<>>, RequestFor(Project, e.capability, e.provider, e.tool, ReplayCredential(e)),
                        Environ)

\* The provider whose tool a row is of, whatever name the row gives it.
Target(e) == e.tool[1]

\* How execute_replay would send e again: through an adapter, as plain HTTP
\* with no credential (redacted headers are dropped), or by the package's
\* runner with the credential injected, which goes by the proxy when the
\* environment env has one.
ReplaySent(e, env) ==
  LET verdict == ReplayVerdict(e)
  IN  IF ~verdict.resolved THEN Stops(verdict.error)
      ELSE IF e.metadata.kind # "call" THEN Stops("missing_replay_metadata")
      ELSE IF e.runtime = "local_package"
        THEN ExecuteTool(Package[e.provider], PackageName[e.provider].provider, Project, e.metadata.params,
                         Environ, env.proxyUrl, env.baseUrl, Injecting(verdict.patch))
      ELSE [kind |-> "http", error |-> "none", slots |-> {}, credential |-> NoCredential]

ReplayResult(e, outcome) ==
  IF e.runtime = "sdk" THEN AdapterResult(outcome) ELSE HttpResult(outcome)

ReplayRow(e, r) ==
  [e EXCEPT !.mode = "replay", !.status = r.status, !.success = r.ok, !.error = r.error,
            !.latency = IF r.contact = 0 THEN 0 ELSE Duration[Target(e)], !.golden = FALSE,
            !.metadata = [kind |-> "replay", credential |-> NoCredential, params |-> {}]]

MayCommand == commands < MaxCommands /\ Cardinality({c \in Callers : UnderWay(c)}) <= MaxBusy

\* The row of a replay of e that came to r. Without --record, or when the
\* command dies, none is left.
ReplayRecords(e, r) == RecordRow(ReplayRow(e, r), r.contact) \/ UNCHANGED store

\* The replay command with --execute, up to its end or to its wait for the
\* proxy. A plain HTTP replay that gets no answer raises.
Replay(i) ==
  LET e == events[i]
      p == Target(e)
  IN  /\ MayCommand
      /\ commands' = commands + 1
      /\ \E env \in OperatorEnviron :
           LET sent == ReplaySent(e, env)
           IN  \/ /\ sent.kind = "error" /\ ReplayRecords(e, Failure(sent.error))
                  /\ UNCHANGED <<contacts, handlers>>
               \/ /\ sent.kind = "http"
                  /\ \E outcome \in Outcomes[p] :
                       LET r == ReplayResult(e, outcome)
                       IN  /\ Reaches(e.decision, e.provider, CallNames(e.decision, e.provider), "replay",
                                      sent.slots, outcome, FALSE)
                           /\ IF e.runtime = "proxy:http" /\ r.error = "http_error" THEN UNCHANGED store
                              ELSE ReplayRecords(e, [r EXCEPT !.contact = Len(contacts')])
                  /\ UNCHANGED handlers
               \/ /\ sent.kind = "proxy"
                  /\ handlers' = Append(handlers,
                       [pc |-> "received", caller |-> Operator, decision |-> e.decision, provider |-> e.provider,
                        as |-> OwnNames(e.provider), credential |-> sent.credential, key |-> env.key,
                        twice |-> TRUE, slots |-> {}, result |-> NoResult, source |-> <<e>>])
                  /\ UNCHANGED <<events, cause, contacts>>
      /\ UNCHANGED <<decisions, call, peak, faults>>

\* The proxy's answer to a replay, or none in time, and the row.
FinishReplay(h) ==
  LET m == handlers[h]
  IN  /\ m.source # <<>>
      /\ SetHandler(h, [m EXCEPT !.source = <<>>])
      /\ ReplayRecords(m.source[1], IF m.pc = "answered" THEN m.result ELSE Failure("proxy_error"))
      /\ UNCHANGED <<decisions, call, peak, contacts, faults, commands>>

Mark(i) ==
  /\ MayCommand
  /\ commands' = commands + 1
  /\ \E golden \in BOOLEAN : events' = MarkGolden(events, i, golden)
  /\ UNCHANGED <<decisions, call, handlers, peak, contacts, cause, faults>>

--------------------------------------------------------------------------------
CallStep(c) ==
  \/ RecordDecision(c) \/ AttemptHere(c) \/ AttemptByProxy(c) \/ AttemptByAdapter(c)
  \/ TakeAnswer(c) \/ GiveUp(c) \/ Settle(c) \/ SettleByAdapter(c)

HandlerStep(h) == HandlerReject(h) \/ HandlerAdmit(h) \/ HandlerForward(h) \/ HandlerRecord(h)

Next ==
  \/ \E c \in Callers : Start(c) \/ CallStep(c) \/ Abort(c)
  \/ \E h \in DOMAIN handlers : HandlerStep(h) \/ HandlerFails(h) \/ FinishReplay(h)
  \/ \E i \in DOMAIN events : Replay(i) \/ Mark(i)

Spec == Init /\ [][Next]_vars

\* A process that is not killed goes on, and a wait for the proxy ends with
\* the answer, the end of the connection or the timeout. (The first is weak
\* fairness of CallStep(c), which is enabled as long as c computes.)
Computes(c) == call[c].pc \in {"routed", "attempt", "called"}
FairSpec == Spec /\ \A c \in Callers : /\ []<>~Computes(c) \/ []<><<CallStep(c)>>_vars
                                       /\ WF_vars(TakeAnswer(c) \/ GiveUp(c))

--------------------------------------------------------------------------------
\* What a call has done to the providers, apart from replays of it.
ContactsOf(d) == {i \in DOMAIN contacts : contacts[i].decision = d /\ contacts[i].entry # "replay"}

\* Failover keeps its word: a call tries the ranked providers in their order,
\* at most as many as its policy allows, goes on only from an error its policy
\* lets it go on from, and runs shadows after that; no provider is contacted
\* twice for one decision, however late the proxy's threads run, and none is
\* both tried and shadowed.
FailoverKeepsItsWord ==
  \A c \in Callers :
    LET k == call[c]
    IN  /\ \A i \in DOMAIN k.tries : k.tries[i].main =>
             /\ i \in DOMAIN k.ranked /\ k.tries[i].provider = k.ranked[i] /\ i <= k.policy.maxAttempts
             /\ \A j \in 1 .. i - 1 : k.tries[j].main /\ ~k.tries[j].ok /\ k.tries[j].again
        /\ k.options.shadowIds = <<>> =>
             /\ \A i, j \in DOMAIN k.tries : k.tries[i].provider = k.tries[j].provider => i = j
             /\ k.decision # 0 => \A i, j \in ContactsOf(k.decision) :
                                    contacts[i].provider = contacts[j].provider => i = j

\* Every effect is accounted for once: a contact has at most one row, or two
\* when a call that was to be direct, or a replay, went through the proxy of
\* the environment: the proxy's row and the caller's. The proxy's row agrees
\* with its contact on the names the proxy was told, every other row on the
\* provider and the decision it was for, and both on the outcome, and only a
\* contact makes a success; a call that was not cut off leaves no contact it
\* knows of without a row. So, for each mode, the ledger reports no more
\* successes than there were.
RowsOf(i) == {e \in DOMAIN events : cause[e] = i}
ProviderFor(x, mode) == IF mode = "proxy" THEN x.as.provider ELSE x.provider
DecisionFor(x, mode) == IF mode = "proxy" THEN x.as.decision ELSE x.decision
RowIsOf(e, x) == /\ e.provider = ProviderFor(x, e.mode) /\ e.decision = DecisionFor(x, e.mode)
                 /\ e.success => x.ok
EffectsAreAccounted ==
  /\ \A i \in DOMAIN contacts :
       /\ Cardinality(RowsOf(i)) <= IF contacts[i].twice THEN 2 ELSE 1
       /\ \A e \in RowsOf(i) : RowIsOf(events[e], contacts[i])
  /\ \A e \in DOMAIN events : events[e].success => cause[e] # 0
  /\ \A c \in Callers : call[c].pc = "done" =>
       \A t \in Range(call[c].tries) : t.contact # 0 => RowsOf(t.contact) # {}
  /\ \A g \in Ledger(events, Project, Unfiltered, Unfiltered, TRUE, FALSE) :
       g.totals.successful
         <= Cardinality({i \in DOMAIN contacts : ProviderFor(contacts[i], g.key[4]) = g.key[3] /\ contacts[i].ok})

\* The quota is overrun by no more than the proxy's threads that were past it
\* together: the rows of forwarded requests, with the requests being
\* forwarded, stay below the quota plus the most that were in flight at once.
Forwarded == {e \in DOMAIN events : events[e].mode = "proxy" /\ cause[e] # 0}
OverrunIsBounded ==
  Quota # NoLimit => Cardinality(Forwarded) + Cardinality(Admitted) <= Max({Quota - 1, 0}) + peak

\* A package whose only credential is a header, and that neither its metadata
\* nor the proxy's config has one for, has it, and nothing else, in every
\* request sent for a call: from the caller's environment by the injection,
\* through the proxy by the intent.
HasOneHeader(p) ==
  LET auth == Package[p].auth
  IN  /\ p \in Providers \ PackageErrors /\ Declared[p] = NoCredential
      /\ \A i \in DOMAIN ProxyConfig : ProxyConfig[i].provider # p
      /\ Package[p].tool.auth = Inherited /\ auth.type \in {"api_key", "bearer"}
      /\ Len(auth.credentials) = 1 /\ auth.credentials[1].location \in {"header", "authorization"}

HeaderAuthIsCarried ==
  \A i \in DOMAIN contacts :
    LET p   == contacts[i].provider
        key == Package[p].auth.credentials[1]
    IN  HasOneHeader(p) /\ contacts[i].entry # "replay" /\ p \notin Range(Adapters) =>
          contacts[i].slots = {Slot(InjectionTarget(key), key.env)}

\* No step rewrites what a row says happened, and what routing goes by changes
\* only as a call or a thread of the proxy moves: neither a golden mark nor a
\* replay's own row changes it, wherever the replay's answer came from. (The
\* row of a thread counts whoever it works for, a replay that the environment
\* sent through the proxy included.)
Unmarked(e) == [e EXCEPT !.golden = FALSE]
HistoryStands ==
  [][/\ \A i \in DOMAIN events : Unmarked(events'[i]) = Unmarked(events[i])
     /\ UNCHANGED call /\ (\A h \in DOMAIN handlers : handlers'[h].pc = handlers[h].pc) =>
          \A shadow \in BOOLEAN :
            MetricsForCapability(events', Capability, shadow, FALSE, NoRegion)
              = MetricsForCapability(events, Capability, shadow, FALSE, NoRegion)]_vars

\* A call ends, whatever the proxy does with its requests and whoever fails.
CallsEnd == \A c \in Callers : UnderWay(c) ~> (call[c].pc \in Ended)

================================================================================
