# Quesen Python SDK: a TLA+ model

This directory models the Python SDK in `src/quesen_sdk`: the HTTP client with
its retry loop, the firewall that gates an agent's action on the engine's
verdict, the builders of the contexts that are judged, the evaluator that
recomputes a verdict offline, the verification of the receipts verdicts leave
behind, and the grants and evidence around an execution. TLC checks the models
on small instances, TLAPS proves the main properties for every instance.

Run `tlc -config <Run>.cfg <Module>.tla` for a run of section 3 and
`tlapm <Module>Proofs.tla` for the proofs.

## 1. The system

| part | source | state it keeps | operations |
|---|---|---|---|
| client, sync and async | `client.py`, `errors.py` | `api_key` (written by one method, read by all), the httpx client (open or closed), `retries`, `timeout` | `health`, `version`, `validate`, `validate_tsc`, `simulate`, `report`, `create_sandbox_key`, `close`; all go through `_request`, a loop over attempts |
| firewall | `firewall.py` | a client; per guarded function the attribute `last_decision` | `check`, `allows`, `require_pass`, `guard`, `build_context`, `sandbox` |
| contexts and decisions | `tsc.py` | none (values) | builders of a context, `to_dict`; `TscDecision.from_dict`, `allowed`, `require_pass` |
| reference evaluator | `reference.py` | none (pure) | `normalize`, `canonical_json`, `input_snapshot_hash`, `decide`, `evaluate` |
| offline replay | `replay.py` | none | `replay` = `to_dict` + `evaluate` |
| receipt verification | `receipt.py` | none | `verify_receipt`: structure, signature, recompute; `require` |
| admissibility | `admissibility.py` | none | `check_admissibility` of an action under a grant, decimal comparison, `admissibility_evidence` |
| execution binding | `execution.py` | none | `action_hash`, `verify_execution_binding` of evidence to action and receipt |
| result types | `types.py` | none | `from_dict` of the responses |
| command line | `conformance.py` | none | `conformance`, `verify`, `version` |

How they interact. A firewall holds one client and calls `validate_tsc` on it
for every gated action; threads share both. The client talks to an engine that
is not in this repository, over httpx. A context reaches the engine through
`_tsc_body` and the evaluator through `replay`, on two paths that have to agree:
`verify_receipt` compares what came back with what the evaluator gives. The
command line wraps `verify_receipt`. Evidence of an execution joins the hash of
the action, of the grant and of the judged context. Nothing is persisted and
nothing runs in the background.

What is hard here:

* several threads or tasks use one client, and `create_sandbox_key` writes the
  key the others read;
* a request may take effect although its attempt timed out, may be handled after
  the call returned, and is retried: effects may be duplicated, answers late;
* `close` by one caller meets the retry loop of another;
* the guard's `last_decision` is one attribute for all threads;
* what is absent, null, empty or malformed in a context takes defaults in some
  places and is refused in others, in a fixed order;
* `decide` is a list of early returns, whose order decides what a combination of
  facts gives;
* the verification helpers combine several optional checks and must fail closed;
* amounts are compared as text;
* evidence is read after the grant it was made under was replaced.

What makes each part correct:

* client: an answer belongs to the call that gets it; a transport failure is
  reported only after all attempts failed; one call uses one key; a working key
  is not lost; every call ends;
* firewall: the action runs only on the engine's PASS for this invocation, and
  does not when the engine cannot be asked; the audit attribute is truthful;
* contexts: every description becomes a context the evaluator judges, it is known
  which of them are stopped, what is sent is judged as what was replayed, and a
  call carries the id it was given;
* evaluator: more risk never gives a milder decision, nor does saying less about
  trust; PASS has to be earned, SKIP means there was nothing to judge; the
  snapshot hash determines the verdict;
* receipts: what passes `require()` is what the engine signed and what the
  evaluator reproduces, and a check that was skipped never makes up for one that
  failed;
* executions: evidence that verifies cannot hide an execution outside the grant,
  and a narrower grant admits less.

## 2. The modules

| module | content |
|---|---|
| `CallContract` | abstract: what one client method call promises (at-least-once) |
| `ClientCalls` | the client, its callers, the network and the engine |
| `ClientInvariant` | the inductive invariant of `ClientCalls` |
| `MCClientCalls` | TLC instance of both |
| `ClientCallsProofs` | safety theorems of the client; `ClientCalls` implements `CallContract` |
| `FirewallGuard` | the firewall's gate, on top of an instance of `CallContract` |
| `MCFirewallGuard`, `FirewallGuardProofs` | TLC instance, theorems |
| `TscRules`, `TscRulesProofs` | `decide` as a function of the facts it tests; what holds of any two contexts |
| `TscReference` | replays of a normalized context and its one-field revisions |
| `MCTscReference`, `TscReferenceProofs` | TLC instance, theorems |
| `TscNormalize` | raw contexts, `normalize`, the snapshot hash, `evaluate`; extends `TscRules` |
| `ContextBuilders` | the builders and the firewall's keyword arguments; extends `TscNormalize` |
| `Submission` | building, revising, replaying and submitting a context; extends `ContextBuilders` |
| `MCSubmission`, `SubmissionProofs` | TLC instance; lemmas about pointers, builders and `normalize`, theorems |
| `ReceiptVerification` | receipts on their way from the engine to `verify_receipt` and `quesen verify` |
| `MCReceiptVerification`, `ReceiptVerificationProofs` | TLC instance, theorems |
| `ExecutionBinding` | `action_hash` and `verify_execution_binding` |
| `Decimals`, `DecimalProofs` | amounts as text, their comparison, and the numbers they stand for; the comparison is the numeric order |
| `Admissibility` | the rules of a grant; extends `ExecutionBinding` and `Decimals` |
| `AuthorizedExecution` | principal, engine, executor and auditor around them; extends `Admissibility` |
| `MCAuthorizedExecution`, `AuthorizedExecutionProofs` | TLC instance, theorems |

Definitions that begin with "Mutant:" in their comment are deliberate faults;
nothing uses them except the check that each property can fail.

### CallContract

The state of a call is its phase, its number (`round`), its `result` and the
`effects` the engine has had so far, one per attempt it acted on. The engine may
act at any time after the call began, also when it is over. A call returns an
answer that is in an effect of that call, or raises. This is what the layers
above may rely on, and all they may rely on.

### ClientCalls

The callers are threads (`QuesenClient`) or tasks (`AsyncQuesenClient`) sharing
one client object. `call[c]` holds the locals of `_request`, `pc[c]` the line:

| model | code |
|---|---|
| `Invoke` | entry of an endpoint method and of `_request`: the headers, hence the key, are built once |
| `Send`, `SendOnClosed` | `self._client.request(...)`; a closed httpx client raises `RuntimeError`, which nothing catches |
| `TimedOut`, `ConnectionLost`, `ServerBusy` | the two `except` clauses and the retryable statuses; `Fail` is the end of the loop body: sleep, or raise `last_exc` |
| `Wake` | the next iteration |
| `Refused` | `_raise_for_status` on any other status that is not 2xx |
| `BadBody` | `json()` or `from_dict` rejects a 2xx body |
| `Answered`, `Adopt` | the method returns; `create_sandbox_key` first writes `self.api_key` |
| `Cancel` | `CancelledError` at an `await` (async client only, `Cancellable`) |
| `Close` | `close()`, `aclose()` |
| `Apply`, `Reject` | external: the engine handles a request on the wire, at any time; the response reaches the caller only while that attempt waits for it |

The endpoint methods differ in whether the engine asks for a key and in what
they do with the answer, which gives five representatives (`Methods`). A lost
response needs no action of its own: it is a request handled after its attempt
failed. A step is what happens between two points at which another thread can
be seen; for the async client this is finer than the code, which only yields at
`await`, so its behaviours are included (and some it cannot have, such as a task
running between a response and the write of `self.api_key`). The engine is
assumed to keep a key valid once it minted it. `fates`, `own` and `applied` record
history and influence nothing.

### FirewallGuard

`gate[c]` is the place of thread c in `_wrapper` (or in `require_pass`, which
has no `Record` step), `decision[c]` its local variable, `lastDecision` the
attribute. The engine call inside `check` is a call of `CallContract`, so late
and duplicated effects are present. The gate is checked against any set of
decision strings that contains `"PASS"`, because `from_dict` accepts any string.

### TscRules, TscReference

`Contexts` is what `decide` can see of a context that `normalize` returned:
the fields it tests, and `blocks`, the optional blocks that are not empty. The
facts tested by the code are operators with a name each (`SecretLeak`,
`Missing`, ...), `Reason` is the order of the early returns and `Ruling` the
arguments given to `_verdict`. The code computes twice whether a context is
attested, for the rules (`Attested`) and for the summary in the verdict
(`SummaryAttested`); so does the model. In `TscReference`, `Replay` replays one context
and `Edits` is the integrator, who changes one field between two replays, so
that an action property relates the verdicts on two neighbouring contexts.

### TscNormalize

A raw context is a function from the pointers that are present (`<<>>` is the
context itself, `<<"data", "egress", "to">>` a leaf) to a value `normalize`
accepts or to the error it refuses the value with. `Order` is the order in which
`normalize` looks, so the error of `evaluate` is the `Min` of `Problems`, and an
unknown field inside an object is a fault of the object itself, which the code
looks for before it looks inside. `Default` and `Defaulted` are the keys filled
in, `Normal` the returned object, `Hash` the hashed material (all but the request
id), `Seen` the `.get` chains of `decide`. Some things pass `normalize` and raise
later, or inside it with an error of another kind: what is `Unencodable`, in a
text, the version, an item of a list of scopes or labels or the onchain value, and
an engagement ratio `float()` cannot represent. An id with a lone surrogate is not
hashed and raises nowhere.

### ContextBuilders

`Build` is `_build` of the firewall followed by `to_dict`: `Route` selects the
builder by the lower-cased action name, `DataEgress`, `Payment` and `ToolCall` are
the constructors. An `Entry` that is None is dropped, as `_clean` does, an
`Exactly` stays and becomes a null. `ToolCall` also takes the three arguments the
firewall does not offer but the constructor does. `IsDescription` says what
keyword arguments the properties are about: a free action name, and elsewhere
words of the contract or None. `BuilderAssumption` says that the words the
builders write themselves are in the contract.

### Submission

The integrator starts from a context written by hand (`Bases`) or from
keyword arguments (`Descriptions`), may set, drop or spoil any part of the first
(`Set`, `Drop`), its own request id included, and submits it with a valid, an
over-long or no id argument (`Submit`, which is `validate_tsc` up to the request;
`Arguments`). Whatever `normalize` would refuse is sent all the same; only what is no
dict at all is not, as `_tsc_body` or `dict()` raises on it. `replayed` always holds
what `replay` gives for the draft.

`form` is the kind of object the context is. A `dict` (or a `TscContext`) is copied or
built anew by `_tsc_body`; an object whose `to_dict()` hands out a dict it keeps
(`shared`) gets the request id written into that dict, which is `Held`; a `mapping`
that is no dict is copied into one by the client and refused by `replay`, which tests
for a dict (`Replay`). `sent` records the argument, the id in header and body and how
the body would be judged; the request itself is a call of `ClientCalls`.

### ReceiptVerification

`Issue` is the engine, which may decide as it likes but pins the context it
judged by its hash; `Alter` is whatever happens to a receipt on its way: a field
lost, changed or taken from another receipt, the signature included. `Verify`
is `verify_receipt` with any combination of a key, the optional library and a
`recompute_request`; it is a function of the receipt, `Verification`, built from
`Integrity` (`_verify_integrity`) and `Reproduced` (the comparison with the
evaluator). `Accepts` is `require()` not raising, and `ExitCode` the command
`quesen verify`. A signature is the pair of its signer and the signed fields,
so it holds under a key exactly when it was made with it over these fields; a
key or signature that cannot be decoded is `"garbled"`. Reasons that are not a
list of objects make `verify_receipt` raise, which is the result `Raised`. The
evaluator is a constant function `Reference`: `HashDecides` of `Submission` is
what entitles the module to give each context one verdict and one hash. Contexts
it refuses are `BadContexts`, and those it raises on (`EvaluateRaises`)
`RaisingContexts`: `verify_receipt` raises with it. `ExitCode` is 2 for a file that
cannot be read as JSON.

### ExecutionBinding, Decimals, Admissibility, AuthorizedExecution

A decimal is the digits before and after its point, an absent field is `None`, a
value of the wrong type or form `Malformed`. Each rule of `check_admissibility` is
an operator that gives the violations it adds; they are independent, and
`Violations` is their union. `Less`, `Pad`, `NormDecimal` and `CmpDecimal` follow
`_norm_decimal` and `_cmp_decimal`; the minus sign of a negative integer is a
character, as in the code. What they are measured against is arithmetic:
`Number` is the value of a string of digits and `NumericCmp` compares two
decimals by value, at the places of the longer one. `Amounts` is what amounts and
caps may be, any set of decimals. In `AuthorizedExecution` a principal replaces the
grant in force (`ReviseGrant`), the engine issues receipts (`Authorize`), an executor
performs any action under any receipt and leaves `Evidence` (`Execute`), and the
properties are what an auditor concludes who holds any action, receipt and piece
of evidence against each other (`Binding`). The engine may decide one context more
than once, and differently, as after a change of the ruleset: the snapshot hash
does not pin it, `commit_sha` does. A grant whose `max_qty` is no number makes the
check raise `TypeError`, so `Execute` leaves no evidence; a float or `True` bounds
the integer quantities as the integer below it does.

## 3. What is checked

| run | instance | properties |
|---|---|---|
| `ClientShared` | 2 callers, `decide` and `mint`, 1 key, 2 attempts, 1 call each | `TypeOK`, `AnswerIsOurs`, `StableHeaders`, `IInv` |
| `ClientContract` | 1 cancellable caller, `report` and `mintOnly`, 2 calls of 2 attempts, fairness | `RetryDiscipline`, `ImplementsContract`, `CallsReturn` |
| `ClientKeys` | 2 callers, 2 calls each, `decide` and `mint`, 2 keys, no retries | `NoAuthErrorAfterMint`, `KeyNeverLost` |
| `ClientServerError` | 1 caller, `report`, 2 attempts | `ServerErrorMeansExhausted`, violated |
| `FirewallThreads` | 2 threads, 2 invocations each, 2 decisions | `TypeOK`, `RunsOnlyOnOwnPass`, `FailClosed`, `AuditGenuine`, `AuditNotStale` |
| `FirewallAudit` | 2 threads, 1 invocation each of 2 attempts | `AuditMatchesRun`, violated |
| `ReferenceVerdict` | 4 actions, 2 sources, 1 capability, 2 data classes, 2 trust tiers, 2 scopes | `TypeOK`, `PassIsEarned`, `SkipIsHonest`, `RiskNeverSoftens`, `RiskScoreFollows` |
| `Submission` | 6 contexts by hand in 3 forms with 1 revision, some 1800 descriptions, 2 submissions, 2 ids and an over-long one | `TypeOK`, `BuiltIsJudged`, `DescriptionsAreRuled`, `CallsKeepTheirIds`, `OmissionNeverSoftens`, `HashDecides`, `SentReplays` |
| `EvaluateRaises` | the same, no submission | `NeverRaises`, violated |
| `ReceiptChecks` | 2 contexts, 1 that is refused and 1 that raises, 2 decisions, 2 hashes, 2 receipts issued, 2 signers, any number of alterations | `TypeOK`, `AcceptedIsAuthentic`, `AcceptedIsReproduced`, `AcceptedIsDecided`, `MoreChecksAcceptLess` |
| `AuthorizedExecutions` | 8 grants, 7 actions, 2 receipts of 2 contexts or of one, 2 executions, decimals of up to 2+2 digits | `TypeOK`, `ComparisonIsNumeric`, `AdmittedIsWithinLimits`, `BoundMeansAdmissible`, `DecisionWasIssued`, `EvidenceStaysTrue`, `NarrowingNeverAdmits` |
| `EvidenceLinked` | the same, 1 execution | `BoundMeansLinked`, violated |

Bounds.

* `MaxCalls` bounds the calls of a caller, `Keys` the mints and `Retries`
  the attempts; everything else in the client is finite by construction. Two
  callers are enough for every property here to go wrong, since each relates at
  most two of them; a second call of the same caller is needed for late handling
  of the first, and two attempts for a retry. `Retries = 0` in `ClientKeys` keeps
  room for two calls of two callers: keys change between calls, and `ClientShared`
  covers retries with a mint in between.
* In `ReferenceVerdict` and `Submission` each set that `decide` tests has a
  member inside and a member outside; the rest of the enumerations behave like
  one of these, and the theorems do not depend on the choice.
* `Submission`: every property but `CallsKeepTheirIds` relates a context to one
  that differs in one part, so `MaxEdits = 1` reaches each neighbour of the hand-
  written contexts, which are chosen at the extremes: everything said, nothing
  said, every object empty, a trusted and an untrusted egress, a claimed and a
  vouched payment. Two submissions (`MaxSends`) are what it takes for the id of
  one to show up in the next. The descriptions vary every argument of each
  builder over absent, None, empty and given.
* In `ReceiptChecks` two issued receipts (`MaxIssued`) are what it takes to mix
  one up with another, and each field has one value besides the right one, or can
  be lost.
* `AuthorizedExecutions`: two receipts (`MaxReceipts`) and two executions
  (`MaxExecutions`) allow evidence of one to be held against the other's action
  and receipt; the grants differ in each field, with an empty list, an absent
  list, a malformed cap and caps of different length; the digits 0, 1, 9 with
  up to two before and after the point (`DigitsUsed`, `MaxWhole`, `MaxFrac`)
  contain leading and trailing zeros and amounts whose order as text is not
  their order as numbers.

Deadlock checking is off for the client, the firewall and `Submission`, whose
bounded actors do stop, and in `EvidenceLinked`; it is on elsewhere.

Fairness. `FairSpec` is weak fairness of `Progress(c)`: what the thread or task
does on its own. It is justified by the scheduler and by the two waits in the
loop, which end: the sleep is finite, and httpx raises `TimeoutException` when
nothing arrives within `timeout`. This assumes a finite timeout (the default is
5 seconds) and an engine that does not keep a response trickling for ever, as
httpx times each read. No fairness is assumed of the network or the engine. The
other parts have no scheduling of their own, and nothing in them must happen.

### Where code and documentation differ

* `errors.py:36` calls `QuesenServerError` "HTTP 5xx after retries exhausted".
  Only 500, 502, 503 and 504 are retried; any other 5xx raises the same error at
  once (`ClientServerError`).
* `firewall.py:154-155` offers `.last_decision` "for auditing", over a client that
  is thread-safe. With two threads it may be another invocation's verdict
  (`FirewallAudit`). What holds in general, and is proved, is `AuditGenuine`, it is
  always a verdict the engine gave to the invocation it belongs to, and
  `AuditNotStale`, it is never an older verdict of the same thread, which for one
  thread is the promise of the documentation. The gate itself uses its local
  variable and is not affected (`RunsOnlyOnOwnPass`).
* `execution.py:73-74` says "bound to this action and authorization" also when the
  receipt has no snapshot hash, and nothing was linked (`EvidenceLinked`).
* `reference.py:437` and `replay.py:41-42` promise never to raise on malformed
  input. A lone surrogate in any free text raises `UnicodeEncodeError` and a NaN
  in `signals.onchain` `ValueError`, both from the snapshot hash and outside the
  `try` of `evaluate`; an integer too large for a float in `engagement_ratio`
  raises `OverflowError` inside it (`EvaluateRaises`). `json.loads` produces all three.

Worth knowing, from reading the code while it was modelled:

* `risk_score` orders decisions (`RiskScoreFollows`) but not contexts with the same
  decision: a suspected prompt injection of a sensitive action scores 0.60, and an
  unattested grant claimed on top of it gives 0.50.
* `conformance.py:7` lists replay among what `quesen verify` checks; the command
  passes no `recompute_request`, so it never replays. `receipt.py:9-11` counts
  `commit_sha` among the fields whose absence is a finding; `_verify_integrity`
  does not look at it.
* `firewall.py:12` names `http_request` among the actions, and `_TOOL_ACTIONS` is never
  read: `http_request`, `code_exec` and every unknown name go to the tool-call
  builder, which has no place for a target or a data class, so a secret described
  that way is not seen, and without a policy such an action is never a BLOCK
  (`DescriptionsAreRuled`).
* A payment described without `granted_scopes` claims nothing, so no rule of `decide`
  applies and it is a PASS, whatever its provenance and the payee's trust tier. One
  that claims scopes on the caller's own word is a REVIEW: saying less is the milder
  way (`DescriptionsAreRuled`; `OmissionNeverSoftens` is about trust, not scopes).
* `client_request_id` goes into the body as it is: one of more than 128 characters
  makes the evaluator refuse a body whose context it accepts (`SentReplays`). If the
  context has an id of its own and the argument is another, the header carries the
  argument and the body the context's. An id that is no string, or not ASCII, is a
  header httpx refuses to send.
* `validate_tsc` accepts a `Mapping` that is no dict, `replay` refuses it as malformed
  (`SentReplays`).
* `destination_trust=None` becomes a null and is refused, where `trust_tier=None`
  is dropped; `BuiltIsJudged` names this exception.
* An object whose `to_dict()` returns a dict it keeps has the id of its first call
  in all later ones (`shared`, which `CallsKeepTheirIds` leaves out).
* `_DECIMAL_RE` ends in `$` and uses `\d`, so it lets a final newline and other
  scripts' digits through; a negative integer compares by its characters, which
  at worst refuses too much under a cap without a sign (`AdmittedIsWithinLimits`)
  but admits too much under a negative one (a cap of -5 admits 0). No grant of the
  runs has a negative cap, and `ComparisonIsNumeric` is about decimals without a
  sign; `NarrowingIsSafe` holds of the order as it is.
* The evidence of an execution calls it admissible whatever the receipt decided, and
  `verify_execution_binding` compares the snapshot hash alone: of two receipts of one
  context, PASS and BLOCK, evidence of an execution under the second verifies
  against the first. A reader has to look at the decision in the evidence itself;
  what the link gives is that it was issued for that context (`DecisionWasIssued`).

## 4. What is proved

All theorems hold for every number of callers, keys, calls, retries, threads,
scopes, revisions, submissions, receipts, grants and executions, and for every
choice of operations, decisions and enumerations allowed by the assumptions in
the modules: `ClientAssumption` (`Retries` and `MaxCalls` are naturals, the absent
key is not a key), `FirewallAssumption` (`"PASS"` is a decision, at least one
attempt), `ReferenceAssumption` and `NormalizeAssumption` (the enumerations are
those of the code and contain the defaults), `ReceiptAssumption` (the evaluator
gives each context it accepts a verdict, and no two the same hash),
`ExecutionAssumption` (what a grant and an action hold where a number belongs),
`BuilderAssumption` (the words the builders write are in the contract, None is no
value of it, and what cannot be encoded is no text or scope of it) and `SubmissionAssumption` (contexts written by hand are JSON
values, descriptions are in the contract's words).
SHA-256 is taken as free of collisions throughout: a hash stands for the hashed
material.

**Client.** The safety properties are not inductive: that an answer belongs to
the current attempt depends on what is still on the wire. `IInv` adds, besides
types: requests sent for the current call carry its key and an attempt that is
not ahead of the loop (`SentInv`, `WireInv`); no attempt is sent or handled
twice (`Distinct`); a response that arrived, or an answer being adopted or
returned, is an effect of the current attempt and a key in it is registered
(`AnswerInv`); keys held are registered (`KeyInv`); the list of failures and the
attempt number agree with the place in the loop (`RetryInv`). `IInv` is checked
by TLC in `ClientShared` and proved inductive action by action. From it:
`TypeCorrect`, `RetriesComplete`, `AnswersGenuine`, `HeadersStable`,
`MintedKeyAccepted`, `KeysKept`.

**Refinement.** `ClientImplementsContract`: under the mapping `phaseBar`,
`roundBar`, `resultBar`, `effectsBar`, `Apply` is the contract's `Act`, the last
step of a call its `ReturnAnswer` or `Raise`, and everything else a stutter.

**Firewall.** The invariant ties the local decision of a thread past the call to
an effect of its open invocation, and `lastDecision` to the latest `Record` of the
thread it names. From it: `GateSound`, `GateFailsClosed`, `AuditSound`, `AuditFresh`.

**Evaluator.** `DecisionByFacts` restates the early returns as a table over the
facts `Blocked` and `Reviewed`; `FactsGrow` shows that both grow with the risk.
`DecideMonotone` follows for any two contexts, not only neighbours. The invariant
of `TscReference` is only that the verdict is that of the context beside it;
`RiskMonotone`, `ScoreFollows`, `PassEarned` and `SkipHonest` follow from it and
the table.

**Contexts.** The invariant `SInv`: the replay on record is that of the draft
(`ReplayIsCurrent`), and an integrator's own context that was given no id has none,
whatever was submitted (`Unmarked`), which is why a later call cannot carry an
earlier one's id (`IdsAreKept`). `HashPins`: everything `decide`, the attestation
summary and the policy read is at a pointer other than the request id, so equal
hashes give equal judgements (`HashIsDecisive`); the attestation summary, its source
and the version are part of a judgement. `BodyReplays`: adding an id to a body that
has none moves no problem, since the id is looked at last (`IdComesLast`); a good one
adds none and changes no hash (`GoodIdReplays`), an over-long one is what the body is
refused for unless there was something else (`LongIdIsRefused`). Which problem comes
first is a least element, taken from `WellFoundedInduction` (`Least`). From these
`SubmissionReplays`, whose statement names the two exceptions.
`OmissionIsRisk`: dropping a trust pointer leaves every fact at least as risky,
defaults included, so `OmissionIsSafe` follows from `DecideMonotone`. These
theorems hold from any raw contexts, also ones no JSON parser could give.

**Builders.** What a builder makes has to be compared with what `normalize` looks
at, and the set of pointers is a fold over the table of fields. `PointersAre` opens
it once: the context, its top-level fields, and those one and two objects down;
`ObjectsAre` and `AroundMeaning` are the objects and those around a pointer, and
`ListsAccepted` to `OthersAccepted` the values each pointer takes. On these rest
three facts about a dict made of entries: it is a JSON value (`DictIsRaw`), every
builder's entries are values its pointers accept, but for a `destination_trust`
of None (`EntriesFit`), and what `normalize` requires is among them
(`EntriesComplete`), so `normalize` refuses nothing in them (`BuildersAreJudged`).
The invariant is `Origin`: the draft is a JSON value, and one with a description
is what the builder made of it, since an integrator revises only contexts written
by hand, and a built one is never shared. From it: `BuiltContextsAreJudged`;
`TypeCorrect`, by `JudgedIsContext`, that a normalized context gives every field
`decide` reads one of its values, defaults included; and `DescriptionsRuled`, by
following the arguments of each builder to the facts `decide` sees (`EgressIsSeen`,
`PaymentIsSeen`) and to the early return they hit (`EgressIsRuled`, `PaymentIsRuled`,
`ToolCallIsRuled`).

**Receipts.** Inductive are three facts: a signature of the engine on a receipt
was made on an issued receipt (`SignedInv`), an issued receipt carries the hash
of the context it judged (`HashInv`), and a result is that of the receipt and
options beside it (`ResultInv`). `WhatPasses` says what `require()` lets through,
`IntegrityPasses` that without a recompute this is all it takes. From them:
`Authentic`, `Reproducible`, `Decided` (which also needs the hash to identify the
context) and `Monotone`.

**Executions.** The invariant says that evidence was computed by `Evidence` from a
receipt that was issued, an action and some grant. As the rules read only hashed
fields (`HashesDecide`), `BoundIsAdmissible`, `DecisionIssued` and `EvidenceIsTrue`
follow. `NarrowingIsSafe`
needs that `_cmp_decimal` is transitive (`CmpTransitive`) for digits of any
length: order by length, then text (`LessTransitive`), then padded fractions, for
which the width a comparison pads to must not matter (`PaddedOrder`).

**Decimals.** `NumericOrder`: `_cmp_decimal` orders decimals without a sign as the
numbers they stand for, whatever their length. The library's induction rules
take an operator and cannot be used, so `Induction` states induction for a set of
naturals, and each proof by induction is about the set of lengths for which its
claim holds. With it: the recursive definition of `Number` has one solution
(`NumberEquation`); a string that is less has the smaller value, among strings of
one length (`LessIsSmaller`); zeros in front change nothing (`ZerosInFront`), nor
does normalization of a decimal spread over enough places (`ValueOfSpread`). If the
normalized integer part is shorter, or equal in length and less, or equal and the
padded fraction less, the whole string of digits is less (`LowerIsLess`); the three
cases are exhaustive (`CmpCases`). `ComparisonNumeric` is an instance, and
`AdmittedWithinLimits` follows from it, the rules of the grant and the fact that
evidence is always that of some grant.

Only model-checked: `CallsReturn`, as liveness is outside what the proof system
handles. The four properties whose runs end in a violation are no theorems. Every
other property of section 3 is one.

## 5. What is not modelled

* the text of messages, tags, logging, the number of seconds slept, `Retry-After`;
* the real HTTP stack: httpx is `Send`, `TimedOut`, `ConnectionLost` and `Close`;
* the production engine: only what a response may carry;
* spellings of a value: case, surrounding whitespace, Unicode form and length of a
  text, order and duplicates of a list. A value `normalize` accepts stands for all
  its spellings, so nothing is said about the order of normalization steps inside
  one text, such as the lower-casing of list items after their length was tested;
* `allows()` of the firewall, which is `check` and a comparison, and a guarded function
  that calls itself: a thread of `FirewallGuard` has one gate open at a time;
* grants and actions with a NaN, an infinity or a lone surrogate, whose hashes raise;
* `types.py` beyond whether a body can be parsed: the fields are copied and no code
  here branches on them;
* the bodies of `validate`, `simulate` and `report`: arguments passed through;
* the commands `conformance`, which compares encodings with recorded bytes, and
  `version`, which prints;
* `__init__.py`: re-exports.

Two compositions are left at the level of assumptions: `ReceiptVerification` takes
the evaluator as a constant function, justified by `HashIsDecisive`, and
`FirewallGuard` takes the client as its contract, justified by
`ClientImplementsContract`.
