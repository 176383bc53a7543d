# A formal model of agent-traffic-intelligence

TLA+ specifications, TLC runs and TLAPS proofs for `agent-traffic-intelligence` (ATI), an
observe-only analyser of web-server logs: it normalises log records, derives behavioural
features per client, recognises the agents that clients claim to be, and verifies those
claims against sources that the agents' providers publish.

Paths are relative to `src/src/agent_traffic_intelligence/` unless they start with `docs/`.

## 1. Inventory

| part | state | operations | with whom | what is hard |
|---|---|---|---|---|
| source cache (`identity/sources/cache.py`, `manifest.py`) | files: blobs by SHA-256, one manifest, temporary files | `put`, `get` | refresh writes; verifiers, `ati sources status` and `ati sources validate` read | several processes without a lock, errors and kills between system calls |
| source refresh (`identity/source_service.py`) | its position in the loop, the document in hand | look, fetch, revalidate, store; first exception ends it | cache, fetcher, origins on the web | 304 answers to old validators, overlapping runs, sources that move, freshness |
| fetcher (`identity/sources/fetcher.py`) | validators, redirects followed, vetted addresses | `fetch` | refresh, DNS, web servers | redirects to other origins and back, circles, validators of one server sent to another |
| identity resolver (`identity/resolver.py`) | none | `resolve` | manager | which answers are missing |
| verification manager (`identity/manager.py`) | a queue, threads, futures, a deadline | `verify` | verifiers (any code), resolver | timeouts, exceptions, hung threads, late answers |
| configured verification (`identity/configured.py`, `identity/network/`, `identity/crypto/`) | the cached documents, read through the cache | range lists, FCrDNS, key directories, inline keys, discovered keys | cache, manager | logs are older or newer than the snapshots that judge them |
| session features (`features/session.py`) | per-client histories in LRU order, an eviction counter | `update` | detector | late timestamps, a full table |
| replay cache (`identity/crypto/replay.py`) | nonces with expiry, in order | `seen_or_add` | nobody: no code of the package gives one to a verifier | times that go back, a full table |
| ingestion and detector (`ingestion/`, `detection/`, `rules/`, `registry.py`, `scoring.py`) | none | normalise a line, detect | CLI, HTTP service | the first bad line decides |
| HTTP service (`runtime/`) | one thread per connection, kept alive | GET, POST | detector | bodies left unread by early answers, stalled clients |
| command line (`cli.py`) | output files, staging directories | analyze, run, evaluate-stratified, labels, export, preflight | all, a log that grows | a path that is checked long before it is taken, partial outputs, kills |
| controlled-corpus protocol (`evaluation/`) | model table, split manifest, preflight report | prepare, split, choose a threshold, evaluate | command line | artifacts of two runs, people on both sides of a split, ties at a threshold |

How they interact: `ati sources refresh` fills the cache (refresh -> fetcher, cache).
`ati analyze --verify-identity` reads it: detector -> configured verification -> one verifier
per source in a thread of the manager -> cache, and the answers that are in time go to the
resolver. The refresh and the analyses are different processes and share nothing but the
directory of the cache. The HTTP service analyses batches in memory, without verification.

What makes each part correct:

- cache: a reader sees a whole manifest over whole blobs, whatever was killed or overlapped;
  one writer at a time implements an atomic map;
- fetcher: what a 304 answers is a condition on something the same server gave, unless the
  source has moved; a circle of redirects ends;
- refresh: an entry claims no retrieval its origin does not back, a list vouches for no
  request long after its publication, bindings of keys are the ones that were verified, a run
  ends;
- manager: threads and time only take answers away, never add any; the call returns;
- resolver and verifiers: what is established was published for the time of the request;
  a foreign signer is a conflict; an honest request is refused only by keys that cannot be used to
  verify it; unknown is not wrong;
- session features: the bounded history is what the whole session would give;
- HTTP service: an answer is that of its own request, whatever others send and wherever clients
  stop; what is left unread of a body ends the connection, unless it reads as a request;
- local runs: what is published is whole and judged by what it says, and it stays; the strata of a
  report add up to what the run said;
- controlled corpus: nobody is scored by a model of their own sessions, what the gates let
  through can be held out, a threshold keeps to the rate it was chosen for and is the lowest
  that does.

## 2. Modules

    SourceStore                 abstract: a map from URIs to documents
      ^ implemented by
    SourceCache                 files, system calls, failures, kills
      ^ steps used by
    SourceRefresh               the loop of `ati sources refresh`, clock
      v instance of
    SafeFetcher                 one fetch: redirects and validators; the web

    IdentityResolver            the resolver, as a function of a set of evidence
      ^ extended by
    VerificationOutcome         abstract: some set of answers is in time
      ^ implemented by
    VerificationManager         queue, threads, timeout, exceptions
    ConfiguredVerification      profiles, snapshots and requests; some set of answers in time

    SessionFeatureState         bounded histories, as a data type
      ^ extended by
    AnalysisService             connections, their threads, one batch after the other

    LocalRun                    runs, exports, labels and a log that grows
      ^ extended by
    StratifiedRun               evaluate-stratified on a published run

    ControlledCorpus            preflight, its files, baseline
      ^ extended by
    BaselineLadder              the models of a split, their thresholds

    SourceCacheProofs           theorems about SourceCache
    SourceRefreshProofs         theorems about SourceRefresh, SafeFetcher and their cache
    VerificationProofs          theorems about VerificationManager and the resolver
    ConfiguredProofs            theorems about ConfiguredVerification
    ControlledCorpusProofs      theorems about ControlledCorpus and BaselineLadder
    LocalRunProofs              theorems about LocalRun and StratifiedRun
    SessionProofs               theorems about SessionFeatureState
      ^ extended by
    AnalysisProofs              theorems about AnalysisService
    MC*                         small instances for TLC

`PROJECT.json` names, for each definition, the lines it stands for. Operators with a suffix
`_Something` (`Synced_TooEarly`) are slips the code could have made. No specification uses
them: each is there so that one can put it in the place of the operator it is named after
and watch the property that guards against it fail.

### SourceStore, SourceCache

`blobs[c]` and `manifest` are the files under the cache directory, `temp[p]` the temporary file
process `p` is writing, `orphans` what kills left behind. `pc[p]` is the place of `p` in `put` or
`get`, one label between any two system calls another process can tell apart; `PutNew`,
`FillTemp`, `PublishBlob`, `LoadManifest`, `PublishManifest` are mkstemp, write + fsync,
`os.replace`, the read of the manifest and its replacement; `PutFails` is an `OSError` at any
of them with the `finally` that unlinks; `Kill` leaves everything as it is, except that a file
that was not synced may be torn. Left out: the sync of the parent directory (a replaced name is
taken to last), an interrupt between `mkstemp` and the `try` that guards its file (which leaves an
empty temporary file), SHA-256 collisions, manifests edited by hand.

`SourceStore` is what a caller may think: `Put` sets one entry, `Get` returns it.

### SafeFetcher, SourceRefresh

`trip[p]` is where the fetch of process `p` has got to: the place asked next, the redirects so
far, the headers `If-None-Match` and `If-Modified-Since` that are still sent, and whether
redirects are followed. A request and its answer are one instant; between a redirect and the next
request anything may happen. `origin[q]` is what place `q` answers now, a content or a redirect.
Servers keep to RFC 9110: a 304 answers a condition the request has, an entity tag goes before a
date, and a date holds for all that is not newer. Tags are those of a server: two servers may
give one tag to two contents, and a date says nothing of another server.

`stage[p]` is where a refresh is in the body of its loop: `look` (cache.get), `found`, `fetch`,
`store`, `storing` (cache.put). All reads and writes go through the steps of `SourceCache`, so
runs overlap inside a `put`. `FetchNew` and `FetchNotModified` are the 200 and the 304 answer,
`FetchFails` everything that ends the fetch otherwise: an address that is not public, a status, a
redirect too many or of a directory, a body that does not parse. `lastServed` and `lastSigned`
record the history the properties speak of, and nothing reads them otherwise. What is kept of the
cache's types is stated beside its variables; SourceCacheCrash checks them.

A list may move to another host, whose contents its own place never published. The properties of
retrievals are about the others (`Local`); what happens to a moved one is the run
SourceRefreshRedirects.

### IdentityResolver, VerificationOutcome, VerificationManager

`Resolve` is `IdentityResolver.resolve` over a set of evidence (its order is immaterial to the
result, and reasons are wording). `VerificationManager` is one call of `verify`: the queue of
the executor, at most `MaxWorkers` threads, a wait that ends when all are done or by timeout,
the placeholders for late and failed verifiers, the cancellation of what has not begun, and
the threads that run on. A verifier may raise or never answer.

### ConfiguredVerification

`profile` is the registry in use and `published` what each of its sources says over time (both
are chosen once, from `Worlds`); `cached[u]` is the snapshot of a document. A request of the
log has a time of its own. Each operator named `...Evidence` or `...Outcome` is one verifier
adapter of `configured.py` with the verifier it calls. By `VerificationOutcome`, the answers in
time are any subset of those asked. Names are compared case-folded in the code, so a name is a
value here. What is wrong with a signature is `none`, `window` (outside its validity) or
`forged`; the code checks the window before it looks for the key.

Whether a signature passes with the keys of a document is `SignatureOutcome`. The verifier tries
the methods of all its keys (`Candidates`; `Jwk` says what a key is good for), and `RfcOutcome`
puts the attempts together: an error first, unavailable if all are, otherwise a mismatch, which is
also what a document without any usable key gives. The library refuses every method but the one a
signature names, if it names one, so that beside keys of other types a key that is not held is a
mismatch instead of unavailable. `Accepts` is what is checked after the cryptography: the key is
active at the time of the request and its `alg` allows the method. `HonestIsRefusedIffUnsupported`
says that these are the only two ways in which an honest request is refused.
`docs/identity-verification.md:26` of the repository says that unsupported methods do not become
identity failures; in these two cases they do (`web_bot_auth.py:345`).

A 304 renews what is held, whatever its source says by now (`RenewList`, `RevalidateKeys`). For
the sources in `Tagged` the answer is about the content that is held, as with an entity tag; a
source outside it sends dates only, and may confirm a content it has dropped (SourceRefreshRedirects
is about that). What `EstablishedWasPublished` says of the validity of a list is about the former;
of the latter it says no more than that the list once held the address. The run has lists of both
kinds. The scope of DNS evidence is that of the profile (`DnsScope`).

Keys are found in three ways. A source is a key directory, a JWK set, or an agent card, which
holds keys or names a JWK set (`Delegates`), which may be no source of the registry. The trust
policy (`Allows`) is the registry and whatever the caller adds (`Trusted`, nothing by default);
`Required` is the gate every delegated document passes: trusted, cached, of the expected type,
fresh at the time of the request. `Material` says whether there are keys to judge a request
with, `KeyDocument` where they are, and `KeepsScope` judges the document with the keys, not the
card that led to it. `FetchKeys` and `RevalidateKeys` are the refresh, which stores each source of
keys as a key directory (a JWK set that was put in the cache before is one afterwards, and
the verifier then finds a document of the wrong type). `Provision` is what puts JWK sets and agent
cards there; in the repository only a program that calls `cache.put` itself does, as
`tests/identity/crypto/test_configured_runtime_discovery.py` does.
A malformed cached document is left out: the refresh parses a body before it stores it.

### SessionFeatureState, AnalysisService

An event is its position in the log, and a history is a set of events: sorting makes the order
of the deque a function of it. `Update` is `update`.

`AnalysisService` is the HTTP server. A connection is a sequence of tokens, the head of a
request or a line of its body, sent by a client that waits for each answer before it sends the
next request and may stall or hang up between any two tokens or in the middle of a line.
`stage[p]` is where the handler thread is: `Dispatch` reads a head and `Serve` does everything
before the body is read (with the answers that leave it unread), `ReadBody` waits for
Content-Length or the end, `Skip` and `Detect` consume one line, `Finish` answers. A request that
raises what `do_POST` does not catch ends its thread without an answer: a token that is not ASCII
in `Serve`, a path that cannot be taken apart or an identifier that cannot be encoded in `Raise`.

The length a head announces, in lines, need not be that of the body. What is announced and not
sent is waited for. What is sent and not announced, and the whole body after an early
answer, stays on the wire, and the library takes the first of it for a request line. Most lines
are none (`RefuseLine`): the answer is 400, or nothing to an empty line, and the connection ends.
But a line may read as the head of a request (`RequestLines`). Then what follows is taken for its
headers up to an empty line, which may be that of the client's next head (`TakeLine`,
`ReadHeaders`), and it is served. `AnswersMatchRequests` says what remains true: up to the first
answer that leaves something unread the answers are those of the requests one by one; a refusal is
a connection's last answer; and there are more answers than requests only after lines that read as
requests.

Heads are taken to arrive whole, with fewer headers than the library's limit of a hundred, and
request lines to be of HTTP/1.1; a line cut by Content-Length is two lines of the body. Left out:
what GET answers, the scores of a detection (a detection stands for the history its features are
taken from), TLS, `max_events_per_client = 1`, which the configuration accepts and the histories do
not, and timestamps of the year 1, whose window would begin before all time (`session.py:55`).

### LocalRun

`log`, `labels` and `dirs[d]` are the inputs and what is at the path of an output. `stage[o]` is the
file the command of operator `o` writes next into its staging directory `staging[o]`, or `publish`
for the rename. `Begin` looks at the path (`lexists` for a run, `exists` for an export: a dangling
link is nothing to the latter), `Analyze` reads the log to its end, `Evaluate` reads the labels and
the detections, `Publish` renames, which by POSIX takes the place of nothing or of an empty
directory. `ReadLog` and `WriteLabels` are `ati campaign labels`. The server appends a line in two
steps, so that a command can meet half of one; other programs may put something at the path of an
output (`Occupy`). `Fail` is any exception, interrupt or kill at any step. What
the command then leaves of its staging directory has a name of its own, from `mkdtemp`, at which no
command looks again: that the `finally` and `except` clauses remove it, or fail to, is not modelled.
A detection stands for its id and the side of the threshold its score is on. Left out: the
fractions taken from the counts (precision, calibration), what an export says, a manifest that
is refused (it is a `Fail`), and the time a read takes.

### StratifiedRun

`ati evaluate-stratified` beside those commands: `Stratify` judges the detections of a published
run by the labels as they are now and cuts them by day, family and client as the file of metadata
says. It is one step: it reads each file once, a published run never changes, and labels are
replaced whole. Metadata lacks a request, has it without a session, or has a row that cannot be
used, which is an error only for a request that is labelled. The threshold is that of the run. One
report is enough to look at, since reports have nothing to do with each other. Left out: the
fractions, and where the report is written.

### ControlledCorpus

`files` are the model table, the split manifest and the preflight report at the paths their users
keep giving, each with the number of the preflight that wrote it. `stage[o]` is what the command
of operator `o` does next: a preflight checks its whole corpus (`Prepare`) and then replaces the
three files in turn (`Write`); a baseline reads the table, reads the manifest and evaluates, in
a process of its own; any command may fail at any step (`Fail`). `Splits` are the temporal,
task and grouped holdouts with the purge. A row of a table carries the person it is of for the
sake of the properties; the code's table has no such column. The seeded shuffle is any order;
`TargetSize` rounds a half to the even neighbour, as Python does. Left out: the derivation of
features (a row has one `shape`), temporary files a kill leaves, fractions other than the
default, and windows whose labels do not sort in the order of time.

### BaselineLadder

What a report says of a split: `Threshold` is chosen on the rows a model is trained on, for a
target rate of false positives, and `Flagged` uses it. A fitted model is any map from shapes to
scores, and the constant rung any prevalence strictly between 0 and 1, since both classes are
there. Scores and rates are multiples of `1 / One`, so that they tie. `ThresholdsAreTight` speaks
of the final temporal holdout of every report as it appears. Left out: how a model is fitted, the
fixed threshold 0.5 when no rate is asked for, the default for rows without negatives (the gates
rule it out), confidence intervals, ablations and the verdict.

## 3. Runs

| run | asks | bounds, and why they are enough |
|---|---|---|
| SourceCacheCrash | do crashes and overlaps leave a usable cache | two writers and a reader, two URIs that may share a content, one kill: any two steps of two puts overlap, with every failure |
| SourceCacheLost | is an update of the map atomic (it is not) | as SourceCacheCrash |
| SourceRefreshLoop | what one run leaves behind; is the cache a map for one writer | a list and a directory that move to a mirror and back, or redirect in a circle; the mirror reuses the entity tag of the list; one redirect is followed, so that a second is too many; a kill; clock 0..1: fresh and expired. `ImplementsStore`, `VisitedSourcesAreFresh` and `CacheNeverGoesBack` hold for one writer at a time and say nothing of the loss of entries when two overlap: that is SourceCacheLost and SourceRefreshOverlap |
| SourceRefreshOverlap | do overlapping runs forge freshness or bindings | two runs of one list or of one directory (in each behaviour only one source changes), two contents, clock 0..2 (a directory: 0..1): a content can be dropped and come back |
| SourceRefreshRedirects | does a 304 confirm the content it renews (not after a move) | one list, one mirror with a newer date |
| VerificationManager | what threads and time can change | three verifiers, two workers: one waits in the queue; ten kinds of answer, all the resolver tells apart |
| ConfiguredVerification | what verdicts rest on | two providers, a list and a directory each (strict and compatible), two moments; one source changes, and both lists are there if it is the strict directory; the 304s of one list are about what is held, those of the other may not be; keys of three types, one active at first only and one that is not sound; signatures that name their method or do not; and two registries in which an agent card leads to a JWK set that is registered or one that is not, each document of which may change |
| ConfiguredGoogle | several authoritative lists of one scope | two lists of one provider |
| AnalysisService | do bounded histories lose the wrong thing; is every answer that of its request alone; does a client hold up another | every pattern of four events of three clients (and some of five, in which an evicted client comes back) with every choice of three timestamps, for two places, histories of two, window of two; and two connections with every kind of request before or beside a plain one, a batch at and over the limit, records that raise, and bodies longer or shorter than announced or left unread, with lines that read as requests or do not |
| ControlledCorpus | do the gates fit the holdouts, are people kept apart, what do errors leave, are thresholds right | corpora of two to four sessions with every choice of task, window and person, some of six, so that the grouped holdout has both classes and a window several before it; then a second preflight; one session per task and class is enough; every model of three scores over three shapes, rates 0, a half and 1, which a count can meet exactly |
| ControlledCorpusMixed | does every report keep people apart (it does not) | two preflights of four sessions and four people |
| LocalRun | is what is published whole, covered and final, whatever fails; do reports add up | two commands on one output and one log of two lines, five files of labels (none, some, all, of another corpus, a repeated id): any command overlaps any other, and the log, the labels and the path change between any two steps; three files of metadata: two days of one session, no session, missing and malformed |

Four runs are expected to end in a violation; each shows where a document says more than the
code does:

- `SourceCacheLost`: `cache.py:19` promises an atomic manifest. Its replacement is atomic, the
  update is not: two refreshes that overlap lose an entry.
- `SourceRefreshRedirects`: ADR 0009 lets a 304 renew a range list "because the provider has
  confirmed the list is unchanged". The validators of the place a redirect led to are kept under
  the URI of the source. When the list is back at its own place, that place answers 304 to the
  newer date of the other one, and the other one's content is renewed.
- `ConfiguredGoogle`: `docs/provider-verification.md:8` says that network categories prove the
  provider. Google's five lists are separate sources, each authoritative against what is not on
  it, so an address on one of them ends in a conflict.
- `ControlledCorpusMixed`: `README.md:325` of the repository promises that a model is never scored
  on a person it was trained on. That is so of the files of one preflight. The table and the manifest
  do not say which preflight they are of, so after an error between their replacements the
  baseline purges the rows of one corpus by the groups of another of the same size.

Deadlock is not checked where the system stops: a call of `verify` returns, a log ends, a bound
on calls or preflights is reached.

SourceRefresh and ConfiguredVerification state the types of their variables where they declare
them and have no type invariant in a run: the cache's is that of SourceCacheCrash.

Fairness. `RunsEnd` assumes that a started refresh goes on taking steps (the system runs it, and
every network call has a timeout), so a circle of redirects must end by their limit; nothing is
assumed of origins, of other processes or of kills. `VerifyReturns` assumes only that the caller's
own steps are taken, one of which is the timeout of `wait`; verifiers may hang for ever.
`RequestsAreAnswered` assumes that a thread with input goes on; clients may stop at any point.

## 4. Proofs

TLAPS proves, for any number of processes, URIs, contents and kills:

- `SourceCacheProofs`: `TypeCorrect`; `WholeBlobs`, `ReadersSafe`, `TempFilesRemoved` (the
  invariants of SourceCacheCrash); `OneWriterImplementsStore` (ImplementsStore, if there is at
  most one writer). The inductive invariant says what the local state of a `put` owes to the
  files: past `PublishBlob` the blob named by the call is whole, the manifest a process has loaded
  names whole blobs only, and a whole temporary file is synced. Without the part about loaded
  manifests the invariant is not inductive, because `PublishManifest` writes what was loaded
  earlier. Blobs are never deleted, which is why an old copy stays good.
- `SourceRefreshProofs`, on `RefreshAssumption`, for any sources, places, redirects and
  contents. For any number of refreshes: `BindingsEndorsed`, `RetrievalsBacked` and
  `ListsVouchNearPublication` (the invariants of SourceRefreshOverlap). The invariant says of
  every document, wherever it is (in the cache, in a manifest that was loaded to be written back,
  in an answer, in a draft, in a `put`), what is known of it (`Sound`): its retrieval is no later
  than a time at which a place of its source served its content, under the tag that is stored.
  That is stated of the histories, which only grow, so what is known stays known while others
  write. A 304 renews the right content because a request that still has its validators has not
  left the host of its source (`OnTheWay`), and there the tag means one content. This is where
  `TagsIdentify` is needed, a hypothesis of the last two theorems which the constants of both
  runs satisfy: a server that sends dates only confirms whatever is not newer, also when it has
  gone back to an older content. For one refresh at a time: `RefreshImplementsStore`,
  `VisitedFresh`, `NeverGoesBack` (those of SourceRefreshLoop). What a fetch brings is newer than
  all that is cached, and what a `put` has loaded is still what is cached, so it replaces one entry
  by a newer one. These three take `CacheAssumption`, and the metadata of the cache to include
  every document a refresh may make.
- `VerificationProofs`: `TypeCorrect`; `LateAnswersNeutral`, `NothingBegins`;
  `ManagerImplementsOutcome` (every step of the threads is a step or a stutter of
  VerificationOutcome, whose resolution is that of the answers in time alone: placeholders are
  neutral, so the resolver does not see them); `LostAnswers` (what a lost answer can do to a
  resolution, for any claim and any finite or infinite set of evidence).
- `ConfiguredProofs`, on `ConfiguredAssumption`, for any registries, sources, keys, methods, times
  and requests: all five invariants of the run ConfiguredVerification (`EstablishedPublished`,
  `ForeignSigner`, `HonestRefusals`, `InlineIdentifiesNobody`, `OldSnapshotsNeutral`). The inductive
  invariant is small: a snapshot holds what its source has published by its retrieval, and at its
  retrieval if 304s are about the content that is held (`Tagged`), a list expires a validity after
  its retrieval, a key directory came over HTTPS, and a binding covers only keys that were there
  when it was made. Everything else is about one request: what the evidence of each verifier can be
  (`StrongPass`: a pass that is more than a key's comes from a source that vouches for the request;
  `Harmless`: that of an honest request speaks for it or says nothing, unless it is of keys that are
  `Unsupported`), and what the resolver makes of any set of such evidence (`ResolveFacts`).
  `EstablishedPublished` and `HonestRefusals` need `AgentsNamed`: every source of the scope "agent"
  names the agent, and `DnsNamesProviders`: no FCrDNS profile has that scope. The packaged registry
  is such a one, but `load_provider_profiles` takes others: a key source without a name establishes
  any agent that is claimed, and such a list is in conflict with every honest claim.

- `ControlledCorpusProofs`, for any corpora, operators, gates and number of preflights:
  `CorpusTypeCorrect`, `OnePreflightSeparates`, `GatesSupport`, `EvaluatedPassed`, `ReportFollows`
  (the safety invariants of the run ControlledCorpus; `ReportFollows` if there is one operator).
  The splits of one manifest are looked at first, without any state. The inductive invariant then
  says that there is a history, an accepted corpus for each preflight so far, to which all files,
  all copies of files in the memory of a command and the last report agree; a new preflight makes
  the history longer, and what agreed with the shorter one still does. No variable records the
  history: the files alone do not say what corpus they are of, so the invariant has to claim that
  one exists.
  Of the models of a split, for any finite rows, scores and rates: `ThresholdIsTightest` and
  `ThresholdsTight` (the property ThresholdsAreTight of the run). The candidates that keep to
  a rate are naturals, so there is a lowest one; what it counts is what `Flagged` flags; a lower
  score flags more and was not kept. For a report, the inductive invariant gives that the rows of
  a final holdout have both classes on the side that is trained on.
  The proofs rest on `CorpusAssumption` (windows are numbers, `Unknown` is neither a window nor a
  person, and a class needs at least one session: `prepare_pf2_dataset` refuses less) and, for
  thresholds, on `LadderAssumption` (scores and rates are in 0..One).

- `LocalRunProofs`, for any operators, paths, logs and files of labels: `TypeCorrect`,
  `RunsWhole`, `ReadyCovered`, `RunsStay`, `StrataSum` (all properties of the run
  LocalRun). The invariant says, for each place a command can be in, which files its staging
  directory has and what is in each: the evaluation is of the detections beside it and of the labels
  as they were when it was made. It is stated over values, not over variables, so that a step of one
  command leaves what is said of the others as it is; only the growth of the log matters to all, and
  a first part of a log stays one. `ReadyCovered` then needs no more than arithmetic on finite sets:
  the four counts are of disjoint sets of detections, whose union is all of them when none is
  unlabelled. With reports beside them the commands are still those of LocalRun
  (`StratifiedRunsAreRuns`), so all this holds of them too. `ReportsAgree` (a report says what the
  run said as long as the labels are those of the run) rests on an invariant of its own: a report
  is about the detections of a run that is there, which `RunsStay` keeps true, and a run's
  evaluation is of its own labels, which `RunsWhole` says. For `StrataSum` the sum over any finite
  set of strata is a fold, of which a lemma says what one more stratum adds; the strata of a
  holdout have no request in common, and each labelled request is left out or in one of them
  (`HoldoutsCutTheSameRequests`: so all holdouts cut the same requests). The proofs rest on
  `RunAssumption` (bounds are numbers, people write files of labels) and `MetadataAssumption`.

- `SessionProofs`, on `SessionAssumption`, about one detector: `UpdateKeepsSession`. `SessionOK`
  says what a detector's state owes to the log of its events: each history is the `RecentWindow` of
  the log, the places of the table are the clients whose session has not been evicted in the order
  of their last events, and evictions and places make up the sessions that ever began. `update`
  keeps it. Three things make that hard, and each is a part of the proof. An update sees only what
  earlier updates have kept, so what is recent in the kept part must be what is recent in the
  session, although events come late and the window moves on (`Compaction`:
  whatever was cut off stays cut off). A client that lost its place is told from the log alone, by
  counting the others that came after its last event; that this count reaches the size of the table
  exactly when the client reaches its head is an invariant of the table (`Tracked`: the clients
  after the k-th place are those that came after its last event). And a session that starts anew
  must forget what the old one knew (`SessionOf`).
- `AnalysisProofs`, on `SessionAssumption` and `ServiceAssumption`, for any connections, requests
  and limits: `ServiceTypeCorrect`, `HistoriesAreRecentWindows`, `SessionsAccounted` and
  `AnswersMatch` (all invariants of the run AnalysisService). The invariant speaks of one
  connection at a time (`ConnectionOK`), and a step of one leaves what is said of the others
  untouched, which is what makes an answer independent of them. It says what is on the wire at each
  stage of the thread: the head of the request and the first lines of its body (`Asking`), those
  lines alone while the body is read (`Reading`), and once the thread has read what it reads of
  the request nothing, or first a line that is left (`Resting`, in `Analyzing` and `Answered`), which
  stays first when the client sends its next request (`Barred`). Once such a line has read
  as a request (`Loose`) nothing is said of the wire any more. Of
  a batch it says how far it has come (`Analysed`): the first k lines hold nothing that ends the
  analysis, the detector's log is their events, and the detections are those of that log. The
  answer that should be given is stated from the whole body at once (`Verdict`, `Log`); that it is
  reached line by line is what `LogAppend`, `FoundAppend` and `FirstStop` show.

Liveness (`RunsEnd`, `VerifyReturns`, `RequestsAreAnswered`) is only model-checked, since it needs
fairness and ENABLED. What it rests on besides them is proved, for each of the three: that whoever
should come to an end has a step to take until then, and that every step of its own leaves less to
do while nobody else's leaves more. A step to take means that the conditions of the next action
hold, written out, in place of ENABLED; less to do means a number that the actions count down, and
that is what bounds the wait.

- `OwingThreadsCanStep`, `OwingThreadsGetOn` (AnalysisProofs): a thread that owes an answer finds the
  head, the whole body or a line it knows how to take, and answers after at most as many steps as
  the body has lines, and two. Both leave out connections on which a line left unread has read as a
  request (`Loose`); for those there is the run alone.
- `CallerNeverStuck`, `CallerGetsOn` (VerificationProofs): a verifier without evidence was not done
  when `wait` returned, so its future can be collected; `verify` returns after as many steps of its
  caller as there are verifiers, and two.
- `RunsNeverStuck`, `RefreshesGetOn` (SourceRefreshProofs), by an invariant of their own (`RunInv`:
  the call of the cache that each place of the loop is in, its temporary file, and the count of
  redirects): a refresh comes closer to the next source of its plan with each step. The first
  supposes that `NoTrip` is no trip.

Every invariant and every action property of the runs that pass is proved.

## 5. Plan

Done: the modules above, in the order in which they are listed.

To do, in this order:

1. The rules and the normalisation of records in AnalysisService.

What is added should sharpen the runs there are (more steps under the same properties) before it
adds runs.

## 6. Not modelled

- The replay cache (`identity/crypto/replay.py`): no code of the package gives one to a verifier,
  so nothing that runs depends on its order or its bound.
- The comparison of pinned standards (`identity/standards_health.py`): one pass over fetched
  metadata that changes nothing.
- The addresses, names, TLS and sizes of a fetch: they can only make it fail, and `FetchFails`
  may happen at any request.
- Simulations, fitted models, confidence intervals, calibration and the scores of a detection:
  floating-point arithmetic without state. A model or a score is any value where one matters.
- The rows of an export: a projection of one report. Its directory is in LocalRun.
- Parsers and cryptography: a document parses or not, a signature is good or not.
- The packaged JSON tables: the registry of profiles is a constant of ConfiguredVerification.
- The lab, scripts, workflows and docs, which are not part of the program.
