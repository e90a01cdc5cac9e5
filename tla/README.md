# Verification of the Cloud Native Security Inspector

TLA+ models of the concurrent and failure-prone parts of CNSI (Narrows), the TLC
runs that check them on small instances, and TLAPS proofs of what matters most
for instances of any size. `PROJECT.json` lists every component, run, mutant, finding,
hazard and theorem, and maps each definition to the lines it models.

To check a model: `tlc -config MCScanJob.cfg MCScanJob`. To check the proofs:
`tlapm` on each module whose name ends in `_proofs`.

## 1. Inventory

| Component | State it keeps | Operations | What is hard | Modelled in |
|---|---|---|---|---|
| **Trivy scanner adapter** `cnsi-scanner-trivy` | Redis: gocraft's job queue, in-progress lists and dead set; one record per scan with a TTL. Local: what each worker holds | accept a request (enqueue, create the record), scan (three or four read-modify-writes of the record around Trivy), answer a report request | HTTP handlers and workers share Redis without transactions; the pod crashes and jobs run again; keys expire mid-scan; replies are lost | `ScanJob`, `ReportService` |
| **Goroutine pool** `cnsi-manager/pkg/runtime/grpool` | job queue, worker tokens, wait group, last error, stop channel | Plan, Queue, Wait, Close; the processor; one goroutine per job | blocking channels in a circle, selects with several ready cases, closing a channel someone may send on | `GrPool` |
| **Quarantine enforcer** `cnsi-manager/pkg/policy/network` | none of its own: labels on pods, one NetworkPolicy per namespace | Enforce, Revoke, HasBeenEnforced | each is a series of API calls that can fail in the middle; scans overlap; pods change under them | `Quarantine` |
| **InspectionPolicy controller** `cnsi-manager/pkg/controllers` | the policy's status; namespace, service account, ClusterRoleBinding, CronJobs, DaemonSets | Reconcile | reads from lagging caches, partial failure, restarts, edits and deletions under way, objects shared by policies | `PolicyReconciler` |
| **Setting controller** | three conditions of a Setting and their aggregate | Reconcile: ping, register registries, apply the scan schedule, open projects | errors are only logged, so only the conditions tell what is missing; edits under way; the aggregate gates the other components | `SettingReconciler` |
| **Harbor provider and its Redis cache** | cached security data; projects, registries, replication policies and executions in Harbor | Read, Request, RegisterKnownRegistries, ApplyConfig | stale and unreadable cache entries, check-then-create by several scanners, an artifact that is requested and arrives later | `ImageScan` (with `SettingReconciler`), `PkgLoad` |
| **Image scanner** `cnsi-inspector/pkg/image-scanner` | the report of a scan | one pool job per namespace; for each image Trivy, cache, Harbor, verdict; then enforce or revoke | scanners share Harbor and the cache; any call fails; a verdict from data that is not final | `ImageScan`, `GrPool`, `Quarantine` |
| **Risk scanner** `cnsi-inspector/pkg/risk-scanner` | the server's maps and its `IsRunning` flag | post a resource, analyse, poll, exit; two containers of a Job | no lock, goroutines per request, either container restarts alone, shutdown by agreement | `RiskScan` |
| **CSP token provider** `cspauth`, `lib/retry` | a secret with the access token and its expiry | GetBearerToken, refresh with retries | several processes share the secret without coordination; tokens expire between check and use | `TokenProvider` |
| **Exporter** `cnsi-exporter`, with the VAC provider | goroutines per report and output | forward one report to the configured outputs | the scanner gets 200 before anything is delivered; one output of several fails; restarts | `Exporter` |
| **Kube-bench scanner** | watched directories, time of the last check, controls collected so far | choose a benchmark, check each target, post, watch files | events during a check and in the cool-down; controls of old checks posted again; fallbacks of versions and files | `KubeBench`, `BenchConfig` |
| **Package-load scanner** | status of the scan, a child process with one job | lsof, pods, Harbor, child, report | four sources asked at different times while containers are replaced; a poll without limit; panics | `PkgLoad`, `Collector` |
| **Workload scanner** and the collector all scanners share | the report | namespaces, pods, owners, report | the cluster changes between the calls | `WorkloadScan`, `Collector` |
| Governor client | none | two calls | generated code | its two calls in `Exporter` |
| Portal, deepcopy, other generated code | | | | not modelled |

How they interact. The Setting controller makes Harbor ready. The policy controller creates,
per policy and scanner, a CronJob or DaemonSet in the policy's work namespace. Each run of
the image scanner reads the policy, walks the namespaces on a pool, asks the Harbor provider
for vulnerabilities (and the provider asks Harbor to fetch images it does not have), and calls the
enforcer. The risk scanner does the same with a server of its own. All scanners post their
reports to the exporter, which needs a CSP token for Governor; the image scanner needs the same
token for VAC. The Trivy adapter is called by Harbor and produces the vulnerability data.
Kubernetes objects, Harbor and one Redis cache are the only state the processes share; handlers and
workers of the adapter share its jobs and records in Redis.

What makes each correct:

- *Adapter*: an accepted scan is disposed of; what a client is told about it never
  goes backwards without a failure; "finished" always comes with the report.
- *Pool*: `Wait` returns when all is done and with every error; never more jobs
  at once than workers; the caller is never stuck.
- *Enforcer*: a labelled pod is isolated at all times; failing workloads end up
  isolated, passing ones free.
- *Policy controller*: the cluster converges to what the policy asks for, once per
  scanner, with the role the scanner needs, which follows the work namespace; no scanner outlives the policy.
- *Setting controller and Harbor provider*: healthy means what it says; a setting comes into force;
  images get into Harbor and are scanned.
- *Image scanner*: only images Harbor has let a workload pass; the verdict follows Harbor's reports.
- *Risk scanner*: a report says what is true of the cluster; the Job ends, and not
  before its report is out.
- *Tokens and exporter*: a fresh token is never replaced, and its recorded expiry never later than the real one;
  a report that was accepted is delivered, or something went wrong that excuses it.
- *Kube-bench*: a node is checked against the right benchmark and files, and a modification is reported.
- *Package load, workloads*: a report speaks of what was there during its scan, completely
  where nothing changed, and reports settle with the cluster.

## 2. Modules

| Module | Content |
|---|---|
| `ReportService` | abstract: the status codes a polling client may see for a scan, in which order |
| `ScanJob` | detailed: handlers, queue, workers and records, one step per Redis command; `Service` instantiates `ReportService` over it |
| `GrPool` | the pool, its processor and job goroutines, with the caller |
| `Quarantine` | runs of the image scanner that enforce and revoke, one step per API call |
| `PolicyReconciler` | the controller's worker, API server, informers' caches, users, garbage collection |
| `RiskScan` | client, server, analyses and containers of one risk-scanner Job |
| `TokenProvider` | the calls of GetBearerToken and the secret they share |
| `Exporter` | extends `TokenProvider`: reports, outputs and VAC lookups that compete for a token |
| `SettingReconciler` | the Setting controller and what it does to Harbor |
| `ImageScan` | extends `SettingReconciler`: image scanners, the cache, Harbor |
| `BenchConfig` | functions: versions to benchmarks, processes to components, candidates to files |
| `KubeBench` | extends `BenchConfig`: the process with its checks, watches and reports |
| `Collector` | functions: selectors, owners, containers |
| `PkgLoad`, `WorkloadScan` | extend `Collector`: one scanner each, over a cluster that changes |
| `MC*` | constants for TLC; one `.cfg` per run |
| `*_proofs` | section 4; those of `Exporter` and `ImageScan` also cover the modules they extend, that of `ImageScan` also `GrPool`, whose jobs scan, that of `ScanJob` its refinement; `NodeScanners_proofs` is about `PkgLoad` and `KubeBench`, the scanners of a node |

Operators named after what they break (`ApplyStatusOnly`, `SelectOverwriting`, ...), each marked
"Mutant" in its comment, are variants of a definition with a plausible bug. They
are no part of any `Next`; putting one in the place of the definition shows that
the property named in `PROJECT.json` notices.

`MaxFaults`, `MaxFailures` and their likes bound what may go wrong: a failing call takes from the bound, and so
do crashes where they have no bound of their own. Time, versions and contents are numbers up to a bound.

### ScanJob

`handler[j]` is where `AcceptScanRequest` stands for job j; `queue`, `inProgress`,
`orphans`, `stuck`, `forgotten`, `acked` and `dead` are gocraft's lists; `store` holds the records;
`pc[w]` and `copy[w]` are a worker's position in `scan()` and the record it read
and will write back.

| Action | Code |
|---|---|
| `Accept`, `Enqueue`, `Create` | `handler.go` AcceptScanRequest; `enqueuer.go` Enqueue: first the queue, then the record (SET NX) |
| `Fetch` | gocraft hands the oldest job to `ScanArtifact`; if the reply is lost, the job is `stuck` in the list of a pool that is alive |
| `StoreGet`, `StoreSet` | the GET and the SET XX of `UpdateStatus`/`UpdateReport`; a nil record panics and is recovered as an error |
| `Trivy` | the wrapper, with either outcome |
| `Ack` | gocraft removes the job: done, or with MaxFails 1 into the dead set; if the EXEC fails, the job is `stuck` |
| `Crash`, `Restart`, `Reap` | the pod dies; gocraft's reaper pushes its jobs back, the `stuck` ones too; if a call fails, it may strike the pool off with jobs in its lists, which are `forgotten` |
| `Expire` | a record's TTL passes |

Any Redis call, of the handlers, of the workers' records or of gocraft, may fail with or without effect (`Fault`): a lost
reply. One thing is assumed of gocraft: the heartbeats of a pool that is alive get through, so that the reaper does
not take it for dead. What a worker reads and
writes is status and presence of the report; times, errors and the report's content
are abstracted.

### GrPool

Channels are what Go makes of them; `workers` counts tokens. The caller follows
`image-scanner/controller.go`: Plan, Queue each job, Wait, deferred Close. The
job answers on its channel at any time (`Answer`), its goroutine's select (`Select`)
takes the answer, the stop signal or the done context, and the two deferred calls
follow in order (`Done`, `Release`).

### Quarantine

A pod is absent, plain or carries both labels: the code always writes both in one
Update. `run[r]` holds the locals of a scan between API calls. Optimistic
concurrency is modelled without counters: `stale` is the set of runs whose copy of a pod
has been overtaken, whose Update is refused. The verdict (`passes`) is read in
`Inspect` and acted on later, so it may be out of date. `Enforce` and `Revoke`
share `GetPod` and `PutPod`, as their loops differ only in the target.
The environment: `Flip` (images and vulnerabilities change), `Churn` (pods come and go),
`Touch` (others write pods), `Crash` (the scan is killed), and any call may fail.

### PolicyReconciler

`objects` is the API server, `cached` what the informers hold; `Sync` updates one kind
at a time. The worker goes through Reconcile's calls in their order (`Rank`), with its
locals in `worker`: the policy it read, the executor it will write, whether the
status needs an update, and the error variable, which the code overwrites scanner
after scanner. `CheckCronJob` and `RetrieveCronJob` are `cronjobForInspection`,
`EnsureDaemonSet` is `checkKubebench`/`checkPkgLoad`. `CollectGarbage` follows owner references.
A policy's user edits its spec and its `workNamespace` (`Edit`, over `WorkNamespaces`); the event `move` counts the latter. CronJobs
and DaemonSets carry the namespace they were made in: `EnsureRoleBinding` has both the Create and the Update that points the
binding elsewhere, a CronJob is found in whatever namespace it is, a DaemonSet only in the present one.
Only policies are watched (`SetupWithManager`), so nothing else queues one; `Resync` is
controller-runtime's period.

### RiskScan

`maps` is a sequence because `Clear` makes new maps while an older analysis may
still iterate its own: the last one is what the server's fields refer to. Everything
the code does without a lock may interleave; two goroutines in one map may also
end the process (`Fatal`). `scanned` are the images Harbor has a report on: for another one it returns nil without an error, which
the analysis dereferences (`FetchNil`), and the server dies (`panicked` remembers it). Harbor may end the scan of an
image at any moment (`HarborScans`). Risks are kept by pod, image, vulnerability and kind,
with how often they are reported; score and wording are abstracted. The model's
pods and services share a namespace, since the code compares none.

### TokenProvider and Exporter

A token is the time until which CSP honours it, the secret a token with its recorded expiry.
`call[c]` is where one call of GetBearerToken stands, in whatever process; as in `Quarantine`,
`stale` replaces resource versions.

| Action | Code |
|---|---|
| `GetSecret`, `CreateSecret` | getOrCreateSecretForAccessToken: any error of Get leads to Create |
| `CheckExpiry` | IsExpired, with the clock of the moment |
| `GetApiToken` | the user's secret |
| `GetCspAuthorization`, `UpdateSecret`, `Retry`, `Wait` | refreshToken inside the retry helper: clock, CSP, Update; three attempts that offer one and the same copy |
| `PostReport`, `ForwardEvent` | a scanner's POST, `mainHandler`, `forwardEvent`: a goroutine per output |
| `OpenSearchPost`, `SendReport`, `SendFails` | the goroutines; `UpdateTelemetry` is a PUT of all workloads' containers (`Payload`) |
| `GetVacProductInfo` | GetProduct for an image, with its ways to answer "untrusted" |
| `Restart`, `Tick` | the exporter is killed; time passes |

### SettingReconciler and ImageScan

A Setting's versions are numbered, and Harbor's registries and schedule are the version they were last
told of (0: never). `ctl` is Reconcile with its copy of the conditions and what its loop has left.

| Action | Code |
|---|---|
| `Take`, `NewProvider`, `UpdateStatus` | Reconcile's start, NewHarborAdapter, the status update, which conflicts after an edit |
| `Ping`, `ListRegistries`, `RegisterRegistry` | data source ready; RegisterKnownRegistries, new ones first |
| `GetScanAllSchedule`, `SetScanAllSchedule`, `ListProjects`, `OpenProject` | ApplyConfig and scanOnPush |
| `StartScan`, `RunFails`, `NextImage`, `ExportImageReports` | the image scanner's run over the images of a workload |
| `Scan`, `GetReport` | the Trivy service; nil responses and reports panic |
| `ReadCache`, `Fetch`, `WriteCache`, `Assess` | Read through the cache, and the baseline's verdict on a store |
| `GetProject` ... `Trigger` | Request: project, registry, replication policy, execution |
| `Replicate`, `ScanAll`, `Rescan`, `FinishScan`, `Expire` | Harbor and Redis on their own |

What Harbor has it keeps: nobody deletes artifacts, projects or registries. A store is a severity, or
one of the states before it: `scanning` (an overview without a severity, which passes every baseline)
and `unscanned` (no overview, stored as an error that cannot be read back).

### BenchConfig and KubeBench

`BenchConfig` has the code's recursions as recursive functions: `MapToBenchmarkVersion` counts a
version down, `GetOcpValidVersion` an OpenShift version; `GetPlatformInfo` and `GetBenchmarkVersion`
ask the API server separately, so each may fail alone. `FindExecutable`, `GetBinaries` and
`FindConfigFile` go through candidates in order. In `KubeBench`, `content` counts modifications of the node's
files, `run` is the process: the targets to check, `controls` (the collection that is never cleared), and
what is still to post. `missed` says that a modification made no event or its event was dropped. The exporter forwards each report in a
goroutine of its own, and the time in a report has a resolution of one second, so what a reader has is a set: `newest` holds, for each target,
what the received reports with the latest time have seen, several if they share their second, in whatever order they came (`Taken`).

| Action | Code |
|---|---|
| `Start`, `GetPolicy`, `ChooseBenchmark`, `RunChecks`, `SkipChecks`, `Checked`, `Post`, `Posted` | `main`, Run, runChecks, the report of each control |
| `AddWatch`, `HandleEvent`, `Edit` | the watcher and the goroutine of its events, with the cool-down |

### Collector, PkgLoad, WorkloadScan

`Selects` drops matchExpressions as the code does (the selector that Add returns is dropped, section 5).
`GetOwner` goes from a pod over its ReplicaSet to the Deployment. In `PkgLoad` a container's ID is its name and
how often it was started, so a restarted one is another; `ready` are the running containers whose probe succeeds (`ProbeContainer`), the
only ones the loop takes (`Statuses`); `scan` is the goroutine's variables, `child` and
`job` the process `/scanner`. `Dies` is a panic, which takes the child with it. In `WorkloadScan` each
namespace's job lists pods once and gets their ReplicaSets one by one; `ever` and `always` are history
variables: the pods that were there at some time of the scan, and all the time.

## 3. Runs

| Run | Bounds | Shows |
|---|---|---|
| `scanjob` | 2 jobs, 2 workers, 2 faults, 1 crash, 1 expiry | one place per job, final statuses, refinement of `ReportService`, `AcceptedIsDisposedOf` |
| `grpool` | batches of 4, 1 and 0 jobs, 2 workers, queue of 1, cancellation | pool accounts, errors, progress |
| `quarantine` | 2 workloads, 3 pods, 1 run, 3 verdict changes, 2 disturbances | `LabelledIsIsolated` always; `FailedIsQuarantined` and `ReleasedIfUndisturbed` in the end |
| `policy` | 1 policy, 2 specs, 2 work namespaces, any 2 events of edit, change of the work namespace, deletion, fault, crash, deleted CronJob, stale list | one CronJob per type, role before scanner, the role follows the work namespace, convergence of objects and status, no scanner left over |
| `riskscan` | 2 pods, 1 service, 2 images scanned or not, 2 faults, 1 killed container | exact reports, lost only in the ways listed, the Job ends |
| `reporting` | 1 report, 1 lookup, lifetimes 1 and 3 under a cap of 2, time to 2, 3 attempts, 1 fault | token and expiry, delivery |
| `imagescan` | five deployments (below), 5 images, 2 versions of the setting, 1 fault, 1 rescan | healthy is true, setting in force, images scanned, right verdict |
| `kubebench` | 150 nodes of different kinds, 2 of them modified, 1 fault, 2 directories, cool-down of 1, reports in any order | right benchmark and files; modifications reported |
| `pkgload` | 3 containers, one of which starts twice, 2 namespaces beside the work namespace, 1 fault | nothing stale, nothing loaded left out |
| `workload` | a Deployment in the middle of a rollout and a pod of a custom controller, 1 fault | exact reports, which settle |
| `policy_executor` | 1 policy, 1 edit | **violated**: an image scanner added later is never scheduled |
| `quarantine_overlap` | 2 workloads, 2 overlapping runs, nothing fails | **violated**: the policy is deleted under pods that were just labelled |

There is a type invariant in all modules but `PolicyReconciler`, `PkgLoad` and `WorkloadScan`, whose properties
read every variable and leave it nothing to add. That of `RiskScan` is proved (section 4), which leaves a run nothing to show.

Why the bounds are enough.

- `scanjob`: two jobs and two workers give two workers on one queue,
  a rerun beside a first run, and one job overtaking another; jobs only meet in the
  queue, and the proofs cover any number. One crash leaves an orphan that meets a live
  worker; two faults allow a failed call followed by a failed repair, or a job stuck in a live pool's list
  that the reaper, after the crash, strikes off.
- `grpool`: the first batch is larger than queue and workers together, so every channel blocks;
  the second starts with an error from the first; the empty one takes Plan's refusal.
- `quarantine`: three verdict changes let a workload fail, pass and fail again, and two
  disturbances leave one operation half done and then disturb its repair.
- `policy`: two events are an edit or deletion in the middle of a failed reconcile, or a change of the work namespace and
  back. The policy starts with the image, kube-bench and workload scanners, suspended, in a namespace that does not exist; the
  other namespace is its user's. The other spec has the image scanner too, the package-load and risk scanners, and is not
  suspended. `MaxNames` stops awaiting resyncs once five CronJobs were made, which takes a deletion or
  a stale list; what must be so in the end is not asked of such behaviours.
- `riskscan`: a client that restarts once gives two analyses at once, the most that its own steps allow.
- `reporting`: one lifetime is shorter than the cap and one longer; time goes beyond the shorter, so a token can expire
  between check and use; two callers are enough to overtake each other, and three attempts end. The proofs cover any callers and times.
- `imagescan`: the manager with one scanner; two scanners on one image (check-then-create); a workload of two images with a
  failing call; an image without tag beside one whose tag moved, with a failing call and a rescan; an image pushed by hand into a
  closed project. Together in one deployment these multiply without meeting: scanners touch the manager's part
  of Harbor only in registries and projects, which the first deployment has.
- `kubebench`: the versions include those below, at and above each edge of the mapping, all vendors, with each program that
  can tell the version; the nodes that are modified have zero, one or two modifications to come, of which the second may fall
  into the check or the cool-down of the first.
- `pkgload`: one container is replaced during a scan, one is found by cgroup v1 and the others by v2, and one has the image
  reference that is cut short. Packages of one name with different files show which of them counts.
- `workload`: each pod, ReplicaSet and namespace is created and deleted at any moment; a ReplicaSet that goes before its
  pod fails scans again and again until the garbage collector is through.

`CHECK_DEADLOCK FALSE` is set where a system really stops: in `GrPool` a cancelled
context leaves Wait or Close blocked for good; in `Quarantine` a namespace without pods
has nothing to scan; in `RiskScan` a finished Job takes no further step; in `Exporter` all
reports are delivered and lookups answered; in `KubeBench` a scanner whose cool-down is over waits for events.
Elsewhere deadlock is checked: `Quiet` in `ScanJob` is the adapter waiting for requests, and schedules
go on for ever.

Fairness. Processes that are scheduled and calls that return are weakly fair:
goroutines (`GrPool`), workers, restarts by the deployment and the periodic reaper
(`ScanJob`), scans of a schedule (`Quarantine`, `ImageScan`, `PkgLoad`, `WorkloadScan`), the controllers'
workers, informers, resync periods and garbage collection (`PolicyReconciler`, `SettingReconciler`, `WorkloadScan`), both
containers (`RiskScan`), calls for a token and the goroutines that deliver (`Exporter`), the process and its clock, the
watches it adds (`KubeBench`), the child of the package-load scanner, and Harbor with its replications and
scans and Redis with its expiry (`ImageScan`). Nothing
is strongly fair. No request, edit, fault, crash, cancellation, modification, tick of a token's life or
verdict has to happen. Where a whole step of a process is fair (`ReconcileStep`, `Scanner`, `Process`), its
outcomes are not: a call may fail as often as the bound allows.

### What holds only under a condition

The conditions in the properties are findings too. Those that a doc contradicts are marked and listed again in section 5:

- `OnePerType` holds until a list is served from a lagging cache or somebody deletes a
  CronJob. After a deletion the status still names the deleted CronJob, and each
  reconcile creates another one.
- `PolicyConverges`: the scanners get scheduled though calls fail, since every resync tries again, except that the image scanner
  is sure of its CronJob only if no call fails, no CronJob is deleted, and the policy names it from the start
  (contradicted, finding 2). While a deleted CronJob is made again at each resync nothing is asked. What a CronJob was made with it
  keeps: an edit of `suspend` or the schedule never reaches it (contradicted). The status is right for a policy never edited, or
  whose `suspend` is not the one its CronJobs were made with: edited and edited back, it stays what it was in between.
- `RunsWithRole` and `RoleFollows` are checked for one policy, and speak of its present work namespace: there is one role binding with one
  subject, which two policies take from each other, and which a change of the work namespace takes from the CronJobs in the former one.
  `RunsWithRole` speaks of one change: after two, the caches may still show the binding where it is wanted again.
- `ScannersDoNotOutlivePolicy` speaks of CronJobs and DaemonSets: the service account in a namespace of the user's and the binding have no owner, and stay.
- `ReleasedIfUndisturbed`: after a failed delete the NetworkPolicy stays, and one unlabelled pod keeps
  the labels of the others.
- `AcceptedIsDisposedOf`: a job whose fetch or removal failed is stuck until the pod crashes, for the reaper visits only dead
  pools; one in a list the reaper has struck off is lost.
- `ExitLosesNothing` holds unless the client's first poll overtakes the goroutine
  that sets `IsRunning`: then it reads "not running", and the server exits
  before the report is out; or unless the server dies of an image Harbor has not scanned: then it is started again, with nothing to
  report, and the client, which reads "not running", ends the Job as if all was well.
- `ReportIsExact` (risk scanner) says nothing of the vectors of vulnerabilities that are not serious (contradicted).
- `JobEnds` holds unless no namespace matches, a container is killed, or a client too early has sent the exit to a server that then dies.
- A job in the dead set may still say Pending once Redis has failed (`DeadNeverStarted`).
- `DeliveredUnlessExcused`: a report is lost to a fault, a bad API token, a token that runs out on the way, and also
  to another caller who writes the secret meanwhile. Then all three attempts offer the same overtaken copy, and a token
  that CSP has issued is thrown away.
- `ImagesAreScanned`: the registry stays known, the tag names the digest that runs, and the manager is there. A project
  made by hand cannot be opened by a scanner, whose update names no project; it waits for the Setting controller.
- `ModificationsReported`: a modification before its directory is watched, or in the cool-down, is reported only if
  something else starts a check later (contradicted).
- `NewestIsLatest`: reports whose times are equal to the second cannot be told apart by a reader.
- `LoadedIsReported`: the scanner stays up, and the container is ready from some time on: one that is not when its pod is
  listed is left out. A container whose image reference has a digest but no registry, or an image Harbor has
  not scanned, takes the scanner down, with all other containers' reports.
- `ReportsSettle`: objects stop changing. As long as ReplicaSets go before their pods, scans may fail.

## 4. Proofs

The assumptions are the modules' own (`ConstantsAssumption`, `PoolAssumption`, `ReportingAssumption`, `SettingAssumption`,
`ImagesAssumption`, `PkgLoadAssumption`, `WorkloadScanAssumption`, `BenchConfigAssumption`, `KubeBenchAssumption`): domains of the constants, natural bounds, at least one image or container, for the pool
finite batches without common jobs, for the workload scanner owners that are ReplicaSets exactly if their name is one's, for kube-bench versions that are pairs
of numbers and a configuration with targets for each benchmark. TLC evaluates them in each run. No number of jobs, workers, callers, scanners,
policies, images, versions or faults is bounded. Each invariant was first checked with TLC.

Some theorems have a hypothesis about the installation, because without it the code does not keep the property:

- `OneRun` (`Quarantine`): scans do not overlap. Without it, finding 1.
- `Unshared` (`PolicyReconciler`): no two policies may be given the same work namespace. A shared one is owned by the policy that
  made it and goes with it, and with it the service account and CronJobs of the other, whose status and whose worker's
  cache still name them; its next reconciles make CronJobs again and again.
- `OneOwner` (`WorkloadScan`): no pod or ReplicaSet has two owners that are workloads, as Kubernetes has one controller
  for each. Of several the code takes the first (of a pod's ReplicaSets too), which need not be, or lead to, the Deployment.
- `OnePolicy` (`PolicyReconciler`, for `RunsWithRole` only): the ClusterRoleBinding has one subject, so that policies
  in different namespaces take it from each other. Its work namespace may change.

| Module | Theorem | Statement |
|---|---|---|
| `ScanJob_proofs` | `TypeCorrect` | `Spec => []TypeOK` |
| | `JobInOnePlace` | `Spec => []InOnePlace` |
| | `FinishedComesWithReport` | `Spec => []FinishedHasReport` |
| | `AckedStaysFinal` | `Spec => []AckedIsFinal` |
| | `DeadJobsNeverStarted` | `Spec => []DeadNeverStarted` |
| | `AdapterImplementsService` | `Spec => ServiceSpec` |
| `Exporter_proofs` | `TypeCorrect` | `ExporterSpec => []ReportingTypeOK` |
| | `ExpirySafe` | `ExporterSpec => []StoredExpiryIsSafe` |
| | `FreshKept` | `ExporterSpec => FreshTokenIsKept` |
| `ImageScan_proofs` | `TypeCorrect` | `Spec => []ScanTypeOK` |
| | `PassedInHarbor` | `Spec => []PassedIsInHarbor` |
| | `HealthyTrue` | `Spec => HealthyIsTrue` |
| | `PoolTypeCorrect` | `PoolSpec => []TypeOK` |
| | `EveryErrorSeen` | `PoolSpec => []WaitSeesEveryError` |
| | `CountersExact` | `PoolSpec => []CountersAreExact` |
| `Quarantine_proofs` | `LabelledIsolated` | `OneRun` implies `Spec => []LabelledIsIsolated` |
| | `TypeCorrect` | `OneRun` implies `Spec => []TypeOK` |
| `NodeScanners_proofs` | `NothingStale` | `Spec => NothingStaleIsReported` (`PkgLoad`) |
| | `BenchTypeCorrect` | `BenchSpec => []TypeOK` |
| | `NewestReceived` | `BenchSpec => []NewestIsLatest` |
| | `RightChecks` | `BenchSpec => []ChecksFitNode` |
| `WorkloadScan_proofs` | `ReportExact` | `OneOwner` implies `Spec => []ReportIsExact` |
| `RiskScan_proofs` | `TypeCorrect` | `Spec => []TypeOK` |
| | `ReportExact` | `Spec => []ReportIsExact` |
| | `ExitSafe` | `Spec => []ExitLosesNothing` |
| `PolicyReconciler_proofs` | `ScheduledOnce` | `Unshared` implies `Spec => []OnePerType` |
| | `AccountsInPlace` | `Unshared` implies that wherever a scanner of an existing policy is scheduled, its service account is, and that the role is bound |
| | `RoleInPlace` | `OnePolicy` implies `Spec => []RunsWithRole` |

**The scan job.** `FinishedHasReport` is not inductive: it needs that a worker about to
write Finished holds, and finds in the store, a record with the report, which needs that
nobody else writes that record, which needs that the job is in one place. Hence
`IInv == Placed /\ Stored /\ Working /\ FinishedHasReport /\ AckedIsFinal`:

- `Placed`: a job is queued once, or fetched by one worker, or in a list without a worker (an orphan, stuck or forgotten), and a job
  that was acknowledged or died, or whose request has not reached the queue, is in none of these places;
- `Stored`: a record exists only for a job whose Create ran, and Create runs at most once;
- `Working`: what a worker's position says about its copy and its record.

`Busy` (a worker has a job exactly if it is not idle) makes `TypeOK` inductive. `InvStep`
has one step per action; `Alone` (the worker of a job is the only one that can touch its
record) and `PlacedStays` are used by all. `DeadNeverStarted` adds `GaveUp`: without a
fault, a worker in "error" found no record or a Queued one.

**Its refinement.** The mapping
takes `reply[j]` to what `GetScanReport` would answer now, `opened` to the jobs whose record
was ever written, and `calm` to the absence of faults and crashes. Most steps
stutter; Create opens a scan, a SET settles it or changes the settled answer, Expire is Expire.
That a settled answer changes only after a failure needs two more invariants:
`Held` (a worker's copy is the current record, and a scan under way is Pending) and `FirstRun`
(while nothing has failed, what is queued has a Queued record, and what is about to be marked
Failed is not Finished).

**Tokens.** `FreshTokenIsKept` speaks of one step, a write, by a caller that looked at the secret long before. The invariant
`TokenInv` says what a caller that has not been overtaken knows of the secret (`Sound`): at "check" that it
is its copy, and later that it is expired, which time cannot undo. Only such a caller's Update or Create succeeds, and each
success overtakes all others that look at the secret (`OthersKeep`). `Local` says that the time a caller counts from
is past and its copy safe, which makes every recorded expiry safe. To these lemmas about `TokenProvider` the second half of the module adds that the
exporter starts a call only for a report that has none (`Ready`) and that a restart only cuts calls off (`CallsCut`).

**Setting.** `DoneSoFar` says, for each step of Reconcile, what has been achieved for the version it reads: in the loop, that all
registries it has passed are registered; later, that the condition, if true, is. Since nobody but Reconcile changes registries and schedule, it
holds until the status is written, and the conflict check makes the version read the current one.
The scanners' steps keep it because they add projects only.

**Verdicts.** `PassedIsInHarbor` needs that every store a scanner assesses came from a report: `Real` (the
cache has no report that Harbor never had), and `Working` (a scanner that still lets the workload pass has seen only images
Harbor has; one with a request under way does not let it pass). `WorkingStays` shows that other scanners and Harbor disturb none
of it, `ContinuesStep` and `AssessStep` reduce each scanner's step to what it changes.

**Quarantine.** What a run relies on when it acts is what it has read: `Knows` says that the policy is there while it labels,
and that no pod is labelled from the list to the delete. Of a single run this is inductive, since all others (`Touch`, `Churn`,
`Flip`) add no label and leave the policy alone. A second run breaks exactly this, which is finding 1.
`RunBecomes` is the one place where the invariant is put together; the steps only say what the run becomes.

**Package load.** `Scanning` says of a scan under way that all that runs is in `alive`, that lsof has listed only what was,
and that everything loaded is `Sound`. It is inductive because all goes by container ID, and an ID is never used again
(`ClusterOK`); a restarted container only adds an ID. What the child says of a package is that of the first one of its name, which exists
because the order of the naturals is well-founded (`LeastExists`, `InstalledFacts`).

**Kube-bench.** `NewestIsLatest` compares the received reports of the latest time with what was checked last, though everything is posted
again and again, and arrives in any order. It holds because of an order, that in which the reports are made: `Sorted` (a later control has seen no less) and
`Received` (of the controls posted so far, the last one of each target is among the newest the exporter has, unless it was lost), with `Rest` (what is
still to post is the end of the collection).
`RightChecks` is about functions. The recursions of `BenchConfig` count a version down: `Countdown` shows that such a
function exists, `Stops` that it ends where the first version is found that stops it and that all versions it passed were to be passed; from
these follow `MapFacts` and `OcpFacts`, and `OwnFacts` and `BenchFacts` go through the platforms and the two answers of the API server. `FileFacts` is about the candidates
for a file. It assumes what `config.yaml` has (`BenchConfigAssumption`): benchmarks with targets, for Kubernetes versions of one major.

**The workload scanner.** `JobOK` says that a job knows every pod that was there all the time (yet to be processed, or reported),
and nothing twice; `ReportOK` that an entry has the workload and the containers of its pod. The cluster's steps keep both, since
`ever` only grows and `always` only shrinks (`ClusterStep`); the scanner's move a pod from the list to the report (`AddStep`), or fail the job,
and with it the report. That the entries say the right things is about functions: `FirstFacts` and `OwnerFacts` for whom a
pod belongs to, `AmongGrows` and `PartsFacts` for the containers: `Among` builds its sequence one element at a time, and the four parts of a spec have at each of
its elements as many containers, and the same, as the spec so far. Both are shown by the least n for which they would fail.

**The pool.** Both results rest on where a job is. `Placed`: a job that was planned is unsent, in the queue (once), held by the
processor, or with a goroutine, and in only one of these; one that was not is nowhere. `Control` says what the caller's and the processor's
positions imply, among them that the wait group is zero when `Wait` is over. `Counted` equates the wait group and the tokens with the cardinalities of the
sets of jobs, by the library's theorems on finite sets: each step moves one job from one set to another. So if the wait group
is zero, the sets are empty (`CountFacts`), and by `Placed` every job planned is over. `Heard` says that the error of a job
has been recorded when its select is over, which is before wg.Done: then what `Wait` reads has all of them.

**The risk scanner.** The server's map has no lock; while nothing fails, what makes it safe is how the client behaves.
`Before`: until the client has posted its last resource, the map holds just what was posted, and nobody looks at it. `After`: from then on at most
one analysis goes on, and `Stage` says that the map holds all resources, all risks of the images it has been through (`Weight`), and none
of those it has left. When none is left, what it exports is `Exact`. An image Harbor has not scanned ends all this: then the server has nothing
more to report, and never will, since the client does not post again. With a failure nothing of this need be true, which is why the invariant is
`TypeInv /\ (Undisturbed => Phase)`.

**The policy controller.** All that the worker decides it decides from caches that lag behind. What it has made stays, because nothing
an existing policy owns is deleted by others: `Owned` (its namespace belongs to nobody, its user or itself), `Accounts` and
`Bindings` (what the cache says, the worker relies on, or a scheduled scanner needs is on the API server, and stays there while the policy exists), and, while nobody
deletes CronJobs and lists are current, `Executors`: the executor that the status, the cached status or the worker names is a CronJob that exists. A worker that
makes a CronJob has found neither the one the executor names, which would be there, nor one of its type in a list that is current (`OnceStep`).
`Placed` says that objects are in namespaces their policy may have, and that the worker, its copy and its cache agree on a policy that was not edited since.
`RoleInPlace` needs `BindingFollows`: while the work namespace was changed at most once, a worker that schedules for the present one has pointed the
binding there, and no worker or cache that still has the former one brings it back once something is scheduled (`MoveFacts`, `FollowsStep`).
`KeptStep` says once for all steps what they leave to an existing policy; the steps for the parts of the invariant all cite it.

## 5. Findings

1. **A quarantine may be void** (`quarantine_overlap`). One scan deletes the policy another has
   just found in place. Its pods keep their labels, so no later scan calls Enforce again.
2. **An image scanner added later is never scheduled** (`policy_executor`), because the one executor
   field names another type's CronJob.

Other divergences met on the way, without a run of their own:

- A scan can be lost before it begins. `Enqueue` (`enqueuer.go:45`) makes the job
  available before it creates the job's record. A faster worker panics on the nil
  record, the job goes to the dead set, then the record is created as Queued and
  stays so until its TTL passes. The component test's client polls exactly while it gets 302.
- Quarantine labels may stay: one unlabelled pod makes
  `HasBeenEnforced` (`enforcer.go:165`) false, and Revoke is skipped for all the others.
- Policies take the role binding from each other (`inspectionpolicy_controller.go:671`).
- After an edit of the work namespace, the CronJobs stay in the old one, without the role; the DaemonSets are made again in the new one, and the old
  ones stay too. The service account in a namespace of the user's, and the ClusterRoleBinding, outlive the policy (`:641-646`, `:674`).
- An edit of `suspend` or the schedule never reaches a CronJob that exists (`inspectionpolicy_controller.go:480-486`): it is compared
  and the status updated, but no Update is sent. `inspectionpolicy_types.go:167` says "Suspend the subsequent inspections temporarily".
  Edited back, `suspend` is again that of the CronJob, and the status is not updated.
- The collector drops a policy's `matchExpressions` (`workloadinfo_collector.go:312`, where the selector that `Add` returns is thrown away), so namespaces and workloads that the
  policy excludes are scanned, whereas `workloadinfo_collector.go:23` speaks of "all the namespaces matching the selector".
  `PkgLoad` and `WorkloadScan` have it as the code does.
- A modification in kube-bench's cool-down is never checked (`cmd/kube-bench/main.go:125`), nor one before its directory is watched, whereas the
  user guide says "If there is any modification event against the files, the check will be trigger for one more time" (`docs/USER-GUIDE.md:195-197`), and the
  tutorial "immediately" (`docs/TUTORIAL.md:227-228`).
- An image that Harbor has not scanned takes the risk scanner's server down (`server.go:119`, the nil report of `adapter.go:618`), and the report on all other
  images is lost without an error that anybody sees. The package-load scanner has the same panic.
- Reports of kube-bench have a time of one second's resolution (`kube-bench/controller.go:144`) and are forwarded by a goroutine each
  (`cnsi-exporter/cmd/main.go:73`): an old control and the new one may carry the same time, and come in any order.
- gocraft keeps a job whose fetch or removal failed in the list of a pool that is alive, which nobody visits until the pod dies; nothing
  in the adapter looks for such jobs.
- Unlabelled pods count as exposed by any service (`data/workloads.go:127`); services of other namespaces match too.
- The vectors of all vulnerabilities are evaluated, whereas `docs/USER-GUIDE.md:213-214` says "the CVE vector of each serious vulnerabilities".
- An image whose scan in Harbor has not finished passes every baseline (`store.go:78`).
- The VAC lookup reads a 404 of another kind and an undecodable 200 as "untrusted".
- Each check of kube-bench posts the controls of all checks before it again (`common.go:123`); the newest report
  is right all the same, but for ties (`NewestIsLatest`).
- Reports of scanners other than the workload scanner decode to an empty workload report, whose PUT tells Governor
  that the cluster has no workloads (`outputs/governor.go:27`).

## 6. Not modelled, and why

- Inputs that make the program panic outright, whatever else happens: a pod with a nil label map in `Enforce` (`enforcer.go:84`), a policy
  without work namespace in the scanners (`image-scanner/controller.go:218`), a nil `Inspector` or `Suspend`
  (`inspectionpolicy_controller.go:511`). The panics that depend on other processes are modelled (`Scan`, `GetReport`,
  `FetchHarborReport`, `FetchNil`, `GetScanJobResult`, `GetVacProductInfo`).
- The contents of generated Kubernetes objects, of reports and logs: nothing compares them, and no CronJob is ever updated
  (section 5); of its spec the model has `suspend`, which the code compares.
- Two policies that share one work namespace, which is owned by the first of them (`inspectionpolicy_controller.go:606`).
- `Close` of a pool whose context was cancelled, which blocks (`pool.go:172`), and the goroutine the processor leaves behind
  (`pool.go:87`): `GrPool` reaches both. They happen
  whenever the context is cancelled, or the pool is used at all, so that a property could only say that they do.
- Names: that `artifactIDToPolicyName` may give two images one policy, and the other cases in which ParseArtifactIDFrom cuts a name.
- The fields of Harbor's and Trivy's reports, their conversion into each other, the assessment's scores.
- The audit commands of kube-bench and what it makes of their output: a library.
- A pool that is alive and that gocraft's reaper takes for dead, because its heartbeats do not get through.
- Backoff limits of Jobs and gocraft's rate of reaping: they bound or delay what the models allow at any time.
- The portal, the generated REST clients and models, deepcopy: user interface and generated code without logic of this system.
- Deletion of artifacts, projects and registries in Harbor by its users.

Liveness is only model-checked (`ReportService` promises safety only), for its proof rests on ENABLED. Each safety invariant and
action property of the runs is a theorem of section 4, those about the hypotheses named there.

## 7. Plan

Done: all modules above, their runs and the proofs of section 4. Next, in order of importance:

1. `PolicyReconciler` with a work namespace that two policies share.
2. An abstract specification of quarantine as seen by a workload, which `Quarantine` implements for runs that do not overlap.
