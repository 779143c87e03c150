# Verification of the csi-baremetal operator

This directory holds TLA+ specifications of `dell/csi-baremetal-operator`, TLC
configurations that model-check them, and TLAPS proofs about them. The operator
is a Kubernetes controller: it watches one custom resource (CR) of kind
`Deployment` and installs the parts of the csi-baremetal driver it describes,
patches the Kubernetes scheduler to call the driver's extender, labels nodes,
and cleans up after nodes that leave the cluster. Its difficulty is not in what
it computes but in when: it reads from caches that lag, writes one object after
another, may fail or die between any two requests, and learns of what changed
behind its back only from events. The specifications are about that.

All paths below are relative to `src/` of the repository.

## 1. The system

### Components

| Component | State it keeps | Operations | Correct when |
|---|---|---|---|
| **Deployment reconciler**, `controllers/deployment_controller.go` | the CR's finalizer; the work queue of controller-runtime; informer caches | `Reconcile`; watches on the CR, on owned Deployments/DaemonSets/ConfigMaps, scheduler pods, nodes, roles and bindings | side effects happen only under the finalizer; no event is lost that would make a rested reconciler wrong; a deleted CR goes; users' edits survive |
| **CSIDeployment**, `pkg/csi_deployment.go` | none | `Update` (node controller, node, controller, extender, patcher), `Uninstall` (patcher, node), `ReconcileNodes` | the order of calls and the handling of their errors |
| **Create-or-update helpers**, `pkg/common/update.go` | none | `UpdateConfigMap`, `UpdateDaemonSet`, `UpdateDeployment` | an object gets the expected spec and an owner that exists; nobody's change in between is written over |
| **Node**, `pkg/node` | a platform label on every node; one daemon set per platform | `Update`, `Uninstall`, choice of a platform by kernel version | every selected node is labelled with a platform whose daemon set is deployed |
| **Scheduler patcher**, `pkg/patcher` | patcher daemon set and configmap (vanilla, RKE); policy configmap and the cluster's `Scheduler` resource, or the `SecondaryScheduler` (OpenShift); readiness configmap; extender IP kept in the process and in a configmap | `Update`, `Uninstall`, `UpdateReadinessConfigMap`, retry | patched while enabled, unpatched after; readiness is reported truly; retry ends |
| **Node operations**, `pkg/nodeoperations` | a removal label on csibmnodes | `Reconcile`: label, remove, maintain | CSI resources are deleted only of nodes that were drained and deleted, all of them, the csibmnode last |
| **Security verifiers**, `pkg/feature/security_verifier` | none | `Verify`, `HandleError` | components wait for the bindings of their service account and are deployed once these exist |
| **RBAC matcher, validator**, `pkg/validator` | none | matching of rules, roles, bindings, subjects | the watches enqueue what makes `Verify` change its answer |
| **ACR validator**, `pkg/acrvalidator` | none | a periodic loop that deletes reservations | only reservations of pods that are gone or running are deleted |
| **Manifests**, `pkg/controller.go`, `pkg/scheduler_extender.go`, `pkg/node_controller.go` | none | build pod templates; `Update` calls the helpers | data only |
| **Process**, `main.go` | none | flags, wiring, manager | one active process |

### How they interact

`Reconcile` is the only caller of `CSIDeployment`, which calls every other
component in a fixed order and in one goroutine (`MaxConcurrentReconciles: 1`).
The components share nothing but objects in the API server. They hear from each
other through events alone: a write to an owned object comes back as a request
for its owner, a changed node or binding as a request for every CR. An error
sends the request back to the queue. The ACR validator is a goroutine of its own
and touches only reservations.

### Where it is hard

* *Stale reads.* Whatever is read through the manager's client comes from an
  informer's cache: the CR, OpenShift's `Scheduler` and `SecondaryScheduler`, the
  csibmnodes, pods, CSI resources, reservations, roles and bindings. Each cache is behind by its
  own, also behind the operator's own writes. What is read through the clientset
  comes from the API server: nodes, daemon sets, deployments, configmaps. Results of
  both are joined, and copies are written back.
* *Partial failure.* Requests fail one by one. Some errors are returned and
  retried, some are logged and dropped; which is which decides what is left over.
* *Crashes.* Nothing is persisted but the cluster's objects; a new process starts
  from the CR.
* *Ordering.* Finalizer before side effects, `Uninstall` before the finalizer's
  removal, resources before their csibmnode, labels before removals.
* *Missing events.* Nothing watches csibmnodes or OpenShift's schedulers; node
  events are filtered by selector; at rest the state is right only if every relevant
  change enqueues.

`PROJECT.json` lists every hazard at its line, with the properties that would
catch it going wrong, or the reason why none does yet.

## 2. The modules

| Module | Lines of the code | What it is |
|---|---|---|
| `FinalizerGuard` | | abstract: what the finalizer promises about the CR and the cluster |
| `DeploymentReconciler` | `deployment_controller.go`, `csi_deployment.go`, `update.go`, `node.go`, patcher | the reconciler with install and uninstall, one API request per action; implements `FinalizerGuard` |
| `DeploymentReconcilerProofs` | | its theorems |
| `NodeRemoval` | | abstract: what the removal of nodes promises |
| `NodeOperations` | `pkg/nodeoperations` | labelling, removal and maintenance of nodes, one request per action; implements `NodeRemoval` |
| `NodeOperationsProofs` | | its theorems |
| `Rbac` | `pkg/validator/rbac`, rules of `main.go` | the RBAC matcher and validator as operators on sets |
| `NodeDeployment` | `pkg/node`, `pkg/feature/security_verifier`, watches of `deployment_controller.go` | platforms and labels of nodes, daemon sets, verification of service accounts, the watches on nodes, roles and bindings; uses `Rbac` |
| `NodeDeploymentProofs` | | its theorems |
| `OpenShiftPatcher` | `scheduler_patcher.go`, `scheduler_patcher_openshift.go` | policy and secondary scheduler, the extender's address |
| `OpenShiftPatcherProofs` | | its theorems |
| `Readiness` | `extender_readiness.go`, `scheduler_patcher_vanilla.go`, retry of `scheduler_patcher_openshift.go` | readiness of patched schedulers, timeout, retry, the patching agents |
| `ReadinessProofs` | | its theorems |
| `ObjectUpdate` | `pkg/common/update.go`, leader election in `main.go` | one object read, compared and written by several processes |
| `ObjectUpdateProofs` | | its theorems |
| `AcrValidator` | `pkg/acrvalidator`, its start in `main.go` | the loop that deletes outdated reservations |
| `AcrValidatorProofs` | | its theorems |
| `MC...` | | model values and, where used, symmetry for the runs of the module named after it |

How they fit together: `DeploymentReconciler` has the whole order of a reconcile
and treats a component as one or two of its stages. `NodeOperations`,
`NodeDeployment`, `OpenShiftPatcher` and `Readiness` open one stage each: they
keep the requests, errors and events of that stage and reduce the rest of the
reconcile to what the stage can see of it. `ObjectUpdate` opens the step that
all stages have in common, the writing of one object. `AcrValidator` stands beside the
reconciler, as its goroutine does.

Definitions marked "wrong variant" are not part of any specification. Each is a
mistake the code could make; replacing the definition that follows it must break
a property, which shows that the property is not vacuous.

### DeploymentReconciler

The worker's program counter `pc` names the request it is about to make;
`seen` is the copy of the CR it goes by. `Get` is `Reconcile` up to the branch
on the deletion timestamp; `FirstStage` is that branch. `UpdateNodeController`
to `UpdateReadiness` are the calls of `CSIDeployment.Update` in order,
`DeletePolicy`, `UnpatchScheduler` and `CleanNodeLabels` those of `Uninstall`;
the first two also serve `retryPatchOpenshift` (`retrying`), as `DeletePatcher`
and `DeletePatcherConfig` serve `retryPatchVanilla`. `Fail` is every request
whose error `Reconcile` returns; `UpdateVanillaFails` and the failing branches of
`DeletePolicy`, `UnpatchScheduler` and `CleanNodeLabels` are those whose errors the
code drops or collects. `Requeue`
and `Return` are the two ways `Reconcile` ends.

`Create`, `Edit`, `Delete` are users, who may ask for foreground deletion; `Sync` is
the informer and its handler; `SyncScheduler` is the informer behind the reads of
OpenShift's `Scheduler`, which has no handler;
`CollectGarbage` and `FinishForeground` are the garbage collector; `Disturb`,
`LoseLabel` and `ChangeBinding` are what others may do to the operator's work;
`StatusEvent` is any event that changes nothing the model holds; `Restart` is a
crash of the process and the list it starts with.

`PatchScheduler` and `UnpatchScheduler` decide by `patchSeen`, the cached copy, and
write only if it asks for it; the write of an outdated copy conflicts. Since only the
operator changes the resource here and a conflict ends the reconcile, the copy is at
most one write behind, so it is one Boolean.

`missed` is a history variable that no action reads. It names what the last
uninstallation has left: because its request failed, because the copy of the
`Scheduler` did not show it, or because it was installed for a CR that was being
deleted and had lost the finalizer; and, as `"patch"`, a patch that the last look
found needless in an outdated copy. The next look or the next installation ends the
excuse.

What is abstracted:

* The spec is a version number; an object's content is the version it was
  written from. The comparisons in `update.go` that avoid a write are left out: a
  write of an equal object changes nothing and causes no event.
* The readiness configmap has one content. Whether the schedulers are ready and
  the timeout has passed is a free choice in `UpdateReadiness`; `Readiness` has
  what decides it.
* Events caused by the operator's own writes and by disturbances enqueue at
  once; late and repeated events are `StatusEvent`.
* The platform is a parameter (`OpenShift`), fixed in a behaviour. `OpenShift`
  means the kube-scheduler policy; the secondary scheduler, the extender's
  address and other people's schedulers are in `OpenShiftPatcher`.
* Verification is one bit per service account; `NodeDeployment` has the roles
  and bindings behind it, and the platforms behind the one label of a node.
* The policy configmap has no owner reference, as the `TODO` in `patchOpenShift`
  has it. Nobody but the operator writes the `Scheduler` resource or strips the
  operator's finalizer.
* `ReconcileNodes` is one step here; module `NodeOperations` is its inside.

`Protocol` maps it to `FinalizerGuard`: the owner is the stored CR's uid, it is
leaving when that CR is deleted, guarded when it has the operator's finalizer, and
the cluster is `Outliving`, what garbage collection does not remove (labels,
policy configmap, patched `Scheduler`).

### NodeOperations

`ListNodes` and `ListCsibmnodes` are the two lists, the first from the API
server, the second from `cache`; either may fail, which ends the reconcile without a
retry (`ListFails`). `CheckPods` and `MaintainNodes` go by `podSeen`,
`DeleteResources` by `resSeen`. Each of these caches has an informer of its own that
may stop delivering (`Stall`) and later shows what is there (`CatchUp`). `ToRemove` and `ToLabel` are the loop of
`handleNodeRemoval`; `UpdateLabel`, `CheckPods`, `DeleteResources` (once for each
kind), `DeleteCsibmnode` and `MaintainNodes` are its requests. `Deleted` is
`deleteObject`: it clears finalizers and then deletes, and of an object that
already has a deletion timestamp it reports an error because the second request
finds nothing. `Left` and `Erred` apply it to the copy that is listed: an object that
is not listed is not deleted and causes no error, an older version cannot be updated
but is deleted by its name, one that is gone is an error. `SetTaint`, `DeleteNode`,
`AddNode` and `RelabelNode` are administrators, with `NodeEvent` the filter of the node watch; `PodStops`,
`PodStarts`, `DriverCreates`, `RegisterNode` are Kubernetes and the driver.

No action reads the history variables: `drained` and `returned` are what
administrators have done, `blind` is that the last list failed, `overlooked` are nodes
whose csibmnode the last list did not show as it was (or that were registered since),
`stray` are pods that run although the last look did not show them (or that started
after it), and `lost` are resources that no list showed when they had to be deleted,
or that a stray driver has created. Each names one thing the operator cannot know of,
and the properties excuse that and nothing else.

What is abstracted: one object stands for all of a node and kind; csibmnode and node
have one name; a stalled informer shows what it showed last and then jumps to the
latest state. The request `Reconcile` handles is the reconciler's, so requests of
other origin are `queued` becoming true.

`Removals` maps it to `NodeRemoval`: managed are the nodes in the cluster with the
selector's label, missing those that the list of the reconcile at work does not have,
registered those with a csibmnode, kept the kinds of CSI resources each has that are
not lost.

### Rbac and NodeDeployment

`Rbac` has the matcher: one actual rule must match every requested rule, field by
field as sets (`MatchPolicyRules`), and a list of requested rules that is empty
matches nothing. `ValidateServiceAccountIsBound` joins bindings and roles.
A role that does not exist is a role without rules.

`NodeDeployment` starts with a CR that has just been created. `Get` begins with
the node's account; `ListBindings` and `ListRoles` are the two cached reads of
`Verify`, whose failure to find a binding is no error (`HandleError`); `ListNodes`,
`UpdateNodeLabels`, `EndLabels` are `updateNodeLabels`, with `SkipUnreadable` and
`LabelNode` its loop body and `failed` its `resultErr`; `UpdateDaemonSets` is the
loop over the platforms it found. `ChangeNode`, `ChangeRole` and `ChangeBinding`
are administrators; `SyncRole` and `SyncBinding` deliver their changes to the
caches and run `watchRole` and `watchRoleBinding` (`RoleEvent`, `BindingEvent`).

What is abstracted: the other components' stages succeed; a CR asks for one kind
of verification, fixed in a behaviour; a node's kernel version is read from the
node as listed; where a property needs a reference for the comparison of versions
that is not the code's own, it is `Before54`.

### OpenShiftPatcher

`UseOpenshiftSecondaryScheduler` decides for policy or secondary scheduler once in
a process' life (`decided`). `CheckMemory`, `CheckStored`, `SelectExtender`,
`NoExtender` and `StoreIP` are `getSchedulerExtenderIP` with the loop around it:
the address in the process, the one in the configmap, any extender that answers.
`WriteConfig`, `GetScheduler`, `WriteScheduler` are the patch, `DecideUninstall`
to `RemoveFinalizer` the way back. `Interfere` is anybody else who writes either
scheduler resource; `ExtenderStarts` and `ExtenderStops` are the extender's pods.

What is abstracted: the CR is live, being deleted or absent, and read without
lag (`DeploymentReconciler` has the rest); configmaps are the address they hold;
`found` is a copy with its resourceVersion, of which all that counts is whether it is
the latest. `cached` are the informers' copies of both resources: an informer starts
with the first read in the life of the process (`Unread`), `Read` is a read by it, and
`Sync` delivers. `missed` is history: what the last look at an outdated copy, or a
failed request of `Uninstall`, has left undone. The list of extender pods comes from a
cache too: one that shows no pod that answers only costs a try, as `Fail` does. `trouble` records what has gone
wrong, and one kind of trouble happens in a behaviour, so that a premise of a
property names the one thing it cannot survive. Readiness and retry are left to
`Readiness`.

### Readiness

A scheduler counts as restarted when it started no earlier than the second in
which the watched configmap was created. Time is `Tick`, one second: `recent` are
the schedulers started in the current second, `fresh` those started no earlier
than the configmap's second, `age` its age, counted as far as the timeout.
`UpdateConfigMap` and `Patch` are the patching, `GetConfigMapCreationTime`,
`UpdateReadinessStatuses`, `WriteReport` and `Decide` are
`UpdateReadinessConfigMap`; `DeleteDaemonSet`, `DeleteConfigMap`,
`UnpatchScheduler` and again `UpdateConfigMap` and `Patch` are the retries. The
agents are the pods of the patcher's daemon set: they edit the scheduler's
manifest on their node, and put it back when they stop because `--restore` is
passed (`AgentStarts`, `AgentPatches`, `AgentStops`, external). An agent of a
deleted daemon set may stop long after its successor has started. `RollOut` is
OpenShift's operator. `swallowed` records that `updateVanilla` has hidden an error.

What is abstracted: a scheduler's pod is up or down, and one that is down may or
may not be in the list; the CR lives and patching is enabled throughout. On OpenShift
`Patch` and `UnpatchScheduler` read the scheduler as it is stored; what becomes of a
late copy is in `OpenShiftPatcher` and `DeploymentReconciler`, and here it matters to
no property: both are about vanilla clusters.

### ObjectUpdate

`Take` is the reconcile with its copy of the CR, `Read` the Get and the
comparison (`Changed`), `Create` and `Update` the write. An object is its owner,
the version its compared content was made from, its replicas, and the rest, which
is not compared. Workloads are replaced as a whole, configmaps in their data
(`Replaced`). `current` are the processes whose copy still has the object's
resourceVersion. `Interfere` is anybody else, the controllers that write statuses
included; `DeleteCR` may come at any time, because another process may have
uninstalled. A policy configmap is not `owned`, so nobody notices what becomes of
it (`unseen`).

`Applied` is what `DeploymentReconciler` does in one step (`Written`), and
`WritesAtomic` that reading, comparing and writing amount to it. With one process
this justifies the single step; with two it is what is left when leader election
is off, together with `AppliedAtRest` and `Settles`.

### AcrValidator

A pod's name is used several times, one pod after the other; a reservation is
made under a pod's name for one of these uses. `List`, `Get`, `GetFails`,
`Delete`, `DeleteFails` are the loop, `Expire` the end of its 30 seconds or of
the process, `SyncPods` and `SyncAcrs` the two caches of each process.
`CreatePod` to `RemovePod` and `Reserve` are Kubernetes and the extender. The
minute between rounds is left out: a round may begin at any time.

## 3. What is checked

Passing runs:

| Run | Bounds | States | What it shows |
|---|---|---|---|
| `DeploymentReconcilerOpenShift` | OpenShift, 2 nodes, 1 spec, 2 creations of the CR, deletion of either kind, late copies of the CR and of the `Scheduler`, 1 fault | 3.3 M | `SideEffectsGuarded`: labels, policy and patch exist only while a CR holds the finalizer, but for what is `missed`. `ConvergedAtRest`: whatever was deleted, unlabelled or lost in a crash, a reconciler with an empty queue and a live CR has applied the stored spec. `OwnersExist`: nothing is created for a CR that is gone. `GuardImplemented`: all of it implements `FinalizerGuard` |
| `DeploymentReconcilerLive` | vanilla, 1 node, 2 specs, 1 creation, 1 fault; bindings come and go, `Uninstall` may fail, foreground deletion | 660 k | `DeletionCompletes`: a deleted CR goes. `SpecApplied`: a stored spec is applied or superseded. `EditsKept`: writing back a stale copy never undoes an edit. `ConvergedAtRest` |
| `NodeOperationsSafety` | 2 nodes, a kind with and one without finalizers, 3 changes by administrators, 2 faults | 710 k | `NoOrphans`: no resource outlives its csibmnode but those that are `lost`. `OnlyDrainedRemoved`, `OnlyGoneRemoved`: whose resources are deleted was tainted for removal, and is not in the cluster with the selector's label unless it came back within this reconcile. `RemovalImplemented`: all of it implements `NodeRemoval` |
| `NodeOperationsLive` | 2 nodes, a kind with finalizers, 3 changes, 1 fault | 256 k | `RemovedAtRest`: no removal is forgotten but for what the last lists did not tell. `RemovedEventually`, `LabelFollowsTaint`, `MaintenanceEvicts` with the same excuse |
| `NodeDeployment` | 2 nodes, 3 kernels (below and at 5.4, unreadable), 1 role with 3 sets of rules, 1 binding, all kinds of verification, 2 changes, 1 fault | 670 k | `DeployedAtRest`: every change that turns the verifier's answer is an event. `ServedAtRest`: every selected node has the label of its kernel's platform, and that platform its daemon set, whatever was relabelled during the loop. `LabelsCurrent`: no label is written for a kernel the node no longer has. `GoodNodesLabelled`: one unreadable node does not keep the others from being labelled |
| `OpenShiftPatcher` | 2 addresses, 2 tries, 2 images, 2 creations, 1 interference, 1 outage, 1 fault (any two of the three), every kind of trouble, late copies | 940 k | `PatchedAtRest`: the secondary scheduler is told of an extender that answers. `UninstallCleans`. `ForeignKept`: other people's schedulers are left alone. `AddressKept`: the scheduler is not moved while its extender works, not even by a restart. `DeletionCompletes` although no extender answers. `PatchedEventually` |
| `Readiness` | 2 schedulers, timeout of 1 s, 1 fault, every platform | 690 k | `ReportCurrentAtRest`: the report is true at rest. `ReadyEventually`: retries come to an end |
| `ObjectUpdate` | 2 processes, 2 specs, 2 creations, 1 interference, 1 fault; owned and unowned, compared with and without replicas | 1.1 M | `WritesAtomic`: nothing that came between reading and writing is written over. `AppliedAtRest`: when all processes rest, the object is as the CR has it. `Settles`: two processes do not fight for ever, and what one makes for a CR that is gone goes |
| `AcrValidator` | 2 processes, 1 name with 2 uses, 1 fault | 280 k | `PendingKept`: a pending pod known to the process keeps its reservation. `OutdatedRemoved`: a reservation of a pod that is gone or runs is deleted in the end |

Runs that find the code at odds with what it says of itself are in section 5.

**Why the bounds are enough.** Two nodes are what it takes for one to fail while
another succeeds, and for one's error to postpone another's removal; nodes do not
interact otherwise. Two creations make garbage of an earlier CR meet the
successor of the same name, and a stale cache show a CR that has gone; two specs
make an old copy meet a new spec. One fault suffices to interrupt any request,
two let a retry fail again; where a property could break by failures adding up,
the run has two. A removal takes two changes by administrators (taint, delete),
and a third leaves room for the node to come back, to lose the selector's label, to
have its taint changed in between, or for a second node to be treated. The bound
`MaxFaults` is one budget for failures, restarts and disturbances, and in
`NodeOperations` for informers that stall: two of them, or one and a failing request,
meet in `NodeOperationsSafety`. The kinds of CSI resources differ only in whether they
carry finalizers, so one of each stands for the four.

In `NodeDeployment`, two changes are a binding and a change while the result of
the first is being acted upon; the three sets of rules are none, one that looks
like the right one with another verb, and the right one. Changes of roles are
switched off under pod security policies (`FixedRoles`), where `NodeDeploymentPsp`
shows what goes wrong. In `OpenShiftPatcher`, two addresses let the chosen one
go and another come, two images let the secondary scheduler be rewritten, and
two tries are a failed and a last one of `getSchedulerExtenderIPMaxRetires`;
`MaxMishaps` lets any two of an interference, an outage and a fault meet. In
`Readiness`, a timeout of one tick separates the configmap's own second, in which
a start counts, from later ones, in which the retry is due; two schedulers let one
be late and the other be ready. In `ObjectUpdate`, two processes, two specs
and two creations give each process a copy that is older than the other's, or of a
CR that is gone. In `AcrValidator`, two processes race for one
reservation and two uses of a name are what deletion by name can confuse; one
process with two names (1.9 million states) has been checked with the same
result.

Symmetry under permutation of nodes is used in `DeploymentReconcilerOpenShift` and
`NodeOperationsSafety` only, which check no liveness.

**Deadlock** is not checked: users and faults are bounded, so a behaviour may
rightly end in a rested state. That it may not end too early is what the
properties "at rest" and the liveness properties say.

**Fairness.** `WF(Reconcile)`, and `WF(Update)` in `NodeDeployment`: a worker of
controller-runtime takes a request that is in the queue, and an HTTP request ends;
so does `WF(UpdateObject)`, for each process of `ObjectUpdate`. `WF(Sync)`,
`WF(SyncScheduler)`, `WF(Informers)` and, for each informer, `WF(CatchUp)`: an informer
eventually delivers the latest state. `WF(GarbageCollector)`,
`WF(CollectGarbage)`, `WF(PodGC)`: Kubernetes removes objects of absent owners and
pods of deleted nodes. `WF(Agent)`, `WF(SchedulerStarts)`, `WF(Tick)`: the
patching agents and the kubelet work, and time passes. `WF(ValidateACRs)`,
`WF(SyncPods)`, `WF(SyncAcrs)` for each process: the loop of `acrvalidator` goes
on and its caches are filled. No fairness is assumed of users, administrators, the
driver, extender pods or failures. The periodic resync of informers (10 hours by
default) is relied on in `Readiness` alone: no timer asks for the reconcile in
which a timeout would be noticed, so the code itself relies on some later event
there. Everywhere else an operator that is right only after a resync is counted as
wrong. Weak fairness of the disjunction `Reconcile` suffices, because one worker
has at most one kind of request enabled at a time, and the choice among nodes of a
list is exhausted by `todo` and `removing`.

## 4. What is proved

Every invariant and every action property that a passing run checks is also a
theorem, for every number of nodes, processes, specs, creations, changes and
faults; so are both refinements. tlapm checks every leaf, with SMT, Zenon and PTL.

The properties "at rest" are all proved with one kind of invariant: as long as
nothing is queued (and the caches are up to date), whatever the stages the worker
has passed have done is still done. A step that undoes it must enqueue, and
then the invariant says nothing until the next `Get`, which starts from nothing.
The difficulty lies in the steps that enqueue nothing, each of which needs a
reason why it does no harm; those reasons are what is named below.

**`DeploymentReconcilerProofs`**

* `TypeCorrect`: `Spec => []TypeOK`.
* `EditsSurvive`: `Spec => EditsKept`, with no assumption but
  `ReconcilerAssumption`. The argument is an invariant about copies, `CopyInv`: the
  cache and the worker's copy never have a later `rv` than the stored CR of the
  same uid, and the same `rv` means the same CR. Only then does optimistic
  locking, which compares `rv`, say something about specs. `CopyOf` is the
  relation, `CopyInv` states it of every copy, `CrNext` says how the stored CR
  may change, `CrStep` that every action changes it so, and `CopiesHold` puts the
  parts together.
* `Guarded`: `Spec => []SideEffectsGuarded`, which is not inductive. Its
  strengthening `IInv` has three layers:

  | Layer | Says | Needs |
  |---|---|---|
  | `GuardInv` | What the stored CR must look like in each stage of the worker (`InstallGuarded`: a worker that installs for a CR nobody had deleted goes by one that exists and holds the finalizer; `RemovalKnown`: one that uninstalls, by a CR that is being deleted everywhere), and what the cache may be believed (`LiveInCache`, `DeletionStays`) | nothing |
  | `LabelInv` | Labels that are not missed exist under the guard of a finalizer (`LabelsGuarded`), and there are none when it is about to be removed | nothing |
  | `PatchInv` | The same of the patch and the policy (`PatchesGuarded`), which of them are undone or missed in each stage (`UnpatchProgress`), and that who is to patch is to unpatch (`PatchScope`) | `PatchingAgreed`: the specs agree on patching |

  So `OwnersGuarded`: `Spec => OwnersExist` and `NodesGuarded`:
  `Spec => []LabelsGuarded` need no condition, and `Guarded` needs `PatchingAgreed`;
  with it `Cleaned`: `Spec => []UninstallCleans` follows, the property that
  `DeploymentReconcilerPatcherDisabled` finds violated without it. Failing requests,
  late copies of the `Scheduler` and foreground deletion are no assumptions of the
  theorems: `missed` has exactly what they leave.
* `GuardRefined`: `Spec => GuardImplemented` under `PatchingAgreed`. A step that
  touches the CR leaves what outlives it alone and the other way round
  (`OneAtATime`, with `OthersKeepCr` for the worker's steps), so each step maps to
  one abstract action; that `Release` and `Leave` happen to a clean cluster is
  `IInv`, with `CleanOutside` relating `SideEffects` to `Outliving`.
* `Converged`: `Spec => []ConvergedAtRest`, with no assumption but
  `ReconcilerAssumption`, foreground deletion and failures of `Uninstall` included. (A
  patch that an outdated copy made needless is excused, as in the property.)
  `RestInv` says it of every stage (`ProgressInv`), as long as the stored CR is
  live and cached and nothing is queued (`Unnoticed`); then the worker goes by the
  stored CR and is not uninstalling (`InstallsCr`). A write to the CR always
  leaves the cache behind (`WriteNoticed`), which is where `CopyInv` and its
  resourceVersions come in again. The policy configmap is the one object whose
  removal enqueues nothing: as it has no owner (`PolicyUnowned`), only the worker
  removes it, in a retry, which leads back to the stage that applies it.

**`NodeOperationsProofs`**

* `TypeCorrect`: `Spec => []TypeOK`.
* `OnlyDrained`: `Spec => OnlyDrainedRemoved`, unconditionally, by `DrainInv`: a
  label anywhere (stored, cached, listed), a drain taint anywhere (of the node or
  in the list), or membership in `removing` implies `drained`.
* `OnlyGone`: `Spec => OnlyGoneRemoved`, unconditionally, by `FoundInv`: what is
  being removed was missing in the list, and what was missing is not in the cluster
  with the selector's label, or has come back since the list.
* `Orphanless`: `Spec => []NoOrphans`, unconditionally, by `OrphanInv`. A driver that
  runs where the worker no longer looks, because it has passed the check or deleted
  the csibmnode, is a stray one (`StrayInv`), so what is created there is lost; the
  kinds already passed are absent or lost unless an error was noted
  (`DeletionProgress`).
* `RemovalRefined`: `Spec => RemovalImplemented`, unconditionally, from `OrphanInv`,
  `FoundInv` and `DrainInv`: `KeptFunction` and `KeptStep` say how a change of one
  resource changes the abstract `kept`, `RemovalsNext` goes through the actions.
* `RemovedRests`: `Spec => []RemovedAtRest`, unconditionally, by `RestInv`. A label
  that is stored belongs, once the lists are read, to a node that is in the list, in
  `removing` or overlooked, unless an error was noted, which requeues (`PendingInv`);
  that the list shows only nodes that are still there, or something is queued, is
  `SeenInv`; and `IdleInv` is what is left of both when the worker rests.

**`NodeDeploymentProofs`**

* `TypeCorrect`: `Spec => []TypeOK`.
* `LabelsFollow`: `Spec => LabelsCurrent`. It follows from the types: a label is
  written by an update of the listed version alone.
* `DeployedRests` and `ServedRests`: `Spec => [](RolesStay => DeployedAtRest)` and
  the same for `ServedAtRest`. `RolesStay` says that roles do not change if the
  verification in force is that of pod security policies; `NodeDeploymentPsp`
  shows that it is needed, and `FixedInv` that such roles are cached from the start.
  `RestInv` has one part for each loop or pair of reads: the bindings listed are
  those in the cache (`VerifyInv`), listed nodes are still as listed and those
  labelled have their platform in `needToDeploy` (`LabelInv`), a component that has
  been passed is done (`DoneInv`). Why the watches suffice is in `SyncRoleKeeps`,
  `SyncBindingKeeps` and `AnswerKept`: a change of a role or a binding that
  `RoleEvent` or `BindingEvent` does not pick out makes the verifier allow no more.

**`OpenShiftPatcherProofs`**

* `TypeCorrect`: `Spec => []TypeOK`.
* `ForeignSafe`: `Spec => ForeignKept`, by `WorkInv`: a copy that is about to be
  written is not somebody else's, one about to be deleted is the operator's, and the
  secondary scheduler is chosen only in a cluster that has it; and by `CopyInv`: a copy
  that counts as the latest is what is stored.
* `Uninstalls`: `Spec => []UninstallCleans`, by `CleanInv`: without an upgrade
  only the mode of the cluster is ever written, and when a stage of `Uninstall` is
  reached, the stages before it have undone their part or it is missed.
* `AddressSafe`: `Spec => AddressKept`, by `KeepInv`: an address in the process is
  also stored (`StoredInv`), and as long as the configured extender answers
  (`Told`) it is the stored one and no other is looked for (`Found`).
* `PatchedRests`: `Spec => []PatchedAtRest`, by `PatchInv`: as long as nothing is
  queued, the address selected answers (an extender that stops is an event) and,
  once `WriteConfig` has passed, is the one in the configmap.

**`ReadinessProofs`**

* `TypeCorrect`: `Spec => []TypeOK`.
* `ReportCurrent`: `Spec => []ReportCurrentAtRest`, by `ReportInv`: what was listed,
  or reported, is the current status of every scheduler as long as nothing is queued
  (`QuietInv`), and once a retry has deleted its first object something is queued
  until its end (`RetryInv`), because that object is owned.

**`ObjectUpdateProofs`**

* `TypeCorrect`: `Spec => []TypeOK`.
* `Atomic`: `Spec => WritesAtomic`, unconditionally. The invariant is `CopyInv`: as
  long as the API server would take a process' update, its copy is what is
  stored, and still differs from what is expected. `IInv` is its conjunction with
  `TypeOK`, since the type of what `Update` stores depends on the copy.
* `Applies`: `Spec => []AppliedAtRest`, by `AppliedInv`: a process with nothing
  queued goes by what is in its cache (`RestInv`), a cache holds the CR as it is or
  was (`PastInv`), and the object has an owner if and only if it is to have one, so
  that its changes enqueue. `Processes # {}` is assumed: with no process
  nothing is applied.

**`AcrValidatorProofs`**

* `TypeCorrect`: `Spec => []TypeOK`.
* `Kept`: `Spec => PendingKept`, by `SeenInv`: what a process knows of a pod is an
  earlier state of it, in the order of uses and phases, so a process that has
  decided to delete has seen a later phase than pending.

**That what begins ends.** Liveness rests on fairness and is out of the prover's
reach, but half of each such argument is a safety property: a worker that goes on
comes to an end. Theorem `Ends` of six of these modules proves it with a measure
`Left` (`StepsLeft` in `NodeOperationsProofs`), the requests the worker has left at
most. It is 0 exactly when the
worker is idle, it has a bound, each step of the worker (failed requests included)
makes it smaller, and no step of anybody else makes it larger while the worker is at
work. What remains to TLC is that a fair worker takes its steps, and that what is
queued again comes to rest in the end.

| Module | Bound | What could make it run on |
|---|---|---|
| `DeploymentReconcilerProofs` | 14 | The retry of the patching leads back to earlier stages; it is taken once, because `retrying` skips readiness (`RetryScope`) |
| `NodeOperationsProofs` | 7 for each node, and 4 | The lists are refilled, or an error makes the removal of a node start again |
| `NodeDeploymentProofs` | 1 for each platform and node, and 8 | Each account's verification leads to its component or to the next account |
| `OpenShiftPatcherProofs` | 3 * `MaxTries` + 5 | The loop that looks for an extender, while extenders come and go |
| `ReadinessProofs` | 11 | The retry, as above |
| `AcrValidatorProofs` | 2 for each name | Reservations made during the round; of each process, with every other one at work |

`Nodes` and `Pods` are assumed to be finite there (`IsFiniteSet`, a hypothesis of
the theorem). `ObjectUpdate` has no loop.

**Only model-checked:** liveness, which rests on fairness and so on `ENABLED`:
`DeletionCompletes` (of the reconciler and of `OpenShiftPatcher`), `SpecApplied`,
`RemovedEventually`, `LabelFollowsTaint`, `MaintenanceEvicts`, `GoodNodesLabelled`,
`PatchedEventually`, `ReadyEventually`, `Settles`, `OutdatedRemoved`. Of the three
properties of section 5, which are violated as they stand, two are proved under the
condition whose absence violates them: `Cleaned` (the specs agree on patching) and
`DeployedRests` (roles stay under pod security policies); in place of the third,
`OnlyDeletedRemoved`, `OnlyGone` proves what holds of nodes with the selector's label.

## 5. Where the code and its comments part

| Run | Property | What happens |
|---|---|---|
| `DeploymentReconcilerPatcherDisabled` | `UninstallCleans` | Patching is enabled, later disabled, then the CR is deleted: `Uninstall` ("cleans CSI") looks at the last spec and leaves the policy and the patched `Scheduler` |
| `NodeOperationsDeselected` | `OnlyDeletedRemoved` | Only nodes with the selector's label are listed; a drained node that loses the label counts as deleted, and its resources go although the comment asks for a deleted node |
| `NodeDeploymentPsp` | `DeployedAtRest` | With pod security policies, `watchRole` matches roles against the rules of security context constraints, so the role that was missing enqueues nothing, although the comments at `deployment_controller.go:304` and `:310` say that roles are reconciled if a pod security policy is enabled |

More behaviours show up with other parameters of the same modules. They
contradict nothing the repository says, so they have no run; the properties name
them in their premises.

* *Deployment.* A CR deleted with `--cascade=foreground` still exists when its
  finalizer is gone: the next reconcile finds a deletion timestamp and no
  finalizer, falls through to the install and labels nodes with nothing to undo
  it; install and garbage collector may outrun each other for ever. An error of
  `Uninstall` is logged and the finalizer removed all the same. `updateVanilla`
  drops its errors, so a reconciler may rest without a patcher. A retry on a vanilla
  cluster whose patcher was never allowed to be deployed fails at the first delete,
  each time, and `ReconcileNodes` is not reached.
* *Schedulers.* `retryPatchOpenshift` unpatches the `Scheduler` and reads it again
  at once from the cache. If the cache still has the patched copy, the patch counts
  as done: the reconcile ends without an error, nothing watches the resource, and
  the scheduler stays without the extender until another event (`ConvergedAtRest`,
  `PatchedAtRest` and `PatchedEventually` excuse it). The same happens after the CR
  is deleted and created anew. The other way round, an `Uninstall` shortly after the
  patch may read a copy without it, and leaves the patch for good
  (`SideEffectsGuarded`, `UninstallCleans`).
* *Nodes.* Errors of both lists in `nodeoperations` are returned as success; if
  the reconcile was that of a deleted node, its removal is forgotten until another
  event. So it is if the node is deleted before the cache has seen the new label; and
  a csibmnode registered after its node was tainted causes no event
  (`RemovedAtRest` and the liveness properties of `NodeOperations`). A node
  may come back between the list and the deletions (`OnlyGoneRemoved`). If the
  pods' cache is ahead of that of the drives, the last drive a driver has found
  is missed, the csibmnode goes, and nothing leads to the drive any more
  (`NoOrphans`).
* *OpenShift.* After an upgrade of the cluster the running operator goes on
  patching the old kind of scheduler, and a restarted one uninstalls the new kind
  only. When the CR is created anew, the address still in the process is used but
  not stored again, so a later restart may move the scheduler. A secondary scheduler
  that replaces the operator's between its read and its delete is deleted by name.
* *Readiness.* With the secondary scheduler every master is reported as
  restarted, and its pods enqueue nothing although the comments at
  `deployment_controller.go:159` and `:180` expect them to. When agents are slower
  than the timeout, a retry strikes schedulers that have become ready since they were
  listed, and may be repeated for ever.
* *Reservations.* A pods' cache that lags behind the reservations' cache, or a name
  that is reserved anew between list and delete, may cost a pending pod its
  reservation.

## 6. What is not modelled

* Two operator processes of which one uninstalls while another still installs
  (leader election is off by default in `main.go`, the chart switches it on; the
  objects they write are in `ObjectUpdate`, labels and schedulers are not), and two
  CRs. A CR that asks for both kinds of verification.
* Caches that show states in between: a stalled informer jumps to the latest state
  (in `NodeOperations` and for OpenShift's schedulers), so a copy is what it was when
  the informer stalled. Late copies of OpenShift's schedulers in `Readiness`. Which
  fields two specs differ in, apart from those that are not compared.
* Pod templates, the contents of configuration files, events recorded for users,
  logging: data without behaviour.
* `api/v1`: type declarations and generated code. Charts, kustomize files and
  build files: static.
* The driver, Kubernetes and controller-runtime: modelled as far as the operator
  sees them, and marked external in `PROJECT.json`.

## 7. Plan

Done: the modules of section 2, the two abstract specifications and their
refinements, the theorems of section 4.

Left, in the order of what it would add:

1. Two processes, one of which uninstalls, or two CRs, as a variant of
   `DeploymentReconciler`.
2. `DeploymentReconciler` and `NodeOperations` composed, as they share a worker: does
   the first one's retrying starve the second?
3. Late copies of OpenShift's schedulers in `Readiness`, with the effect they have on
   the retry.
