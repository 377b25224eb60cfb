# podji in TLA+

[podji](../src/README.md) is a terminal user interface for Kubernetes, written
in Go on bubbletea. This directory holds specifications of its behaviour, the
TLC configurations that check them on small instances, and TLAPS proofs of the
properties that matter most. It covers what a unit test hardly reaches: messages
that arrive late, goroutines that outlive their view, caches that answer for
another scope, views that leave the stack on a path nobody thought of.

Everything is translated from the Go source under `src/`; a comment or test is
only used to say what the code is meant to do.

## 1. The system

podji runs **one event loop** (bubbletea's). Each turn takes one message (a key,
a window size, or the message a command produced), calls `Model.Update`, and
runs the commands that `Update` returns, each in a **goroutine of its own**,
whose message comes back later, in no particular order. The loop waits for
nothing else, except that reads of the cluster made inside `Update` block it.

| Component | State | Operations | Talks to |
|---|---|---|---|
| Application model (`internal/app/app.go`, `ui/viewstate`) | view stack and crumbs, scope, bookmarks, overlays, command bar, last single namespace | keys, messages, `popView`, `switchStore`, `runCommand`, bookmark set and jump | calls the view on top, the store; disposes views |
| Log view (`ui/logview`) | request number, cancel function, stream channel, lines, follow, typing, error | start, pause, resume and reload a stream or a fetch; take its messages | its stream goroutine through a channel of 256, its pump commands through the event loop |
| Event view (`ui/eventview`) | request number, cancel function, content | fetch once, take the answer | as the log view, without a stream |
| List view (`ui/listview`) | rows, cursor, filter, search and its matches, sort, modes (find, sort, copy, execute), messages with timers | keys of each mode, refresh on a change of size, sort or columns | its resource, bubbles' `list.Model` (which filters in a goroutine), application (push, open) |
| Related view and picker (`ui/relatedview`) | categories, cursor | opened for a selection, sends what is picked | relation index, application |
| Resource browser, column picker, overlay picker, command bar, filter bar | cursor, rows, typed text, mode | open, close, choose | application, by messages; the column picker writes a configuration that all lists share (`columnconfig`) |
| Text views (detail, describe, YAML, help) | text, scroll offset | scroll, push subviews | application |
| Cluster store (`data/kubestore.go`, `status.go`) | scope, status | `SetScope`, queries, reports into the status | cluster API; called by the loop and by goroutines |
| Read model (`data/kube_readmodel.go`) | none (the store's scope and status) | `List`, `Detail`, `Logs`, streams, events | cluster API, status |
| Cluster API (`data/clientgo_api.go`) | clients, informers, list cache (3 s), namespace cache | `ListResourcesMeta`, logs, events, names | Kubernetes |
| Relation index (`data/relation_index_read.go`) | per scope a snapshot of lists (2 s) | `Related` | read model |
| Read-backed resources, mock store, resource tables, column configuration | little or constant | | |

The docs that say what is meant: `src/README.md`, `src/dev/adr-data-architecture.md`
(the store, read model and relation index), `src/dev/spec-command-bar.md`,
`src/dev/plan-k8s-integration.md`; and the tests next to the code.

### What is hard here, and what makes it correct

- **Messages find the view on top, not the one that asked** (app.go:141-156).
  Streams must survive that in order and without holes, and stop when their view
  goes. A view must not take another's lines.
- **A stream is a chain.** Each line is asked for by the handler of the line
  before it (logview.go:477), so at most one message is in transit, and losing
  it silences the stream.
- **Cancellation.** Pause, reload, pop, scope switch and bookmark jump cancel
  background work; nothing may run that no view can cancel, and a cancelled
  goroutine must get off a full channel.
- **Many paths change the screen.** Stack, crumbs, scope of application and of
  store, and the remembered namespace are separate fields that a dozen paths
  set; they must agree after each, also when a command fails half way.
- **Modes.** The same key means another thing while a list filters, searches,
  finds, sorts, copies or executes. Each mode is a field of its own; two at once,
  or a key that reaches the list below, and an operation hits another item.
- **Late commands.** Enter in a picker or bar acts when its message comes back;
  the keys in between must not change what it acts on.
- **A shared status without a lock.** Goroutines and the loop copy, change and
  write it back.
- **Caches in two layers**, each with its lifetime, in several scopes, filled by
  calls that take seconds and fail. Answers must be of the right scope and
  recent, and a lookup that blocks the event loop must be bounded.
- **Everything is computed twice.** A list is made of API objects and again of
  informer objects; a relation from one end and again from the other; what enter
  opens by the list view and again by the index the picker counts from; the status
  of a row and again that of its detail. The pairs must agree.
- **Rows outlive what they are of.** A row is turned back into an object by kind,
  namespace and name long after it was read.
- **Tables are drawn by index.** Columns, their widths and the size of the view
  change on different paths; a width that is missing ends the program.

`PROJECT.json` lists these hazards line by line with the properties that cover
each of them, or the reason why none does.

## 2. The modules

| Module | Models | Instances and proofs |
|---|---|---|
| `LogViews` | log views, their streams and pumps, under the view stack | `LogViews_proofs` |
| `FollowedLog` | what a followed log promises: the abstract specification `LogViews` implements | `FollowedLog_proofs` |
| `Navigation` | the application model: screens, scope, bookmarks, pickers, command bar | `MCNavigation`, `Navigation_proofs` |
| `KubeStore` | scope and status of the cluster store, and the reads that report into it | `KubeStore_proofs` |
| `ListCache` | the list path of the cluster API: cache, informers, calls | in `RelationIndex_proofs` |
| `RelationIndex` | the relation index over that list path (`EXTENDS ListCache`) | `RelationIndex_proofs` |
| `ListView` | a list on screen: modes, filter, search, cursor, refreshes, operations | `ListView_proofs` |
| `ClusterRows` | what rows the cluster API makes of objects, on both paths, and the object behind a row | in `Exploration_proofs` |
| `RelatedRows` | which rows are related to a row (`EXTENDS ClusterRows`) | in `Exploration_proofs` |
| `Exploration` | going through a changing cluster: lists, enter, picker, logs (`EXTENDS RelatedRows`) | `MCExploration`, `Exploration_proofs` |
| `ColumnWidths` | how wide the columns of a table are drawn | in `Panels_proofs` |
| `Panels` | columns, sizes, browser, event views and pickers over and under each other (`EXTENDS ColumnWidths`) | `MCPanels`, `Panels_proofs` |

### LogViews

One action per operation. Application: `OpenLogs`, `CommandLogs`, `PushOther`,
`PopView`, `SwitchRoot` (a resource key), `CommandSwitchRoot` (`:<kind>`, which
does not dispose), `SetBookmark`, `JumpToBookmark`. View: `PauseFollow`,
`ResumeFollow`, `ChangeOptions` (`t`, `p`, `.`, `,` reload), `StartTyping`,
`StopTyping`, and the handlers `HandleAppend`, `HandleDone`, `HandleResult`
behind `Deliver`. Goroutines: `ReadLine`, `SendLine`, `DropLine`, `StreamEnds`
of the stream, `PumpReceive`, `PumpClosed` of the command that waits on its
channel, `FetchReturns` of the fetch that replaces it when not following.

A request (view, number) stands for the context, channel and goroutine that
`reloadLogsCmd` creates; `cancel[v]` and `streamCh[v]` say which request's the
view holds. A line is its position in the pod's log together with the request
that brought it, which is all the properties tell apart; what a search or a
window makes of lines is left out. All other views are `OtherView`.

### FollowedLog

The promise behind it: a log on screen is a run of the pod's lines, which `ShowLine`
extends by the line that comes next and `ShowFetched` replaces by the whole log;
`Ask` and `Cancel` take nothing away. `LogViews` maps one view to it (`Followed`, by
`INSTANCE ... WITH`): `request` is the view's number, `cancelled` that of the stored
context, `shown` its lines; streams, channels, pumps and messages disappear.
`FollowsLog` says that every step of `LogViews` is a step of `FollowedLog` or a
stutter, as long as one view is there and the log is the mock's, which a stream does
not send twice (a cluster's stream repeats the tail, see the disagreements below). The
run checks it on a small instance, `LogFollowed` proves it.

### Navigation

One action per key of the application and `Deliver` for messages. A screen is a
stack with its crumbs and the scope its root was made in; the operators
`Pushed`, `Popped`, `Committed`, `TakenBack`, `WithList` are the statements that
change both slices, and `RunCommand` composes them as `runCommand` does. A view
is its kind, its breadcrumb and the crumb it is opened with. Which items a name
typed into the bar matches is a choice. What a message says is chosen when it
arrives, since nothing reads it before. `rootScope` is not a field of the code:
it records the scope of the application when the root was opened, which is the
scope its items were read in. An error for a bar that is gone calls a method on
a nil pointer (app.go:240): `running` becomes `"panicked"`.

Not in it: the column picker (it opens and closes like the others and changes
no state of this module), the key that a resource list was opened with, tab
completion, header and footer. What disposing a view does is in `LogViews`.

### KubeStore

The event loop's operations (`SetScope`, `List`, `ReadObject`, `NamespaceNames`,
`ContextNames`, `UnhealthyItems`, `PodsByRestarts`) start a list of reports; each
report goes through `setStatus` in its steps (`CopyStatus`, `WriteState`,
`WriteTimes`), which other goroutines may come between, as no lock is taken. A list
of a query that did not fail has nothing to report (`Skip`). The
status is a struct of several words, so it is written in two parts. A background
read starts, checks its context, resolves the scope **when it gets there**
(kube_readmodel.go:300), reads, and reports. Instead of wording, a report keeps
the scope it speaks of.

### ListCache and RelationIndex

`ListCache`: a list is served from the cache while its entry lives, else from
the informers of the context once they have synced, else by a call that takes up
to `CallTime`; answers are cached. A list is the time its content dates from and
the scope it was listed in. `ListSpec` is what any user of the list path must
keep to, and serves as the abstract specification of the module above it.

`RelationIndex`: `Related` looks up what belongs to one object. For each list it
needs it calls `snapshotFor` (`SnapshotFor`, then `FillNext`/`FillAnswer` per
missing list, `StoreSnapshot`), uses the list, or asks once more
(`ListDirectly`, `DirectAnswer`). Every step of it maps to a step of `ListSpec`
or leaves the list path alone: `RelSpec` implements `ListSpec`, which
`relation_index_scopes` checks and `IndexKeepsToListPath` proves.

### ListView

Who takes a key is the first of `Searching`, `Filtering`, `Finding`, `SortPicks`,
`Copying`, `Executing` and `Browsing` that holds, in the order of `Update`; each
action names the one it belongs to. The rows are bubbles' `list.Model`, modelled
from how the code uses it: a typed filter is answered later by a message
(`TypeFilter`, `DeliverAnswer`) with the rows that match in an order of its own (best
matches first, which what is modelled does not see), the answer is dropped if the list
searches or another view is on top, and `SetItems` empties the filtered rows (`RefreshItems`).
An item is its place in the order of names, a text is the set of items it
matches. `chosen` is not a field of the code: it remembers which item was under
the cursor when `x` was pressed, until something other than a key changes the
rows.

Not in it: columns and their widths (`Panels`), which of several columns the rows are
sorted by, pages, what `enter` opens for each kind (`Exploration`), and the messages
of the footer with their timers.

### ClusterRows, RelatedRows, Exploration

`ClusterRows` has the rows of ten resources, each in two definitions as the code
has them: `ListPods` and so on from a request to the API, `PodsFromInformer` and so
on from the informers' cache; further the status of each kind and, for a row,
`ResourceObject`, the object a `Get` brings, with `DetailStatus`. Objects are
records; a name is a sequence of words, labels a set of entries, a list a set of
rows. `ClusterRules` is what the API server sees to, `OwnershipRules` what the
controllers do (both external).

`RelatedRows` has the relation index (`Related`, one definition per relation) and
next to it the lookups the list view makes by itself (`LiveWorkloadPods` and so on)
and those over the mock's pods where no list of the cluster can be had.

`Exploration` lets a user go through such a cluster while it changes. External
actions create, delete and fail objects; `InformersSync` and `WatchEvent` bring that
to the informers kind by kind. `Rows` is the list path: the informers' once they have
synced, else the API's, which may fail. One action per kind of row for enter
(`EnterPod`, `EnterService`, ... as the cases of `forwardView`), the picker
(`OpenRelatedPicker`, `MoveCursor`, `Choose`, `OpenPicked`, `EnterRelation`), the
commands that look for rows (`OpenUnhealthy`, `OpenRestarts`, `OpenSelector`,
`OpenNamed`), `J` (`JumpToPodOwner`), scope switches and refreshes. A resource is its
name, whether it is a child of another list, and its `base`, which says who answers
for the details and logs of its rows: that decides between lines of the cluster and
of the mock (`LinesOf`).

Left out: caches and how lists fail (`ListCache`, `RelationIndex`), crumbs and
bookmarks (`Navigation`), ages, images and other columns nothing is decided by, and
keys pressed between a choice in the picker and its message (`Navigation` has them).

### ColumnWidths, Panels

`ColumnWidths` has the allocation of widths: natural widths, then shrinking the
widest to what is available (`ListWidths`), and the browser's with minimum widths
(`BrowserWidths`).

`Panels` has what a view keeps while others lie over it and what comes to it late:
of a list its columns, labels and widths, of the browser sort, filter, find and
cursor, of an event view what it shows. `RefreshItems` is `refreshItems` with
everything it recomputes. The namespace picker and the column picker answer by
message, and the list on top may be another by then (`ColumnsPicked`). An event view
reads in a goroutine (`EventsRead`) and takes its answer only on top
(`EventsAnswered`). A change of size reaches the view on top only (`Resize`).

## 3. What is checked

| Run | Question | Answer |
|---|---|---|
| `logviews_one_view` | Does one view implement the log it follows (`FollowedLog`)? Can everything that runs be cancelled, is one message in transit, does a removed view stop its work? | yes |
| `logviews_live` | With a full channel, a stream that replays its tail and bookmarks that bring disposed views back: does a buffered message get shown, does a cancelled request end? | yes |
| `logviews_typing` | Does a streamed line get shown in the end? | **no**, typing loses it |
| `navigation` | Do stack, crumbs, scopes and inputs agree after every key and message? | yes |
| `navigation_late_error` | Is the error of a command shown? | **no**, it can end the program |
| `store` | As long as the loop alone reports, does the status speak of the current scope, show real errors, and keep the time of the last success? Does a background read of a view on screen use the scope on screen? | yes |
| `relation_index` | Is what a lookup costs bounded, and does it end? | yes |
| `relation_index_scopes` | Are answers of their scope and recent, and does the index keep to `ListSpec`? | yes |
| `list_view` | Does a key mean one thing, do matches follow the rows, is an operation done to the item it was asked for? | yes |
| `list_filter` | Is a filtered list empty only if nothing matches? | **no** |
| `exploration` | In a cluster that changes meanwhile: do both list paths make the same rows, do relations lead back, does enter open what the picker counts, does a row open its own object, is everything on screen of the scope? | yes |
| `panels` | Do tables fit their views with a width for each column, do lists show the columns that were chosen, do events that were asked for appear? | yes |

### Bounds, and why they are enough

- `LogViewsOne`: one log view, two requests (a stream and its successor, or a
  fetch), two lines, a channel of one (full after one line, as the 256 of the
  code is after a burst), a stack of three (list, log, another view on top).
  `LogViewsLive` has one request of three lines, so that a goroutine does block on
  the channel, with a bookmark slot and the cluster's stream, which replays the
  tail. `LogViewsTyping` is the smallest instance with a stream and a line. That
  everything running can be cancelled with bookmarks too is the theorem
  `Cancellable`, for any number of them.
- `Navigation`: two namespaces and all of them, one context (contexts and
  namespaces take the same paths; the scope is compared as a whole), two
  resources so that a list can or cannot be of the kind a command names, three
  views (root, list, text), a bookmark of up to two, one message on its way.
  The namespaces are symmetric: no definition tells one from the other.
- `KubeStore`: two contexts with a namespace each and one background read, which is
  the smallest case of a read of the old scope; scopes are compared as a whole, and
  with several reads every one relates to the scope in the same way. Errors of two
  classes: one that has a state of its own and the cancelled context, which has none.
  A clock of two tells a time that is set, set again or lost, which is what the
  property of the last success needs.
- `RelationIndex`: one scope, a source that needs two lists, lifetimes 1 (cache),
  2 (snapshot) and calls of up to 1, in the order the code has them (calls may
  take longer than a snapshot lives: 2 calls fill it), and a clock that lets a
  snapshot expire during a lookup. `RelationIndexScope` has two contexts.
- `ListView`: two items, so that rows can be more, fewer, reordered or other than
  before; a text that matches one and a text that matches both, so that a filter or
  search matches some, none or all and can order its answer differently from the list;
  two answers on their way, so that one overtakes the other (equal answers are one); a
  kind with a restart and one with a port-forward.
- `Exploration`: two namespaces and an object of each kind that something is decided
  by: a StatefulSet whose pod is replaced by another of its name, a Deployment whose
  pod has a ReplicaSet for controller, a service for each, an ingress found by name
  only, a claim, a node, a CronJob, and a ConfigMap and a Secret of one name.
  Two changes of the cluster (`MaxChanges`), so that a pod is deleted and created again
  under its name, among `Changing` and `Failing`; a stack of three (`MaxStack`: list,
  list of children, log), of which the picker, a command or `J` opens over the first
  (`MaxBelow`). `Commanded` are the resources commands search, one whose list may be
  the mock's pods and one whose is not.
- `Panels`: a resource with a wide table and one without, a label that may or may not
  be there, a terminal wide enough for the tables and one that is not, a stack of
  three, one message besides answers about events (`MaxMessages`), and two of the
  steps that make the case larger (`MaxTurns`: changes of size, labels and scope,
  browsers, pickers, event views and query lists opened). Two event views are enough
  for one to get the answer of another.

Quitting ends the program, so `Navigation` is checked without deadlock
checking; all other runs check it.

### Fairness

- `LogViews`: weak fairness of delivering messages, of the steps of goroutines
  that have something to do, and of the end of a stream **whose context is
  cancelled**. The Go scheduler and bubbletea's loop justify these. Nothing is
  assumed of the user, of the pod, or of how long a stream lasts.
- `RelationIndex`: weak fairness of the lookup, which the event loop is in, and of
  the end of a call, which has a deadline of 8 seconds (clientgo_api.go:120).
- `Panels`: weak fairness of the end of a read of events, which has a deadline, and
  of the delivery of its message: the event loop takes every message. Nothing is
  assumed of the user.

### What the code does that its docs or tests do not say

Three runs end in a violation; each is listed in `PROJECT.json` under `findings`
with the sentence it contradicts.

1. `logviews_typing`: a line delivered while a filter is typed is dropped, and
   with it the request for the next: the stream is silent from then on
   (logview.go:106).
2. `navigation_late_error`: Esc closes the bar before its command comes back; a
   refused command then calls `SetError` on nil (app.go:240).
3. `list_filter`: a resize, sort or change of columns under an applied filter
   leaves no rows, and the list says that nothing matches (listview.go:1550).

**Known disagreements**, met while modelling. Unless it says otherwise they are in
the models as in the code; the properties except them by name, and none has a run of
its own.

*Logs and events.*
- Views number their requests alike, so a late line of one log view is shown by another
  (logview.go:167). `FollowsLog` is checked with one view.
- The last message of a stream is dropped when the channel is full, and the error it
  carries with it (logview.go:441, against logview_test.go:493-494).
- A cluster's stream sends the tail the snapshot already showed (logview.go:98, against
  pods.go:238-239).
- `:<kind>` replaces the stack without disposing it (app.go:1012, against
  viewstate.go:33-34): `RemovedViewIsDisposed` excepts it. A bookmark brings back
  views disposed when it was left, and nothing starts them again (app.go:447).
- Views pushed by a command are not started with `Init` (app.go:1072): `:pods web
  events` shows "Loading events..." for ever.
- An answer about events that arrives under another view is lost, and one of another
  event view with the same number is taken (eventview.go:48). `EventsAreShown` is of a
  view that stays on top.

*Store and scope.*
- A report of a read of the old scope replaces the status of the new one
  (kubestore.go:319): `StatusIsOfCurrentScope` fails as soon as a background read
  reports, and only `LoopStatusIsOfCurrentScope` is checked.
- A related view picked before key 0 opens after it with rows of the old scope
  (app.go:293).
- A scope switch makes a list that carries its own items the root of the new scope
  (app.go:742): it is empty with a cluster.
- A list that is kept in a relation snapshot when another is added gets a new lifetime
  (relation_index_read.go:111, against relation_index_read_cache_test.go:152).
- A hit in the list cache is reported as cache backed while informers still warm up
  (clientgo_api.go:144, against kubestore_test.go:385), and a lookup may call the
  cluster (relation_index_read.go:122, against relation_index.go:9-10).
- With a cluster, rows, lines and details of the mock stand in wherever a list cannot
  be had or a list of children has no reader (relations.go:709; README.md:59 and
  dev/plan-k8s-integration.md:12 want live reads). `WorkloadPods.Items` takes the
  registry's pods though its comment says "never synthesize mock pods"
  (relations.go:239). `J` on a pod whose owner is not found opens a made-up one
  (app.go:541). Lists found by labels or by name fall back to the mock's items when
  the cluster does not answer, and their rows open through the registry's resource in
  any case (app.go:1001, 1023, 1241).

*Lists, columns and sizes.*
- An answer of the filter that arrives while a search is typed, or under another view,
  is dropped and not asked for again (listview.go:223), so rows may be of an older
  text (listview.go:577). A refresh or a late answer between `x` and the confirmation
  changes the item that is operated on (listview.go:1549).
- With matches of a confirmed search on screen esc neither clears them nor goes back
  (listview.go:864, against helpview.go:16).
- Views below the one on top keep their old size, and come back with it and their old
  columns (app.go:213, `popView`).
- The column picker is given label columns twice, so a column chosen once is shown
  twice (listview.go:498); a chosen label that no item has any more stays a column;
  what is picked is lost when another view is on top. A list of query results loses
  its wide columns, and where a resource has none `w` shows a table without columns
  after a change of scope (read-backed resource, `WideColumns`).
- The browser loses its rows like a list when it is sorted or resized under an applied
  filter, and esc then goes to the application instead of clearing it.
- The picker's cursor starts on its first entry, actionable or not.

*Rows and relations.*
- Selectors match across namespaces (relation_index_read.go:253), and the services of a
  workload are found by comparing selectors with its selector, not with its pods'
  labels (relation_index_read.go:352).
- A pod's owner is looked for by the prefix of its name, so a pod of `web-api` is owned
  by `web` too (relation_index_read.go:219, against
  relation_index_read_cache_test.go:119).
- Rows are sorted by name alone (clientgo_api.go:1054): in the scope of all namespaces
  two of one name may change places under the cursor.
- Rows of ConfigMaps, Secrets and claims that a relation makes have no namespace, and a
  ConfigMap and a Secret of one name are one row. A row of an event has a name no event
  has. Status of a DaemonSet's row and of its detail are computed differently. The
  picker wants whole names where the index takes prefixes.
- The list of `:unhealthy` goes by the name of workloads, so its pods and claims open
  as Deployments. `:pvc` is always an "unknown command" (app.go:1118 maps it to "pvcs",
  which is no resource), though dev/spec-command-bar.md:8 lists it and completion
  suggests it; this one is not in a model.

## 4. What is proved

The proofs hold for every value of the constants that satisfies the modules'
named assumptions. Those say only that the special values are not ordinary ones
and that bounds are numbers; `ClusterFacts` also says what Kubernetes sees to in the
objects of a cluster (uids are unique, `OwnershipRules`, nodes have no namespace), and
`RegistryPodsFacts` that the mock's pods have neither uid nor namespace; `PanelsConstants`
says that a table has columns and a column has a width. The theorems state every
invariant and every action property of the passing runs.

**`LogViews_proofs`.**
- `TypeCorrect`: `TypeOK`, including that no stream reads past its pod's log and
  no channel exceeds its capacity.
- `Cancellable`: `RunningRequestIsCancellable`, inductive together with `TypeOK`:
  each request is started by the assignment that stores its cancel function, and
  each later assignment to that field cancels first.
- `TransitCorrect`: `OneMessageInTransit`, for one log view (assumption of the
  theorem: `SingleView`; with several, which take each other's lines, it is false). It is not
  inductive: `TransitInv` adds that requests not yet made have no goroutine,
  pump or message (`FutureRequestsUntouched`), that a channel holds messages of
  its own request (`ChannelHoldsOwnMessages`), that a fetch has no stream
  (`FetchHasNoStream`), and that the view holds its current stream or none.
- `RemovedDisposed`: `RemovedViewIsDisposed`, from `Cancellable`: what takes a view off the
  stack disposes it, and what it has running is what it can cancel. The other steps only
  make the stack grow (`GrowingStack`).
- `LogFollowed` and `ImplementsFollowedLog`: the refinement, for one view and a log that is
  not sent twice (`SingleView`, `ReplaysTail = FALSE`). It needs to know where the lines
  are that are not on screen yet: `RunInv`, proved as `RunCorrect`, adds to `TransitInv`
  that the lines of the current stream are found in the one message under way, then in
  the channel, then in the hand of the goroutine, each further than the last
  (`InOrder`), and, unless the stream is cancelled, each the next one (`NoGap`); that a
  fetched log reaches at least as far as what it replaces (`ResultsHoldTheScreen`); and
  which requests there can be at all (`BookInv`). Each step of the code is then a step
  of `FollowedLog` (`ShowLineStep`, `ShowFetchStep`, `AskStep`, ...) or leaves its state
  alone (`QuietStep`). Under a cancelled stream there may be a hole after the last line
  on screen; the handlers that drop its messages, and `NoGap` being asked of streams that
  are not cancelled, are what keeps it from the screen.

**`Navigation_proofs`**: all five properties of the module.
- `RootCorrect` and `ToggleReturns` rest on `ScopeInv`: application, store and
  root have one scope, a single namespace on screen is the one remembered, and a
  bookmark's screen was made in the scope saved with it. The last two are what
  makes the toggle and the jump safe, and no run states them on their own.
- `CrumbsCorrect` rests on `ScreenInv`: what is shown and what is saved are good
  screens. Lemmas say that each operator on screens (`Pushed`, `Committed`,
  `TakenBack`, `Popped`, `RunCommand`) turns a good screen into a good one.
  `BestResourceKnown` needs that a set of stack positions has a topmost one,
  which follows from well-foundedness of the natural numbers (`TopmostExists`).
- `OneTakesKeysCorrect` is inductive by itself. `TypeCorrect` puts all of it
  together with the types of messages (`InputsOK`).

**`FollowedLog_proofs`.** `FollowedLogIsRun`: lines are shown in order, none twice and
none missing while their request runs, for logs of any length and any number of
requests. `LinesInOrder` and `NoGapWhileRunning` are inductive together with
`TypeOK`. As `LogViews` implements this specification (`ImplementsFollowedLog`), what is
proved of it holds of a log view on screen.

**`KubeStore_proofs`**: all five properties of the run.
- `AttachedReadCorrect` rests on `ReadsInv`: a read that has resolved its scope, is not
  cancelled and whose view is on screen has the scope of the store. A scope switch
  keeps it because it cancels every read whose view it takes off the screen.
- `TypeCorrect` needs that a caller that writes has a report left to take off
  (`TypeInv`). `QueryReportsType` says that what a query over one or three lists
  reports is a sequence which ends with the real error, by cases over which of the
  lists fails first.
- `LoopStatusCorrect`, `RealErrorCorrect` and `SuccessCorrect` rest on `LoopInv`: while
  no background read has its scope nobody but the loop reports (`OnlyLoopReports`);
  the status is of the scope on screen or about to be overwritten (`Settled`), the
  error is on screen or still to be reported (`ErrorPending`), and what is being
  written is not older than what is there (`InTime`).

**`RelationIndex_proofs`**, of the list path and of the index above it.
- `ListInv`: an entry of the cache holds a list of the scope of its key, which expires no
  later than `CallTime + ListTTL` after the time its content dates from; a call in flight
  has lasted at most `CallTime`. From it `ListTypeCorrect`, `ScopeCorrect` (an answer is of
  the scope asked for) and `RecentCorrect` (an answer is not older than that sum, or comes
  from an informer).
- `IndexKeepsToListPath` is the refinement: each step of the index is a step of `ListNext`
  or leaves `listVars` alone, so all that is proved of `ListSpec` holds below the index
  too.
- `RelInv` adds to `ListInv` what the phases of a lookup promise: it waits for a call only
  while filling a snapshot or asking directly, its base lists are of its own scope
  (`OwnScopeCorrect`), a list asked for was missing before (`AsksOnlyForMissingCorrect`),
  and the calls made so far are in step with the lists still to be filled
  (`CallsBounded`). `MissingFacts` needs no induction: a source needs one list or two
  (`RequirementsKnown`).

**`ListView_proofs`.** `OneMode` rests on `ModesApart`, which spells out the pairs of
modes: each is entered only from none. `OperatedOnIsChosen` is inductive together
with it: the keys that move the cursor or change the rows need a mode that is
then off. `MatchesVisible` is inductive by itself; it needs of the matching
function only that the empty search matches nothing. `TypeCorrect` says more than types:
rows are sorted as `s` says, no item is there twice, and the current match is one of the
matches, which rise. What the rows are sorted by is a `CHOOSE`, so it takes a proof that
a set of numbers can be arranged in rising order (`RisingExists`, `RisingIs`), for which
the items must have a last one, as they have in a program.

**`Exploration_proofs`**: all seven properties of the run.
- `OwnersCorrect` rests on `WorldInv`: all that is there, or was seen by an informer, is
  an object of the catalogue as it was created or after it fell ill, which changes
  nothing of what owners go by (`KnownIsOfCatalogue`). Then either the uid finds the
  owner, or no workload has the uid of the pod's controller (`OwnedByUID`) and the name
  of the ReplicaSet does (`OwnedByName`); so it does not matter how far behind the
  informers are, or that a pod and its owner were never there at one time.
- `ListsCorrect` rests on `StackInv`: besides its rows being of the scope, a list that is
  no child is of a resource the cluster can list, else reading it again, or taking it
  over into another scope, would not be covered (`ItemsInScope`). There is one lemma
  per kind of change of the stack (`AppendGood`, `FrontGood`, `ReplacedGood`, `RootGood`)
  and one per operation or group of them.
- `PathsCorrect`, `RelationsCorrect` and `LookupsCorrect` are facts about the definitions
  of `ClusterRows` and `RelatedRows` for any lists, and need no induction.
- `RowsCorrect` (`RowOpensItsObject`) adds to the stack that each row of a list was made of
  a known object (`FoundRows`): then kind, namespace and name of the row are the object's,
  and as the API server keeps them apart (`ClusterRules`, which `ClusterInv` carries
  through the changes of the cluster) no other object answers to them (`RowOpens`). That
  the healthy rows are those with a healthy detail is `StatusesAgree`, by cases over the
  kinds of workloads.
- `TypeCorrect` puts `ClusterInv`, `StackInv` and `PickerInv` together; the picker never
  opens without an entry to stand on (`PickerHasEntries`).

**`Panels_proofs`**: the safety properties of the run.
- Much of it is about functions of data. `Those`, `Round`, `Narrowed` and the folds of the
  community modules are recursive functions, and one has to prove that there is such a
  function before its values can be spoken of (`FoldExists`, `RoundsExist`,
  `NarrowedByRounds`). The library's induction theorems cannot be used (their parameter
  is an operator), so an induction is one over a **set**: `AllNumbers` and `AllSubsets`,
  by a least counterexample from well-foundedness.
- `ListWidthsFit` and `BrowserWidthsFit`: the allocation of widths is right for a table of
  any columns in any room. A round of shrinking narrows no column below its minimum
  and takes no more than is over (`GivesLeavesGiven`), and takes something unless every
  column is at its minimum (`RoundNarrows`), so the rounds end where the table fits or
  nothing is left to take (`NarrowedFits`). `TablesFit` says so of what is on screen.
- `SortedIsAll`: sorting columns by an order that is not total keeps every column, once.
- `PanelsCorrect` is the invariant: every view on the stack, also those below others, has
  columns of its own resource, and widths that its size gives (`GoodList`, `GoodBrowser`),
  so it can be drawn whenever it comes back; the pickers stand on entries that can be
  picked, and a message under way carries columns and resources there are. One lemma per
  operation (`RefreshedList`, `SizedGood`, `BrowserKeysKeep`, `PickerKeeps`, ...).
  `TypeCorrect` and `TablesFitCorrect` follow.
- `ChoicesShown` (`ListsShowChoices`) is about steps: each operation that brings a list up, or
  changes the one on top, does so with the choice that is stored after it
  (`OpenShows`, `ListKeysShow`, `AnswersShow`).

**Only model-checked**: liveness (`BufferedMessageIsShown`, `CancelledRequestWindsDown`,
`LookupEnds`, `EventsAreShown`), which needs fairness and `ENABLED` and is beyond the
prover. What is proved for one log view only (`TransitCorrect`, `LogFollowed`) is false
of several, which take each other's lines (section 3).

## 5. What is not modelled

- Rendering, key help, styles, build information, parsing of flags: pure output, no
  state.
- Text views (detail, describe, YAML, help): they scroll text. In `Panels` and
  `Exploration` they are places on the stack, and what a detail view opens is modelled.
- The text of details, YAML and describe, events' wording, ages, images and other
  columns nothing is decided by; tables of mock data.
- Search, filter and window **within** a log or an event list, wrapping: functions of
  lines to lines without a state that others read.
- Messages of the footer and their timers: a timer knows nothing of the message it was
  set for and clears a newer one (listview.go:192); nothing depends on them.
- Completion and history of the command bar; the find mode of the picker's lists.
- The mock store: no concurrency and no failures. Its normalisation of namespaces is
  that of `KubeStore`.
- The namespace cache of the cluster API (clientgo_api.go), which is a list cache with
  one key.

`PROJECT.json` gives status and reason for each component.

## 6. What would come next

1. The refinement for several log views, under the assumption the code does not keep:
   that a message is taken by the view it is for only. It would say that the numbering
   of requests is all that stands in the way.
2. An abstract specification of a list on screen (rows of one resource, of one scope, with
   a cursor) which `ListView` and the lists of `Exploration` and `Panels` each implement;
   the invariants proved of them are what such a refinement needs.
3. That the shrinking of widths is fair (no column is narrowed while a wider one is left),
   as a further fact about `Narrowed`.
4. Log windows and searches (`tailForWindow`, `boundedNonEmptyLines`) as operators
   against a reference definition.
