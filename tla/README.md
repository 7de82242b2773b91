# TLA+ models of the OCM core (mandelsoft/ocmorig)

These modules model the parts of the repository whose behaviour depends on
the order of calls, on goroutine interleavings, on failures in the middle of an
operation or on shared state. The TLC model checker checks them.

## 1. The system and its parts

| Part | Source | State | Operations |
|---|---|---|---|
| CTF format dispatch | `src/pkg/contexts/oci/repositories/ctf/format.go` | `fileFormats` map + `RWMutex` | `RegisterFormat`, `GetFormat`, `SupportedFormats`, `Open`, `Create`, `OpenFromBlob`, `formatHandler.Open/Create/Write` |
| Access-object lifecycle and codecs | `accessobj` (not in this tree; spec §4.2, 4.3, 7) | the repository at the path, the open object (state, dirty flag, index, blobs), the temporary archive | open read-only/writable, add blob, add manifest, Close/commit |
| Artefact-set synthesis, temporary blobs | `artefactset`, `accessio` (not in this tree; spec §4.1, 4.6, 4.7) | reference-counted temporary blobs, objects opened from them | Synthesize, Dup, Close, OpenFromBlob |
| Credentials context | `src/pkg/contexts/credentials/core/context.go` | consumer table, configuration updater | `Update`, `Get/SetCredentialsForConsumer`, `RepositoryForSpec/ForConfig`, `CredentialsForSpec/ForConfig`, `SetAlias` |
| OCI context | `src/pkg/contexts/oci/core/context.go` | the attribute store it shares, its credentials context | `newContext`, `RepositoryForSpec/ForConfig` |
| Empty repository type | `src/pkg/contexts/oci/repositories/empty/type.go` | the attribute `ATTR_REPOS`, the types registered at init | `init`, `Repository` (also through the OCI `RepositoryForConfig`) |
| Signing attribute | `src/pkg/contexts/ocm/attrs/signingattr/attr.go` | the attribute `ATTR_KEY` | `Get`, `Set`, `Decode` |
| Helm input handler | `src/cmds/.../inputs/handlers/helm/handler.go` | none (per call) | `Validate`, `GetBlob` |
| Identity argument parsing | `src/cmds/ocm/commands/ocmcmds/common/utils.go` | loop state | `ConsumeIdentities`, `MapArgsToIdentityPattern` |
| Regex combinators | `src/pkg/regex/regex.go` | none (pure text builders) | `Literal`, `Sequence`, `Optional`, `Repeated`, `Group`, `Or`, `Capture`, `Anchored`, the atoms `Alpha`, `AlphaNumeric`, `Identifier` |
| Describe command and output options | `src/cmds/ocm/commands/ocicmds/artefacts/describe/cmd.go`, `src/cmds/ocm/pkg/output/options.go` | the command's options (with the describe `Options` and `--layerfiles`), its session, the usage text, what it prints | `Options.AddFlags`, `Command.AddFlags`, `Command.Complete`, `Command.Run`, `Options.Complete`, `From`, `mapInfo`, the `outputs` |
| OCM reference grammar | `src/pkg/contexts/ocm/grammar/grammar.go` | none (regexp texts) | the composed regexps and the submatches Go's `FindStringSubmatch` returns for them |
| Credentials cpi | `src/pkg/contexts/credentials/cpi/interface.go` | the shared repository type scheme | `RegisterRepositoryType` |
| CLI verbs | see §6 | — | — |

How the parts interact:
- The CTF `Open`/`Create` look up a format in the registry and delegate to
  the accessobj codec. `OpenFromBlob` feeds a synthesized artefact-set blob
  into `Open` as a reader.
- The helm handler's `GetBlob` produces such a synthesized temporary blob.
- The credentials context shares its attribute store with its configuration
  context. The OCI context shares the store of the attributes context it is
  given, or else the credentials context's. The Empty repository and the
  signing registry live in that store, so they are seen by every context
  that shares it.
- Configuration objects reach the credentials context through its updater.
  Every public call runs `Update` first.

## 2. Modules

`CTFStore` is an abstract specification. `OCMGrammar` is a library of
operators over `Regex`. Every other module models code.

Every module has a type invariant `TypeOK`, `Init`, one action per operation,
`Next` and `Spec`. An `MC_*` module or cfg supplies model values and bounds.

### CTFRepository (+ MC_CTFRepository)

One path on disk and the object a caller holds.
- Variables:
  - `disk`: whether the path exists, its format, its index file and its blob files.
  - `obj`: the open object.
  - `tmp`: the temporary archive an archive codec writes at Close.
  - `result`.
  - `lastCommit`: a history variable.
- Actions:
  - `OpenRepo` is `ctf.Open`: HandleAccessMode, then the format lookup ("Unknown"), then create or open.
  - `CreateRepo` is `ctf.Create`, with the directory format as default.
  - `CodecOpen` and `CodecCreate` are `formatHandler.Open/Create` together with the accessobj codec.
  - `AddBlob` and `AddManifest`.
  - `Close` is a no-op when the object is clean and an integrity failure when a blob is missing. Otherwise the object enters `closing`: an archive codec has written its temporary archive, and the directory codec is about to rewrite its index file.
  - `CommitArchive` replaces the file at the path.
  - `WriteIndex` completes the directory codec's in-place index write.
  - `WriteFails` drops the temporary archive. For a directory it may leave the index file untouched or torn (`TORN`).
  - `Crash` loses the process state. During a directory's index write it may also tear the index.
- Spec §9 leaves the directory commit best-effort and not crash-safe, and
  the model says exactly that: an in-place write is a step of its own, and
  `IndexAfterFailure` is what a failure or crash leaves behind. A torn
  index makes every later `Open` fail with an I/O error. The archive
  codecs' write-then-replace leaves the old file in place.
- Data: blobs are digests. Manifests reference digests through the fixed
  constant `Refs`, and `Closure` is the set of digests reachable from a set.
- Refinement: `ImplementsCTFStore` instantiates `CTFStore` with
  `index <- disk.index, blobs <- disk.blobs` and checks its `Spec` as a
  PROPERTY.

### CTFStore

What the path promises its readers, whatever codec or failure produced it.
- Blobs, once stored, stay.
- The index is replaced only as a whole, and only by one that resolves in
  the blob store; or it becomes unreadable (`Tear`), which is the
  best-effort directory commit.
- `StoreBlob(d)` adds one blob. `Commit(I, B)` swaps in a new index together
  with the blobs it needs.
- No opens, sessions, temporary archives or formats appear.

### FormatRegistry (+ MC_FormatRegistry)

The `fileFormats` map and its `RWMutex`, with goroutines `Procs`.
- `RegisterFormat` takes two steps: `RegisterLock` and `RegisterWrite`.
- `RegisterLock` marks the writer pending, as `sync.RWMutex.Lock` does.
  `RegisterAcquire` enters once the readers have left. A pending writer
  blocks new `RLock` calls.
- `GetFormat`/`SupportedFormats` take two steps: `ReadLock` and `ReadUnlock`.
- `UnlockedLookup` is the map read of `Open` (format.go:125-128), which
  takes no lock. `Create` does the same read at 137-140.
- A read that overlaps a write is a Go data race. It is modelled as any of
  its outcomes: the runtime's fatal "concurrent map read and map write",
  "found", or "missing".

### ConsumeIdentities (+ MC_ConsumeIdentities)

- The loop of `ConsumeIdentities` runs one argument per `Step`.
- An argument is abstracted to what `strings.Index(a, "=")` makes of it.
- `Reference` states the same grammar declaratively: split at sole names,
  keys merged in order, stop token, first error wins.
- `stop` is chosen per call: the two wrappers in `utils.go` pass no stop
  arguments, other callers may pass `Stop`.
- `MapArgsToIdentityPattern` is the wrapper's step after the loop. It runs
  on a pattern-mode call without stop arguments. `RefPattern` states what
  it should return: one identity merged from all arguments, or an error.

### Regex (+ MC_Regex)

- A regexp's text is a token sequence. The combinators are text builders,
  translated one-to-one from `regex.go`. `Literal` is `QuoteMeta`: on the
  alphabet `{a, 1, +}` only `+` is quoted.
- `Ends` is a matcher for the compiled text: alternation at depth 0,
  concatenation of atoms, postfix `? + *`, the non-greedy `?`, groups,
  `^` and `$`. `Lang` is the set of strings up to `MaxLen` it matches as a
  whole. `MatchString` is Go's match-anywhere test.
- `SeqLang`, `OptLang`, `RepLang` and `OrLang` are the languages the
  combinators' comments promise.
- A client starts from the package atoms and applies up to `MaxBuilt`
  combinators to one or two held expressions. Each value carries its text
  and its promised language.

### OCMGrammar (with MC_Regex)

- The regexps of `grammar.go`, built with the `Regex` combinators. The OCI
  grammar's atoms (`DomainPortRegexp`, `RepositoryRegexp`, `TagRegexp`, ...)
  are defined outside this tree. They are CONSTANTS, given small regexps of
  the same shape in `MC_Regex`.
- `Submatches(r, w)` is Go's leftmost-first submatching, as
  `FindStringSubmatch` returns it. It is a backtracking matcher over the
  token text: greedy operators try the atom first, lazy ones try without.
  A loop over a one-character atom tries its iteration counts in one step
  (`FirstRun`), longest first when greedy, which keeps the recursion shallow.
- `GenericReference(w)` and `TypeSplit(w)` state the split the comments
  promise: type, then repository, then component and version after the
  first `//` that leaves a valid component-version.
- `Render` builds a reference from its parts.

### DescribeCommand (+ MC_DescribeCommand)

- `Complete` is `Command.Complete`:
  - it refuses a call with no reference and no `--repo`;
  - `Repository.Complete` may fail when `--repo` is given;
  - it then runs `Options.Complete`.
- `Options.Complete` sets `Output` only for a non-empty `--output`. It also
  replaces `Sort` by `Fields(Sort)`, which is the code's two loops:
  `strings.Split` at commas, then `strings.TrimSpace`, dropping empty
  pieces. The describe `Options.Complete` returns nil.
- `Run` abstracts `GetRepository` and `HandleArgs` to their errors. The
  deferred `session.Close` closes the session on every return.
- `RefFields` states the field names declaratively, from comma positions.
- `AddFlags` also sets the describe `Options.BlobFiles` from `--layerfiles`.
  `NewCommand` registers these options as the output options' `Others`, and
  cobra parses the command line into them.
- `Run` ends in `HandleArgs`, which lies outside this tree:
  - an `--output` that is no key of `outputs` fails;
  - a reference may fail;
  - otherwise the selected output prints `Outputs`, one record per artefact
    in `Objects`.
  `Objects` are the referenced artefacts, or every artefact when only
  `--repo` is given. The default output is `outInfo`. The chained outputs
  map each artefact with `mapInfo(From(options))`.
- `cmd.go` calls `o.Output.Complete(o.Context)`, but this `options.go`
  declares `Complete()` with no argument. The two files come from
  different revisions. The model composes them as if the call took no
  context, which is all the body of `Complete` could use.
- `AddFlags` is `Options.AddFlags` with its help text built by
  `OutputAddFlags`: it folds over the output modes in map order, which is
  any permutation (`SetToSeqs`), and puts `", "` before every non-empty mode
  except the first.

### ArtefactSet (+ MC_ArtefactSet)

- Actions:
  - `Synthesize` builds an index that lists only the root, with the
    main-artefact and tag annotations, plus the closure of the root.
  - `Dup` and `CloseBlob` act on the reference-counted temporary blob.
    A second Close of the same handle is a no-op.
  - `OpenFromBlob` is translated from format.go: options check, reader,
    codec chosen from the `+gzip` suffix, `acc & ACC_READONLY`, extraction.
  - `CloseSet`.
- Reuse of slots: a deleted blob's slot and a closed set's slot may be reused,
  and stand for fresh objects.
- Synthesis can start from the source repository or from a set opened from
  an earlier blob, as in the synthesis test.

### CredentialsContext (+ MC_CredentialsContext)

- Variables:
  - `config`: configuration objects added to the configuration context.
  - `applied`: how many of them the updater has applied.
  - `consumers`: the consumer table.
  - Per goroutine: `pc` and `call`.
  - `lastSet`: a history variable.
- `Update` applies the pending objects in order (`ApplyConfig`).
- `SetCredentialsForConsumer` is two steps, `SetUpdate` and `SetStore`,
  because `c.Update()` and `c.consumers.Set` are separate critical sections.
- `GetCredentialsForConsumer` runs Update, then the lookup with the
  empty-identity fallback.
- `RepositoryForSpec(p, f)` covers RepositoryForSpec/ForConfig and
  CredentialsForSpec/ForConfig, with their decode and credential-chain errors.
- `OCIRepositoryForSpec` is the OCI context's version, which does no Update.
- `RegisterRepositoryType(t)` is the cpi registration into the scheme the
  contexts hold by reference. It can change the alias repository type that
  a later `SetAlias` finds.

### HelmInput (cfg MC_HelmInput)

- A resources file of `Slots` inputs. They are validated in file order, and
  blobs are taken only when no input has an error.
- An input is abstracted to whether it sets forbidden file-info fields, and
  to what its path denotes: empty, missing, directory, regular file, or other
  file type.
- `inputs.FileInfo` returns the nil FileInfo of a failed stat. Calling a
  method on it panics.

### ContextAttributes (+ MC_ContextAttributes)

- Two attribute stores. The configuration and credentials contexts use `s1`.
  The OCI context uses `s1` or `s2`, depending on the attributes context
  given to its `newContext`. The choice is made in `Init`.
- `Repository` is the Empty type's `GetOrCreateAttribute`.
- `SigningGet/Set/Decode` are the signingattr functions.
- `EmptyTypes` are the types the `init` of package `empty` registers.
  `RepositoryForConfig(t)` is the OCI context's decoding of a spec of type
  `t`. An unregistered type is an error. A registered type gives
  `Repository` of the OCI context.

## 3. Runs

| Run | Checks | Shows |
|---|---|---|
| ctf_lifecycle | TypeOK, CommittedIndexResolves, CommitDurable, ImplementsCTFStore | Whatever happens (opens in every access mode and format, adds, integrity failures, write failures and crashes at any step), a readable index at the path resolves completely. A successful commit is never lost or reverted to an older one; a directory's interrupted index write can only tear the index, the weaker guarantee of spec §9. The path changes only as `CTFStore` allows. |
| format_registry | TypeOK | Lock ownership stays consistent with where each goroutine is, under every interleaving. This is the passing run that fires every registry action the race run relies on. |
| format_registry_race (violation) | NoConcurrentMapAccess | A RegisterFormat after init, running concurrently with Open/Create, is a concurrent map access: finding 1. |
| consume_identities | TypeOK, ConsumeMatchesReference, PatternMatchesReference | The loop agrees with the grammar on every list of up to 4 arguments, in both pattern and non-pattern mode, with and without stop arguments. MapArgsToIdentityPattern returns one identity built from all its arguments, or an error. |
| artefact_set | TypeOK, HeldBlobExists | A temporary blob's file exists while any holder still holds it, however often one handle is closed, across synthesis, open, release and re-synthesis from an opened set. |
| credentials_context | TypeOK, SetNotOverriddenByOlderConfig | Configuration added before an explicit Set never overrides it, under any interleaving of two goroutines and configuration arrivals. |
| helm_input | TypeOK, AcceptedInputIsChart | Only existing directories or regular files without file-info fields reach GetBlob. |
| helm_input_panic (violation) | ValidateNeverPanics | Validate panics on a missing path: finding 2. |
| context_attributes | TypeOK, SigningGetNeverPanics | signingattr.Get never fails its type assertion, whatever was stored through any context sharing the store. |
| regex_combinators | TypeOK, CombinatorsDenote, AnchoredMatchesWhole, GenericReferenceSplit, ReferenceCapturesAsDocumented | Every text built from the package atoms, up to two combinators deep, compiles. It denotes what its combinator's comment promises. Anchored makes MatchString a whole-string test for it. The generic reference regexp splits at the first `//` that leaves a valid component-version, and the reference regexps return their documented submatches. |
| regex_identifier (violation) | IdentifierAsDocumented | `Identifier` is not the language its comment names: finding 3. |
| describe_command | TypeOK, SortFieldsAsGiven, UsageListsOutputModes | The completed sort fields are exactly the trimmed, non-empty comma-separated names of all `--sort` values, in order. The output mode is set only when one was given. The `--output` help lists every non-empty mode once, separated by commas, in any map order. |

Each property of a passing run has a mutant in PROJECT.json: a plausible bug
in the definition it depends on. TLC finds the property violated under that
mutant. Examples:
- Close without its integrity check.
- Create over an existing path.
- The rest of the arguments starting at the stop token.
- A handle that can be closed twice.
- Set without the preceding Update.
- Validate without the mode test.
- Set without the wrap.
- A Sequence that joins its arguments in reverse order.
- Anchored without the `$`.
- A capture group left unclosed.
- MapArgsToIdentityPattern returning the first of several identities.
- TrimSpace trimming only the left side.
- The output pointer set for an empty `--output`.
- A resolution check that follows no references (refinement).
- A greedy path in the generic reference regexp.
- A sub-path capture that includes its separator.
- A help-text fold that puts the separator before the first mode.

### Findings

1. **Registry race** (`format.go:125`, and `:137`): Open and Create index
   `fileFormats` without the lock that guards `RegisterFormat`. This is safe
   only while every registration happens in package init. `RegisterFormat`
   is exported.
2. **Helm Validate nil dereference** (`helm/handler.go:42`): after
   `inputs.FileInfo` fails, the mode test still calls `inputInfo.IsDir()`.
3. **Identifier differs from its comment** (`regex.go:31`): the comment
   says "an AlphaNumeric regexp starting with an Alpha regexp". The text is
   `[A-Za-z]+[A-Za-z0-9](?:\+[A-Za-z]+)?`. It refuses a single letter and
   `a11`, and accepts `+` followed by letters.

The model also shows that `Sequence` (`regex.go:54`) does not do what its
comment says for an argument that is a bare alternation. It concatenates
texts without grouping, so `Sequence(Match("a|1"), Match("a"))` matches `a`
and `1a`. `Anchored` has the same flaw: it anchors only the outer
alternatives. No caller in this tree passes such an argument, and the
combinators' own results are always grouped. It is therefore listed as a
hazard, and `regex_combinators` checks the case that occurs.

## 4. Bounds and why they suffice

- **CTF:** 4 digests (two manifests sharing a config blob, one layer); the
  formats directory, tar and tgz plus an unknown one; every access mode.
  - This covers a missing blob at Close, a format mismatch on open, create
    over an existing path, an archive replace interrupted by a write
    failure or a crash, and a directory index write torn by either.
- **Registry:** 3 goroutines, 3 init formats and 1 late format.
  - One writer and one reader are the smallest case that can overlap.
  - The third goroutine lets two readers hold the read lock while a writer
    waits, and an unlocked lookup run beside them.
- **ConsumeIdentities:** up to 4 arguments over 2 names, a stop token, the
  keys `""`, `a` and `name`, and one value.
  - This reaches every error, the stop token in every position, and the key
    `name` overriding the sole name.
- **ArtefactSet:** 2 tags over 2 manifests sharing a blob, 2 blobs, 2 holders
  and 2 sets.
  - The 2 blobs and 2 sets give synthesize → open → release → synthesize
    from the set → open again.
  - The 2 holders let one holder close twice while the other still holds.
- **Credentials:** 2 goroutines, an identity plus the empty identity, 2
  credentials and 2 configuration objects.
  - A configuration object can arrive before a Set and another between the
    Update and the store of a Set.
  - Symmetry over the goroutines is sound, because no action or property
    names one.
- **Helm:** 2 inputs with every path kind and flag, so one input's error or
  panic can stop the other.
- **Regex:** strings of up to 3 characters over a letter, a digit and `+`
  (40 strings), and clients of up to 2 combinator applications over the 4
  package atoms.
  - This gives every combinator over every atom, and every combinator over
    a combinator result, e.g. `Optional(Or(...))`.
  - Identifier's divergence already shows at length 1.
- **Describe:** up to 2 `--sort` values of up to 3 characters over 2
  letters, a blank and a comma.
  - This covers leading, trailing and doubled commas, blank-only pieces,
    blanks inside and around a name, and two names in one value.
- **Attributes:** 2 stores, 4 contexts and 1 configurable key, with room for
  a second repository instance in a store so that the mutant can show one.
  The decoded types are `Empty`, `Empty/v1` and one unregistered type.
- **Grammar:** paths of up to 3 characters over `a`, `1`, `/` and `:`, with
  2 type prefixes and 4 suffixes (none, `//a/a`, `//a/1:1`, `//a`). This
  covers a `//` inside the path that does or does not start a valid
  component-version. The reference parts sets give every optional part
  present and absent, and components of one and two segments.
- **Describe output:** 2 artefacts, with no reference, or a reference to
  one of them. The `--output` values are `""`, `yaml` and one value that
  is no mode. `--layerfiles` is on or off. Symmetry over the artefacts is
  sound, because no action or property names one.
- **Output modes:** `""`, `yaml` and `json`. The empty default mode is the
  case that the separator logic must skip, in every position.

`MaxConfig` in CredentialsContext and `MaxRepos` in ContextAttributes are the
named bounds on counters.
- `HelmInput` sets `CHECK_DEADLOCK FALSE`, because the command really ends
  once every input is handled or rejected.
- `ConsumeIdentities` and `DescribeCommand` set it for the same reason: the
  parser or command returns.
- The regex client sets it too: it stops after `MaxBuilt` combinators.
- `FormatRegistry` sets it as well: a goroutine that the runtime's
  concurrent-map check killed takes no further step, and once every
  goroutine has, the process has ended.

## 5. Fairness

No run checks a liveness property, so every cfg uses `Spec` without
fairness.
- The one candidate in this tree was that a `RegisterFormat` waiting in
  `lock.Lock()` is not starved by readers. That is a property of Go's
  `sync.RWMutex`, which format.go only calls, so it says nothing about this
  code.
- An archive commit that eventually closes or reports an error would hold
  whatever Close does, because `WriteFails` is always enabled while
  closing.

## 6. What is not modelled, and why

- **OCI grammar regexps:** defined outside this tree. The model takes them
  as parameters with small values of the same shape.
- **Empty spec accessors:** `NewRepositorySpec`, `GetType`, `Name` and
  `UniformRepositorySpec` return constants.
- **Describe output chain:** `processing.Chain` (with its `Parallel(4)`),
  `PrintArtefact`, `GetArtefactInfo` and `HandleArgs` are outside this tree.
  An artefact's printed text or Info is a record of its reference and of
  whether layer files are listed.
- **CLI verbs:** cobra wiring.
- **Credentials cpi and gardenerconfig credentials:** type aliases,
  constructors and error builders. The exception is
  `RegisterRepositoryType`, which is modelled.
  `RegisterStandardIdentityMatcher` is left out, as the identity matchers are.
- **`cpi`/`oci` interface packages and the OCI context's accessors:** they
  are aliases and delegation, with no state of their own.
- **Identity matchers, repository-type decoding, Update errors.**
- **The `acc & ACC_READONLY` of OpenFromBlob for writable callers:** what
  Close does for a writable object without a path lies outside this tree.

### Hazards without a property

Each of these depends on code outside this tree, or on behaviour that
nothing in the repository specifies:
- **`format.go:117`:** what Close does with a writable object that has no
  path.
- **Credentials `context.go:129`:** the configuration updater's errors.
- **Credentials `context.go:186`:** a Set racing newer configuration.
  Neither the code nor its documentation says which of the two wins.
- **OCI `context.go:109`:** whether a credentials source triggers an Update.
- **`attr.go:78`:** whether `signing.NewRegistry` copies the default key
  registry.
- **`regex.go:54`:** a bare alternation passed to `Sequence`. No caller in
  this tree passes one, so the combinator run's inputs are the package
  atoms and combinator results, which are always grouped.

Stating any of them would mean inventing that behaviour. Each hazard in
PROJECT.json has a note saying which of these it is.

## 7. Plan

Module order, most important behaviour first:
1. CTFRepository: commit atomicity and durability. Done.
2. FormatRegistry: lock discipline and the race. Done.
3. ArtefactSet: synthesis round trip and temporary-blob lifetime. Done.
4. CredentialsContext: Update/Set ordering under interleaving. Done.
5. ContextAttributes: shared stores. Done.
6. HelmInput. Done.
7. ConsumeIdentities and MapArgsToIdentityPattern. Done.
8. Regex combinators. Done.
9. Describe command and output options. Done.

10. CTFStore and the refinement of CTFRepository. Done.
11. Liveness of RegisterFormat under the RWMutex. Dropped: it checked `sync.RWMutex`, not format.go.
12. The OCM reference grammar and its submatches. Done.
13. The describe output pipeline and `--layerfiles`; the cpi type registration. Done.
14. The registry with three goroutines, so that overlapping readers meet a waiting writer. Done.
15. The directory commit as a best-effort in-place write that a failure or crash can tear (spec §9). Properties that only restated a model's own definitions were removed. Done.

Later work:
- Decode errors of the signing attribute and the identity matchers of the
  credentials context.
