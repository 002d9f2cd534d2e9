# A verification project for nazgul

nazgul is a Rust library of linkable ring signatures over Ristretto: the
recommended bLSAG scheme in several forms (one call, precomputed, streamed
through a constant-memory device, carried with its ring as a *contextual*
signature), and the older SAG, MLSAG and CLSAG. A signature shows that the
holder of one key of a public list (the ring) signed a message; its *key image*
links two signatures by one key.

Here the group and the hash functions are parameters, and everything around
them (who hands which member to whom and when, which index, which hash of which
ring, what an error leaves behind) is modelled. Source paths below are relative
to the crate (`src/` of the repository).

## Inventory

| Component (source) | State | Operations | Interacts with | Hard behaviour | What makes it correct |
|---|---|---|---|---|---|
| Streaming signer (`blsag/streaming.rs` 148-614) | phase; three optional sub-states (validating, validated, signing): running hash, XOR accumulator, current challenge, c_0, nonce, key | `init_validation`, `validate_member`, `init_signing`, `sign_member` | a host that streams the ring twice, in any way it likes | protocol driven by someone else; calls repeated, out of order, failing half way; two passes that may differ; wrap-around indices; c_0 captured in one of two places | one ring, one signature, by a member of the ring, that verifies; never two responses under one nonce |
| Streaming verifier (`blsag/streaming.rs` 616-760) | phase, length, c_0, current challenge, count | `init`, `verify_member` | a host that streams signature and ring | failing calls in between; verdict at a count | the verdict is that of `verify`, given once |
| Streaming wrappers (`blsag/streaming_wrappers.rs`) | locals of one call | `sign_streaming_with_rng`, `verify_streaming` | drive one signer or verifier; accept rings in both representations | errors of either pass; responses come in signing order and go in ring order; zips of unequal lists | terminate with the right outcome; same function as the one-shot methods |
| Ring, PreparedRing (`ring.rs` 1-512) | sorted encodings and, in Full representation, the points | `new`, `from_compressed`, `decompress`, `add_public_key`, `remove_public_key`, serde, `canonical_hash`, `precompute`, `is_valid_for`, `verify` | every signer and verifier reads it; PreparedRing outlives the ring it came from | two parallel lists; duplicates; data that is stale or damaged | holds the keys put in, sorted, both lists alike |
| One-shot bLSAG (`blsag/sign.rs`, `verify.rs`, `engine.rs`, `precompute.rs`) | none between calls but the `SigningPrecomputation` | `sign_with_rng`, `precompute_signing`, `sign_precomputed`, `verify`, both with progress callbacks, `generate_fake`, `link` | Ring, PreparedRing, Keys | a precomputation used over a ring that changed since; ring of one; signer last; chunks of turns that do not divide the turns | what it outputs verifies over the ring it was asked about; signatures by one secret link; the progress reported reaches the total |
| Contextual signatures (`blsag/contextual.rs`, `RingContext` in `ring.rs`) | signature, message, ring or its hashes | `sign_compact`, `sign_archival`, `generate_fake_*`, `from_parts`, `verify`, serde | Ring, BLSAG | two hashes of a compact context; a ring that comes back compressed | verify accepts exactly with the ring signed over |
| SAG, MLSAG, CLSAG (`sag.rs`, `mlsag.rs`, `clsag.rs`) | none between calls | `sign`, `verify`, `link` | traits | signing loop from the signer around, with a special case at index 0; rows of unequal length | complete for a ring with a decoy; linking |
| Keys (`keypair.rs`, `scalar.rs`) | a key pair whose secret is optional, a bare scalar, a bare point | generate, derive a child, convert, export and import as bytes | the signing holder's secret and the public keys others put in rings | three implementations of one derivation, mixed along a path by holders with and without the secret | the same path leads to the same public key; a secret stays with its public key |
| Cost model (`pow.rs`, `bin/time_model.rs`) | coefficients | `train`, `predict_cost` | | integer width | |
| Curve and hash libraries (external) | | | everything | | group laws |
| WebAssembly bindings (`wasm.rs`), Blake3 adapter, strategy, errors, traits | | conversions | | | |

`PROJECT.json` lists the hazards of this code line by line with the properties
that cover each.

## Plan

1. **Streaming signer and verifier** (done): the only parts with a protocol,
   run against a host one does not control. Abstract specification:
   `SigningSession`. Theorems: inductive invariant, ring agreement, membership,
   poisoning only for cause, the round trip, one response per member, equality
   with one-shot signing, refinement; finality of the verifier and its agreement
   with `verify`.
2. **Ring, one-shot signing, streaming wrappers** (done): the sort, the ring's
   contents under every operation, tickets, the round trip of one-shot signing,
   and the calls of both wrappers, with theorems for each.
3. **Contextual signatures** (done): compact and archival contexts, both hashes,
   the trip through storage, with theorems for each property.
4. **SAG, MLSAG, CLSAG** (done): one step machine for the signing loop with its
   case at index 0, and linking; theorems on the loop, on verification and on
   linking for all three schemes.
5. **Keys and calls** (done): key derivation in its three forms, the signing and
   verifying loops turn by turn with their progress callbacks (abstract
   specification: `ProgressMeter`), fakes, linking, and the composition of all of
   them in `Wallet`; theorems for each property but the liveness.
6. **The cost model** (open): `predict_cost` as integer arithmetic.

## Modules

| Module | What it is |
|---|---|
| `Curve` | scalars, points and hashes as constants, with the laws assumed of them |
| `Blsag` | the scheme as pure definitions: challenge of a member, one-shot signing (`CloseRing`, `SignWith`), one-shot verification (`Verify`), and what verification decides without walking (`Closes`) |
| `StreamingSigner` | `StreamingBlsagSigner`; every method is an action, every early return a disjunct |
| `SigningSession` | abstract: a device settles once on a ring the host named and issues at most one signature for it, by one of its members |
| `StreamingSignerInv`, `StreamingSignerProofs` | the inductive invariant, and the theorems |
| `BlsagProofs` | what the recursive definitions of `Blsag` compute for every ring length, and the one-shot round trip |
| `StreamingVerifier` | `StreamingBlsagVerifier` and its inductive invariant |
| `SignStreaming`, `VerifyStreaming` | one call of each wrapper. They extend the signer's or the verifier's module and add the call's locals: each method call is one step of both (`CallNext`, `CallSpec`) |
| `StreamingVerifierProofs` | the theorems on the verifier, alone and driven by `verify_streaming`; `StreamingSignerProofs` has the same for the signer |
| `RingData`, `RingDataProofs` | a ring as a value: its two representations, its order, its hashes; that the sort sorts |
| `Ring` | the ring's operations and PreparedRing |
| `RingSigning`, `RingSigningProofs` | one-shot and precomputed signing, interleaved with the ring's operations; the theorems on both |
| `Contextual`, `ContextualProofs` | `ContextualBLSAG`: signing in both modes under a chosen digest suite, loading, rebuilding from parts as actions; `verify` and the view on the context as operators; one `INSTANCE` of `Blsag` per suite; the theorems |
| `SuiteBlsag` | `Blsag` under one of several digest suites: the suite is a parameter of both hashes |
| `LegacySigning`, `LegacySigningProofs` | SAG, MLSAG and CLSAG: one machine whose steps are the calls' insertion of the signer, the first hash, each turn of the loop, and the closing response; `verify` and `link` as operators. The schemes differ in the points a member contributes. The theorems |
| `ProgressCalls` | `sign_with_rng_and_progress` and `verify_with_progress`: the checks at the start, each turn of the loop, and the return are steps |
| `ProgressMeter` | abstract: what a progress display is promised of the callback |
| `Keys` | the three key types and their operations, for several holders |
| `Wallet`, `WalletProofs` | `Keys` and `ProgressCalls` composed: who signs with which derived secret over a ring with whose public key; the theorems on keys, calls and the whole |
| `MCCurve`, `MC*` | the small group and the values of the constants for TLC |

### How state and actions correspond

* A **call** is one action, except in the modules about a loop (`LegacySigning`,
  `ProgressCalls`, the wrappers), where a turn is. The crate has no threads and
  no await; a call of a method is atomic for its caller, and interleaving is the
  order of calls. What the method returned is `result` (in `ProgressCalls`
  `outcome` and `signature`). All methods may be called in all phases, with
  all arguments of a run's bounds, so `Next` is the caller at its most liberal.
* A field `Option<X>` is `Nil` or a record; `take()` followed by putting back
  on an error path leaves it unchanged (`Fails`).
* Variables under "history" record what the caller has handed over and
  received: the ring, the responses, the challenges. No guard reads them.
* A **point and its canonical encoding** are one value. `Malformed` stands for
  an encoding that does not decompress.
* **Digests are collision free**: the hash of a ring is the record of the suite
  and the members, so two suites never agree. In the `RingBinding` the XOR of
  the digests of (index, member) pairs is their symmetric difference. This is
  the ideal the XOR accumulator stands for; that XOR of many hashes can be
  solved for by linear algebra when an adversary chooses very many members is
  outside the model. The challenge hash is *not* assumed injective.
* A **key** is a record of its type, its secret and its public part, of which a
  type or a history may lack one (`Absent`). Bytes sent from one holder to
  another arrive as the key they encode or are refused; the base58 forms are
  the same bytes in other digits. `WasmKeyPair` wraps a `KeyPair` and adds no
  step of its own.
* The **callback** is not given control; what it was last told is `done`. A
  signing call reports out of the `n - 1` turns of its loop (the signer's own
  member takes none), a verifying call out of `n`.
* A Compressed ring has `points = Nil`. A ring's order is that of `Bytes`, the
  rank of an encoding; nothing else about bytes matters.
* Random values (nonce, decoy responses) are an existential choice from a
  constant set.

## Runs

| Run | Question | Answer |
|---|---|---|
| `streaming_signer` | Can any order of calls, with failing and repeated ones, get the signer to sign for two rings, for a ring it is not in, twice under one nonce, or wrongly? Can a pass over the right ring fail? | No; it is poisoned only by a pass that differs from the validated ring; and what it outputs equals the one-shot signature with the same randomness, and implements `SigningSession` |
| `streaming_switch` | Is a switched ring caught before *any* component comes out, as the module says? | No: decoy responses come out first (finding) |
| `streaming_verifier` | Is the verdict that of `verify` on what was submitted, final, at the right count? | Yes |
| `ring_signing` | Does signing stay right while the ring is changed, reloaded, and prepared data is stale or damaged? | Yes: either refused or it verifies, unless a wrong point was read. `is_valid_for` lets wrong points pass and `PreparedRing::verify` does not; `sign_with_rng` reads all but the signer's own, `precompute_signing` that one only |
| `sign_streaming` | Does the wrapper return, with the documented error or a signature that verifies? | Yes |
| `sign_equivalence` | Is it equivalent to `sign_with_rng`? | Not over a Compressed ring (finding) |
| `verify_streaming` | Does the wrapper return the one-shot verdict? | Yes, over a ring that is not empty |
| `verify_equivalence` | Also over an empty one? | No (finding) |
| `contextual` | However a contextual signature is stored, rebuilt and verified, is it verified over exactly one ring that everything known of it fits, prepared data included, lost or damaged as that may be? Do the two modes agree, and does the context show the right hashes? | Yes |
| `legacy_signing` | Does the signing loop turn once around the ring for every position of the signer, and do the signatures verify and link by their keys? | Yes, with a decoy and without repeated keys; but `verify` panics on a signature made at index 0 with more keys than columns |
| `wallet` | Do holders who derive keys with and without the secret arrive at the same keys, sign over rings made of them, and get signatures that verify and link? Do the calls with progress callbacks do what those without do, and does the progress reported move in steps of a tenth up to the total? | Yes |
| `legacy_linking` | Does MLSAG's `link` tell whether two signatures are by the same person, whatever their keys? | No: one with a key twice is linked with all (finding) |

### Bounds, and why they are enough

Rings have at most three members. Every case split on the length in the code is
about the first, the last, the signer's own index or the one after it; with one
member these coincide, with two they touch, with three they are apart and the
wrap-around of `(pi + 1 + step) mod n` occurs at every offset. Two or three
distinct keys give rings with and without duplicates, with and without the
signer. Announced hashes include the right ones for some rings, both orders of a
pair, and one of another suite. The group is the integers modulo 5 with mixing
functions for the hashes, small enough that hashes collide: no property of a run
needs them not to. Since a small group can also satisfy an equation by accident,
no run claims that a *wrong* signature fails; `VerdictIsVerify` compares the
verdict with the standard verification instead, and the mutants listed in
`PROJECT.json` show that each property can fail.

Prepared data is the preparation of any ring of the bounds or, where a check
could let it through (`LoadedPreparations`, `PreparedData`), the same with its
points lost or with the points at any set of indices wrong: every choice of the
indices matters, as the callers of one ring read different ones.

Contextual signatures are checked with rings of up to two members in both
representations, malformed members included, and two suites with different hash
functions: what `verify` compares are whole hashes and whole rings, and two
members suffice for rings that agree in length and differ in one. Rebuilding
takes any context and any selected hash of a ring somebody could sign over. One
secret key signs, since no property is about two signatures.

The older schemes have up to two decoys, so that the signer is first, in the
middle or last, and up to two keys in a row. The points of decoys include the
signer's own and one nobody signs with. A call may bring a key less than there
are columns, which panics, or one more, which makes the signer's row longer than
the others. The two secret keys have different key
images in the small group, as any two have but with negligible probability in
the real one; `LinkedByKey` rests on that.

In `wallet` two holders derive by up to two steps with two kinds of data, so that
every step is made with and without the secret and on a bare scalar, before and
after a conversion and an import. The rings have one, two, three and 22 members:
with 22 the callback's chunk is two, with 21 turns for the signer, which leaves
one over for the last report, and 22 for the verifier. The decoys include keys
that holders derive. The hash functions are tables under which the key images of
the five scalars are distinct, as any two are but with negligible probability in
the real group; `LinkedBySecret` rests on that. The basepoint is 2, so that a
scalar is not its own public key.

`CHECK_DEADLOCK FALSE` is set for the wrappers and the older schemes, which
stop when they return. The other systems always accept another call.

### Fairness

`SignStreaming` assumes weak fairness of its next step (`CallSpec`), and `Wallet` of the
steps within a call, since a synchronous call goes on until it returns. `Returns`
and the liveness of `ImplementsMeter` (every call that begins reports its total
and returns) rest on it. The signer and the verifier have none: a host may stop
calling at any time, and nobody has to begin a call.

## Theorems

All are for every value of the constants that satisfies the assumptions named
in the modules, and TLC evaluates the same assumptions in the runs. They are of
four kinds:

* types: `CurveTypes`, `HashTypes`, and the `...Constants` of each module
  (operations stay in their sets, the values of callers are of their types);
* group laws: `Distributivity` and `Associativity` (the two that close a ring),
  `Additivity` (child keys), `Addition` (CLSAG's sums), `SuitesOverOneCurve` (the
  suites hash differently over one group);
* `Nil` is none of the values it stands beside: `NilIsNone`, `NilIsNoLocal`. Also
  `CallerHashes`: the hashes callers may announce include those of their rings;
* `KeyImagesDiffer`: two secret keys have two key images. Only the theorems on
  linking use it, and without it they are false.

No theorem assumes that the challenge hash is injective. Most bounds of the
runs (`MaxRing`, `MaxDecoys`, `MaxKeys`, ...) are arbitrary naturals in the theorems.

**Signer.** `IInv` says more than each property, since none of them speaks of
the middle of a pass:

* `FirstPassInv`: the accumulator holds one pair for each member absorbed, so
  after the pass it is the binding of the accepted ring.
* `DeliveredInv`: during the second pass the accumulator is the binding of what
  was delivered over the indices `Answered`, the interval after the signer's
  index, wrapped. At the last step the interval is everything but the signer,
  and equal bindings give equal rings: `RingAgreement`. The converse is
  `PoisonedRightly`: when the members delivered are the accepted ones and the
  signer's own slot holds its key, the accumulator comes out equal in spite of
  the other order, so a signer is poisoned only for a difference
  (`OwnSlotPoisons`).
* `ChainInv`: the challenges computed satisfy the equation of every answered
  member and connect the nonce's challenge with the current one; c_0 is the
  challenge at index 0 from the moment the last member is passed. The last
  response then satisfies the signer's own equation by `ClosingLaw`
  ((a - c·k)·B + c·(k·B) = a·B), the only place the group laws are used.
* `SignatureInv` keeps this afterwards, with `Membership`.

* `UnansweredInv`: a member outside `Answered` has no response yet, so the step
  that answers one never overwrites: `OneResponse` (the action property
  `NoSecondResponse`).

`Refinement`: a step maps to `Settle` (the last member of the first pass with
the right hash), to `Issue` (the signer's own slot), or to a stutter.

`RoundTrip` and `SameAsOneShot` carry this over to the code's own loops with the
lemmas of `BlsagProofs`.

**Verifier.** `IInv` says that the challenges recorded follow the equations
(`ChainInv`) and that any vector that does leads to the current challenge
(`UniqueInv`); the second half says that no other vector closes the ring when
the verdict is false (`DecidedIsClosed`). `Agreement` with the standard
verification follows by `VerifyIsCloses`. `Finality` is the action property.

**One-shot signing and verification.** `Verify` and `CloseRing` are loops, written as
recursive functions. `BlsagProofs` says what they compute for a ring of any
length. A set of naturals with 0 and the successor of each member has all of
them (`SetInduction`, from the library's theorem that `<` is well founded); by
it a walk exists (`WalkExists`), is unique (`WalkUnique`), and is the function the
recursion chooses (`VerifyWithWalk`, `CloseRingIs`). From these follow
`VerifyIsCloses` (the walk succeeds exactly if every member's equation holds
around the ring) and `OneShotRoundTrip` (what signing makes verifies, for every
length, every index of the signer, every nonce and responses). The latter is a
case of `PreparedRoundTrip`: it is enough that the points are right beside the
signer (`RightBeside`), whose own is not read while the ring is closed. `Agreement` of
the streaming verifier and `RoundTrip` of the signer are corollaries.

**Sorting.** `SortByBytes` is an insertion sort written as a recursive function.
`RingDataProofs` describes the bag of a list by what inserting a member and
taking one out do to it (`BagOfInsert`), and shows for a list of any length that
the result is in order and has the members given, each as often (`SortSorts`).
Sorting a sorted list changes nothing (`SortedStays`).

**Tickets.** `BoundInv` adds to `TicketBoundToRing` that the two lists of a ring
agree when both are there and that a ticket's hash is of the members it was made
for; a ticket accepted by its hash is then used over those members:
`TicketBinding`.

**Ring and one-shot signing.** `RingInv` says that the encodings are a sorted
list with the bag of keys put in and not removed, and that the points, when they
are there, are the same list: `RingKept`. With it a ticket is typed
(`TicketTyped`) and what is prepared for signing closes over the ring it was
prepared for (`TicketSigns`), from which `OneShotVerified` follows for whatever
happened to the ring in between. `PreparedPoints` says where the points read are
right: everywhere in trusted data, and in other data where `TrustedAt` says so,
which by `PreparedRoundTrip` is all that each of the calls needs.

**Wrappers.** `CallInv` of `StreamingSignerProofs` is the signer's `IInv` and
where the signer is when the call is at each of its statements: how many members
it has seen, which of the responses of `out` are the signer's. `CallInvariance`
then has `OutcomeIsRight` as a part (no protocol error can come up, since every
method is called in its phase), and `OutputVerified` follows from the signer's
`SignatureVerifies`. For `verify_streaming`, `CallInv` is the verifier's
invariant and how far the walk is; at the last step the verdict is that of
`Verify` by `Agreement`: `CallVerdict`.

**Contextual signatures.** `IInv` is `TypeOK`, `Provenance` (until somebody
rebuilds it from parts, a context is of the members signed over, and the
selected hash is lost only with data that lacks it) and `SuiteSigned`. A theorem
of an `INSTANCE` with a parameter cannot be cited, so the suite of the signature
is a constant `Suite` of which nothing is assumed but that it is one of them:
`StoredVerified` says of every signing under that suite what `StoredVerifies`
says of all. `OneRing`, `Modes` and `View` are about all suites. Prepared data
of any provenance is in their statements: what `precompute` gives stands for the
points computed in place (`PreparedIs`), anything else decides by its points.

**Older schemes.** `LegacyInv` says at each turn of the loop that the hash of an
index holds exactly the points that belong to it once the turns have reached it
and nothing before, and that its challenge is the hash of them (`Chain`).
`HashesFedOnce` follows with the case at index 0. At the end the closing
response makes the signer contribute the points committed to at the start:
column by column in SAG and MLSAG (`SignerColumns`), in CLSAG for the sums over
the columns, where the sum of the public keys is the public key of the sum of
the secrets by an induction over the columns (`SumLaw`). The walk of
verification then has the challenges of the loop at every index:
`SignaturesVerify`. The panic of verify on a longer first row is in its
statement. `LinksByKey`: among the images of two signatures without repeated keys,
two are equal exactly when the signatures share a key. It rests on `KeyImagesDiffer`.

**Keys, calls and their composition.** `KeysInv` says that every key comes with
the points along its path of derivation, starting at the public key of the root,
whichever halves were there at each step: `PairsMatch`, `OneKeyPerPath`.
`CallsInv` says of a call in progress that its challenge is the one the closed
form of the loop has at the turn (`SigningInv`, `VerifyingInv`), so that the
calls with a callback do what those without do: `ProgressSignsAlike`,
`ProgressVerdict`. Its part `MeterInv` says that what was last reported is the
last multiple of the chunk, or the total. `MeterMoves` is the safety part of
`ImplementsMeter`: it maps each step to a step of the abstract meter or a
stutter. `PartiesInv` says that a signer is refused only over a ring made for a
key that came by another path: `DerivedKeysSign`. `LinkedExactly` adds
`KeyImagesDiffer`.

**Model-checked only:** `Returns` and the liveness of `ImplementsMeter`, since
liveness under fairness is out of the prover's reach. Every other property of
the passing runs is stated by a theorem; `StoredVerifies` for one suite at a
time, as said above.

## Findings

* `streaming.rs` 19-21 says a switched ring is caught before the signer produces
  any signature component; the comparison is in the last step (515), after the
  responses of all other members (587). The closing response is withheld, so no
  signature comes out.
* `streaming_wrappers.rs` 36-37 calls `sign_streaming_with_rng` equivalent to
  `sign_with_rng`; over a Compressed ring the first signs and the second returns
  `CompressedRing`.
* `streaming_wrappers.rs` 142-143 calls `verify_streaming` equivalent to
  `verify`; over an empty ring with no responses the first returns false and the
  second true.

* `mlsag.rs` 243 says of `link` that it checks whether two signatures are signed
  by the same person; the code (261) looks for equal neighbours among the images
  of both together, so a signature that holds one key twice is linked with every
  other one.

## Remarks on the documentation

Two sentences of the documentation are loose without contradicting a run:
`sign.rs` 401 says the callback gets `(completed_members, total_members)`, and
the total is one less than the ring's length when signing (never called for a
ring of one); `mod.rs` 143-144 says a fake signature is cryptographically invalid,
and over the empty ring, which has no equation to satisfy, `verify` accepts it.

## Not modelled

* `VerificationCostModel` (`pow.rs`, `bin/time_model.rs`): benchmarks, and
  floating-point steps on measured times. Two hazards of its integer arithmetic
  are listed without a property.
* The Blake3 adapter, execution strategy, error and trait definitions: no
  protocol or state. Of the WebAssembly bindings, the conversions between
  JavaScript values and bytes.
* Rows of decoys of unequal length in MLSAG and CLSAG calls (only the signer's
  row may differ).
* A callback that unwinds. Zeroization of secrets, timing and the quality of
  randomness are not expressible here.
