# A TLA+ model of nats-jwt-cpp

nats-jwt-cpp mints, reads and judges the JSON web tokens of NATS: signed claims
about operators, accounts, users, activations and auth callouts.  This directory
models the parts of it where order, failure, foreign code or time decide whether
the result is right, checks them with TLC on small instances, and proves the most
important properties with TLAPS for every value of the constants.

Paths are relative to the repository: `src/...` here is the repository itself, so
the implementation files are `src/src/*.cpp` and `src/include/jwt/*.hpp`.

## 1. The system

The library is a set of value-like claims objects and free functions.  It has no
threads, no locks and no storage of its own; what is hard about it comes from its
callers: they run several threads, keep objects and encode them again, plug in
signers (HSM, KMS) that are arbitrary code, hold tokens that were passed through
other hands, and ask for judgements while the clock runs.

| Component | State | Operations | Interacts with |
|---|---|---|---|
| Encoding (`encode`, `encodeWithSigner` of seven claim types; `signAndAssemble`) | the claims object: subject, issuer, iat, body. Encoding *writes* issuer and iat although it is `const` | stamp issuer, stamp time, validate, serialise, call the signer, verify, return | the signer, called in mid-encode, may call back; setters between encodes |
| Decoding (`parseJwt`, `decodeEnvelope`, typed decoders, `decodeGeneric`, `decode`, `verify`) | none | pure functions of a token | nkeys for signatures; encoding produces what it reads |
| Validation (`validate`, `validateChain`, the link and time rules) | none, but several reads of the clock | a loop over tokens, a loop over links | decodes every token twice, verifies it, calls the claims' `validate` |
| Revocations (of an account) | a map from key (or `*`) to time | `revoke`, `revokeAt`, `clearRevocation`, `isRevoked` | compared with the iat that encoding stamps; never consulted by validation |
| Bodies, scopes, limits (of seven claim types, in two versions) | typed fields and the carried nats object | setters, `setScoped`, decode with migration, re-encode | scopes judge users in the chain rules |
| Auth callout | none in the library; the service holds a curve seed and one message | seal, open, decode, compare the server's curve key, decide, answer | nats-servers, the network, whoever starts the service |
| Per-type rules | issues collected by `validate(ValidationResults&)` | append, find the first blocking one | run by encode and by `validate(jwt)`, not by decode |
| Credentials | none | `issueUserJWT`, armour | encoding |
| Base64url, SHA-2, jti, tags | none | pure functions | encoding, decoding |
| Command line tool | none | option parser, one library call per command | everything |
| nkeys (external) | keys | validity of a public key, sign, verify | encoding, decoding |

What must hold, and where it is hard:

* Encoding.  A token names the key that signed it, over exactly what was validated,
  whatever the signer does meanwhile.  Hard: the object is mutable, the method
  writes it before checking, the signer is foreign code that may re-enter, fail or
  answer out of step, and a failed encode leaves its stamps behind.
* Decoding.  What `decode` returns was signed by the issuer it names, as the type it
  is returned as.  Hard: the type and the signing rule are read from the payload
  before it is authenticated, twice and by different code; version 1 leaves the
  header unsigned; generic claims follow other rules than typed ones.
* Validation.  A valid chain passes every check, and the checks of neighbours add
  up to a statement about the whole chain.  Hard: two nested loops with early
  returns, and a clock that moves between the checks.
* Revocations.  A revoked token stays revoked until the revocation is cleared or
  the token is issued anew.  Hard: wildcards, revoking twice with different times,
  and the way through tokens and other administrators' copies.
* Re-encoding.  Decode and encode neither drop a restriction nor revive a removed
  one.  Hard: carried JSON under typed fields, absent limits that mean zero in
  one place and no limit in another, and rules that encode enforces and decode
  does not.
* Auth callout.  A server admits a connection only if the policy of the account
  admits this client, and the service never stops listening.  Hard: messages are
  lost, repeated, resealed and mixed up, the header that names the server's curve key
  is outside of every seal, the service restarts, the server stops waiting when it
  likes, and each call of the handler throws exceptions of its own.
* Base64url.  Decoding inverts encoding, and two texts do not mean one token.

## 2. Modules

| Module | What it is |
|---|---|
| `Tokens` | keys, names, claim types; the issuer and subject rules; a wire token and the pure functions that read one, with their checks in the order of the code |
| `Issuance` | abstract: genuine tokens appear, one at a time |
| `Minting` | `encodeWithSigner`, step by step, with re-entrant signers, setters and several callers |
| `Reading` | tokens signed by either version's rule and then damaged or rewritten, read by the functions of `Tokens` |
| `TrustLinks` | wire tokens with the claims a chain looks at, and what `decode` and `verify` of `Tokens` report of them; the clock rules, in 64-bit arithmetic, and the link rules of validation |
| `TrustChain` | abstract: one question (chain, options, time), one answer |
| `ChainValidation` | `validateChain` and the `validate` it calls, check by check, with the clock running in between |
| `AccountPolicy` | abstract: administrators edit the policy of an account aspect by aspect, publish and load it whole, and begin a new one only as the constructor has it |
| `AccountBody` | the account object, its setters, scopes and revocations; the nats object of its token; decode, the blocking rules, encode over the carried object |
| `Resigning` | abstract: settings of a draft change one at a time, publishing and loading copy the meaning of a token whole, a new draft is the constructor's, and a user issued in one go is that, scoped, with what was chosen for him |
| `ClaimBodies` | the bodies of operators, users, activations and callout messages: setters, `setScoped`, `issueUserJWT`, decode with the migration of version 1, encode over the carried object |
| `Admission` | abstract: a server asks about each connection once and lets in only whom the policy admits |
| `AuthCallout` | servers, an unreliable network, and the callout service with its sealed bodies, step by step |
| `Base64Url` | chunks, their texts, and what may happen to a text on the way |
| `MintingProofs`, `ReadingProofs`, `ChainProofs`, `AccountProofs`, `BodyProofs`, `CalloutProofs`, `Base64Proofs` | theorems and proofs of the module of that name |
| `TokenProofs` | lemmas on lists of checks and on the readers of `Tokens`, for `MintingProofs`, `ReadingProofs`, `ChainProofs` and `CalloutProofs` |
| `MCMinting`, `MCReading`, `MCChainValidation`, `MCAccountBody`, `MCClaimBodies`, `MCAuthCallout`, `MCBase64Url` | instances for TLC |

`Minting`, `Reading` and `TrustLinks` extend `Tokens`: `Minting` states in
`MintedDecodes` that the decoders of `Tokens` read what it mints, `Reading` damages
tokens before they read them, and `ChainValidation` runs on tokens as they are on the
wire, which it reads with the same `decode` and `verify` (`Certificate`).  That a token
of a chain that decodes has an issuer and a subject of the right kinds, and verifies if
it is typed, is therefore a lemma (`DecodeShows`) and no assumption.  `AccountBody` takes one encode as one step, as `Minting` shows that it may
with one thread per object, and is about what `body` there leaves out; `ClaimBodies`
does the same for the other typed claims.  `AuthCallout` extends `Tokens` for the
issuer and structure rules of its two claim types and for signatures.

### State and actions against the code

**Minting.**  `obj` is the `Impl` of each claims object; `body` folds everything
encode can tell apart about the rest of it (fine, a blocking issue, a string that
JSON refuses, too large, a number its own decoder refuses); `data` is the type it will
write, which in a generic object is whatever JSON its caller put there (`setDataJson`),
a value that is no string included.  `frame[<<c, d>>]` is the d-th nested activation of
`encodeWithSigner` in caller c: its program counter, the argument
`issuerPublicKey`, the serialised payload and the signer's answer.  One action per
step: `Enter` (the issuer kind check), `StampIssuer`, `StampTime`, `Validate`,
`Serialise`, `SignerReturns` or `SignerThrows`, `signAndAssemble`.  A failing step
returns and leaves the object as it stands, as the code does.  While a frame waits
in its signer its caller may set fields and encode again (`CallableAt`, `OwnCode`);
frames of different callers interleave at every step.  `MayUse` says which objects
a caller has a reference to: with disjoint sets there is one thread per object,
which is all a library without locks can ask for (`Exclusive`).

**Reading.**  `token` is what the reader holds, `signed` everything key holders
signed.  `Sign` covers both signing rules under both headers; then the header is
rewritten, the subject replaced, the signature garbled or the token cut, any number
of times.  The payload keeps the two type fields, the version and the two names;
`form` is the first thing wrong with its JSON.

**ChainValidation.**  `chain`, `opts` are the arguments, `at` the loop index, `pc`
the check that comes next.  `validate(jwt)` is `Decode`, `Verify`, `NotBefore`,
`Expiration`, `Structure`; the chain's own loop adds `DecodeAgain`; the second loop
is `Issuer`, `Hierarchy`.  A failing check returns.  `Tick` may come between any
two steps.  `Wire` says what each token of the caller is on the wire, `Decoded` what it
reads as.  Times and tolerances are integers of 64 bits.  `validateExpiration` and
`validateNotBefore` return the set of their possible answers: a sum that fits has one
value, one that overflows, which C++ leaves undefined, may come out exact or wrapped.

**AccountBody.**  `acct[a]` is the `Impl` of administrator a's object with the nats
object it was decoded from (`natsRaw`), `published` the nats object of the newest
token.  Every accessor that hands out a mutable reference is an action that changes
one field; `addSigningKey`, `setScope`, `revokeAt` and `clearRevocation` are the
functions of these names; `construct`, `decode` (`Decodable`, then `Read`) and
`encode` (`Valid`, then `Write`) are the constructor, `decodeAccountClaims` and
`encodeWithSigner`.  `Write` says what each key of the emitted object is: written
over, erased, or shown through from `natsRaw` (`Carried`).  `current` and `cleared`
are history: whose object started from the token published now, and what its owner
has cleared since.

**ClaimBodies.**  `type` is chosen once; `body` is the typed part of the `Impl`,
`natsRaw` the carried object, `published` the newest token.  All five types treat a
field in one of five ways, its `Shape`: left out when empty, left out when not set,
always written, a limit (left out when zero), a time (left out unless positive);
every other key is carried.  `Omitted`, `Optional`, `Always` and `UserLimits` list
which field of which type has which shape, `Put` is what encode writes for it and
`Get` what decode reads.  `Migrate` is the version 1 branch of `decodeEnvelope`.
`Set` is any setter or mutable accessor on one field, `setScoped`, `construct`,
`decode`, `encode` and `issueUserJWT` the functions of these names.  `Valid` holds
the rules of the five `validate` functions: which fields can be unsound (`Ruled`),
which must not be empty (`Required`).  `scoped` is history.

**AuthCallout.**  `pc`, `msg` and `rs` are the handler in `callout-serve` of
`src/tests/interop/cpp_driver.cpp`: `Receive` reads a message (a sealed one through
`decodeSealedAuthorizationRequest`), `Decide` is `calloutDecision` up to its encode,
`Answer` encodes, seals and publishes; `Caught` is the `catch` around all of it.
`seed` is the curve seed it was started with.  `conn`, `Ask`, `Fits`, `Take` and
`Timeout` are the server, which is not in the repository: it follows
`src/include/jwt/authorization_claims.hpp` (lines 16-21 and 136-145: subject, audience,
header, what is sealed) and SECURITY.md.  That `calloutDecision` also compares the
request's audience with the one constant there is (`cpp_driver.cpp:77`) has no
counterpart: every request asks with it.  The network is `requests` and `answers`,
which only grow: what was sent may arrive later, again, or never.  `Circulating`
mixes payloads, `Deliverable` adds boxes of anybody's making and any header.

**Base64Url.**  `data` is what was encoded, `text` what the reader holds; `Respell`,
`Cut` and `Extend` change it.  `base64url_encode` and `base64url_decode` are functions
from position to value, group by group, as the two loops are; what they read beyond
the end of a chunk is zero, as the shifts of the tails have it.

## 3. Runs

| Run | Instance | Question |
|---|---|---|
| `minting` | one thread, one object of any claim type about any of five names, nesting 2, clock 0..1, one token before the last encode | can any order of setters, nested encodes and signer behaviour yield a payload shown unchecked, or a token that is not genuine? No.  And which of the tokens it yields do `decodeGeneric`, `verify` and, of a typed object, `decode` read back? All, but for three bodies that no check of encode stops. |
| `minting_shared` | two threads, one object, no nesting | does the comment "iss can then never disagree with the signature" survive sharing? No. |
| `reading` | all layouts of type fields and versions, all pairs of names for each claim type in both versions, every malformed form | is everything `decode` returns signed by its issuer, as its type, independent of an unsigned header? Yes. |
| `reading_only_jwt_errors` | the same | does only `jwt::Error` leave `decode`? No. |
| `reading_verify_redundant` | the same | does `verify` accept what `decode` accepts? Not for generic tokens. |
| `chain` | seventeen wire tokens (among them one mixed up after signing, version 1 layouts, and times at the edge of the integers), chains up to 3, five option sets, clock 0..2 | is every answer justified, was every accepted token signed by whom it names, does an accepted chain descend, when was it valid, and is a chain ever refused that decodes, keeps its times and is vouched for link by link (`RightfulIsNotRefused`)? |
| `account` | two administrators, one key, user and field of each kind, two exports that overlap, limits -1, 0, 1, times 1 and 2, three tokens of other programs, two edits | can any order of loading, editing and publishing lose a restriction, revive a removed setting, let a revoked user back in, or publish what cannot be signed again? No. |
| `account_unmodelled` | one administrator, one edit | do keys the library has no field for survive decode and encode? Not inside objects. |
| `account_templates` | the same | does a scope template survive encode and decode? Not with a limit of 0. |
| `bodies` | one sound and one unsound value, limits and times -1, 0, 1, two edits, each type with tokens of other programs: everything set, next to nothing set, versions 1 and 2 | can any order of setters, scoping, loading and publishing lose, revive or change a setting, give a scoped user a permission, or publish what cannot be read or signed again? No, but for a request with a negative protocol. |
| `callout` | two servers, one of which seals; five connections: one admitted, one unknown, one of another account, one whose sentinel does not decode, one with a nkey that is none | is anybody let in whom the policy does not admit, or the service stopped, and does it matter which fitting answer comes first? No. |
| `base64` | up to four bytes out of four, up to two changes to seven characters | does decoding invert encoding, and which texts are read as the bytes that were sent? Their encoding, and whatever differs from it in the left-over bits of the last character. |

### Why the bounds are enough

* Names: one key of each kind that matters plus a string that is no key.  The rules
  look at kinds and at equality of names; chains need two operator keys and three
  account keys, to tell identity, signing and foreign keys apart, and a word that
  starts like an account key.
* Nesting 2 gives an encode inside the signer of another on the same object, in
  every combination of keys; the proof covers every depth.
* `MaxMinted` = 1: no encode starts after a token exists, but nested frames still
  finish, so up to two tokens meet and an old signature can be replayed.
* `GenericData`: a generic object is given a type of its own, no type, and one that is
  no string; it starts as one that claims to be a user or of a type the library refuses.
* Clock 0..1 or 0..2: before, at and after an expiry or a not-before time of 1, and
  the tolerance of 1 second either way.  The largest integer is 1000 in place of
  2^63 - 1: one token starts and one ends there, and a tolerance of 1 or -1 overflows.
* Chains of 3: both loops run more than once, a link has a link above it, and a
  repeated operator still leaves room below it.  The proof covers every length.

* Accounts: fields do not interact except where `Valid` and `Read` say so (tiers with
  flat limits, limits with exports), so one of each kind is enough; limits take a
  negative, the zero and a positive value; two times order revocations.  Two edits
  set a field and unset it, or change both sides of an interaction, with any number
  of decodes and encodes between; two administrators make stale copies.  They are
  interchangeable, hence the symmetry; no temporal property with fairness is checked
  under it.  The proof covers all of these without bounds.
* Bodies: fields of one shape behave alike, and the only rules about two fields at
  once are `jwt`/`error` and scoping, so two edits reach every interaction; `-1`, `0`
  and `1` are no limit, nothing, and some.  The proof covers any values and tokens.
* Callout: two connections of one server tell an answer for one from an answer for
  the other; a second server, in the clear, makes mixed modes; a second curve key is
  a stranger's and the one of a service wrongly started.  Each connection asks once,
  as a server makes a nkey per connection.  The proof covers any number.
* Base64url: four bytes are a full group and each tail; the changed characters set
  each end of the left-over bits.  The proof covers every length and all bytes.

`CHECK_DEADLOCK` is on everywhere: a library can always be called again, and the
models always have a step.

### Fairness

Only `AuthCallout` states fairness.  The handler of a message is a sequence of
synchronous calls that return (`WF` of `Decide` and of `Answer`).  Nothing is assumed
of the network, of servers and clients or of whoever restarts the service: no message
need arrive, and the service may crash in every step.  Under this `ListensAgain` holds;
`callout` has no symmetry, which would not be sound for it.  That a connection is
decided in the end is up to the server's own timeout, whatever the service does, and is
no property of this code.

Elsewhere there is none.  Every operation is a synchronous call of its caller;
whether a signer ever returns or a caller ever calls again is up to code outside the
library, so there is nothing the library promises to do eventually.

## 4. Proofs

`MintingProofs`: `TypeCorrect` for all constants, and under `Exclusive` (one thread per
object) `EncodeInvariant`, `SignerAsked`,
`IssMatchesSignature`, `MintedTokensDecode` and `MintingImplementsIssuance`.
`Exclusive` is not a convenience: without it these statements are false, and
`minting_shared` shows how.  What `KindsHold` says needs no such assumption: whatever
threads do to one object, the key of a call is of a kind that may issue its type,
because no setter and no stamp changes the type (`KindsStep`).

The argument.  `SignerAskedInOrder` is not inductive: it says something of frames
that already serialised, and nothing of the object between stamp and serialisation.
`IInv` adds `CallStack` (a frame below another is waiting in its signer) and
`StampsHold` (from each step on, what the steps before established about the object
still holds).  The heart of the proof is `AloneOnObject`: a frame between stamp and
serialisation is the innermost of its caller, and under `Exclusive` no other caller
reaches its object, so no setter and no other encode can run.  `MintedGenuine`
then follows from the check in `signAndAssemble`, and each step of `Minting` maps
to `Tick`, to one `Issue` or to a stutter of `Issuance`.

`MintedTokensDecode` joins the two halves of the library: each check of the decoders
(`DecodeAccepts` and its companions in `TokenProofs`) is owed by a step of encode, the
structure of the claims by `Validate`, the signature by `signAndAssemble`, the version
and the type by `Serialise`; and the decoder that `decode` picks is the one of the type
the object has.  Three checks are owed by nobody, and the theorem says exactly what
they refuse: no step of encode compares the token with `MAX_JWT_SIZE`, looks at the type
in a caller's JSON, or at the sign of a request's protocol.

`ChainProofs`: `TypeCorrect`, `ChainInvariant`, `AcceptedChainInTime`,
`AcceptedChainIsSigned`, `AcceptedChainDescends`, `ChainImplementsTrust` and, the other
way round, `RightfulChainsPass` and `CanonicalFlowPasses`, for chains
of any length over any tokens, any clock and any width of integers.  The invariant says
that the token under check has passed its earlier checks (each at some moment of the call), the tokens before it all of them, and the
links above the one under check hold.  `SameOperator` is carried along because the
descent needs it: the rules compare neighbours, and that all operators of a chain
are one and the same, in front, follows only by extending it link by link
(`SameOperatorGrows`).  For the refinement, an accepting step owes `TrustChain` one
moment per token (kept as `Passed` by the invariant), and a refusing one the check
that failed (`RefusedForCause`).  `AcceptedChainIsSigned` does not ask whether
`checkSignature` was set: that a token decodes is enough (`DecodeShows`), and the link
rules then tie its signer to the token above.  The clock lemmas (`ExpirationReturns`,
`NotBeforeReturns`) say what a sum that overflows can do: an `exp` near the maximum can
only be refused too early, as the wrapped sum is negative; a `nbf` under a negative
tolerance can be accepted too early, which `AcceptedInTime` excludes and `TrustChain`
names (`Passes`).

Soundness alone would let `validateChain` refuse everything.  `RightfulIsNotRefused`
says of the contents of the tokens, and not of the checks, what must not be refused:
each token decodes, is sound, verifies if that is asked, is in time from the call to
now, to the last second of its tolerance (`StaysInTime`), and each link is vouched for.
It is not inductive alone, since a refusal rests on a check made earlier and now goes
on: `RightfulWas` shows that time makes no chain rightful that was not, and
`RightfulHasNoCause` that none of the causes `RefusedForCause` knows is there.
`CanonicalFlowPasses` is the case a user of the library cares for: an operator, an
account and a user, each laid out and signed as encode does it (`Written`; that decode
reads such a token is the lemma `WrittenIsRead` of `TokenProofs`), identity or signing
keys in between, a user of a scoped key without permissions of its own.  No option
makes `validateChain` refuse it while it is in time.  The types of the tokens are
essential: the link rules go by the kinds of names, which the structure check of each
type then pins down.

`AccountProofs`: `TypeCorrect`, `AccountInvariant`, `PublishedIsResignable`,
`RevocationsLast` and `AccountImplementsPolicy`, for any keys, fields, limits, times
and administrators.  The refinement holds of every object, fresh, loaded or edited: a
setter is an edit of the one aspect it is named for, and only the constructor may
replace a draft, by `PolicyOf(Fresh)`.  `RoundTrip` is the core: the policy a server reads in what
`Write` made of an object is the policy the object stood for.  It needs the first two
parts of `IInv`: `Canonical` (a token lists a key once), without which reading would
have to choose between entries, and `ScopesAreListed`, without which a template could
be in memory and not in the token.  `KeepsPublished`, the third part, carries
revocations from decode to encode: every setter but `clearRevocation` refuses at least
what was refused before (`NewerRefusesMore`), and what clearing frees is recorded
(`ClearFreesItsOwn`).  Three theorems draw the line along findings 4 and 5:
`OnlyZeroTemplatesChange` (no other template comes back changed), `TopLevelSurvives`
(unknown keys of the nats object itself do survive, an invariant of its own,
`CarriesTop`) and `ResigningSettles` (an own token signed again unchanged is the same
on the wire).

`ReadingProofs`: all five properties of `reading`, for any keys and names.  What
`decode` answers is the first failure in a list of checks; `TokenProofs` shows once
and for all that such a list passes exactly when no check fails (`PassesOrFails`), so
that each decoder turns into a conjunction.  The one invariant, `SignatureIsMade`,
says that the signature in hand was made by a key holder or by nobody; one that
verifies then is one of `signed`, by ideal signatures.  Two headers under which the
generic decoder accepts one signature are equal or both of version 1, since any other
header is part of what is signed (`HeadersDecideNothing`); and dispatch is faithful
because `DispatchType` and the decoders read the same two type fields once the form of
the payload is settled.  `OnlyOneOtherError` and `VerifyDiffersOnVersions` say exactly
how far findings 1 and 2 reach: the foreign exception takes a token that its issuer
signed in that shape, and `verify` differs from `decode` on generic tokens alone, where
version and header disagree or the migration fails.

`BodyProofs`: all five properties of `bodies`, for any values, bounds and tokens.  The
core is again a round trip, shape by shape: `Get` after `Put` gives a field back up to
its meaning (times that are not positive are none), what a server enforces in a
written token is what the object stood for, and what it enforces in a foreign one,
migrated or not, is what `Read` and `Nats` make of it.  `Valid` survives the round trip
because no rule can tell an absent field from an empty one where encode conflates
them; the kind of an activation, written as a word nobody reads when it is not set,
is saved by `Required`; the protocol of a request, a signed number that is written as it
is and read as one that is not negative, is saved by nothing, and `EncodedIsReencodable`
says that it is the one exception.  As for accounts, the refinement lets only the
constructor, and `issueUserJWT` for a scoped user, make a draft of nothing.  `ResigningSettles` is the round trip the other way: what was
written once is written the same again.

`CalloutProofs`: `TypeCorrect`, `CalloutInvariant`, `AnswersStaySealed`,
`RequestsAreAnswerable`, `FittingAnswersDecideAlike` and `CalloutImplementsAdmission`, for
any connections and keys.
The invariant leads every answer back to one question: what the service holds was
signed by a server (so it is that question, whatever it was mixed up with on the way),
and if sealed it was opened under the signed curve key.  Since nkeys are used once, an
answer that fits a connection is the decision about that connection (`FittingAnswer`).
Hence it does not matter which comes first: every fitting answer, late, repeated or made
after a restart with another seed, grants exactly when the policy admits
(`FittingAnswersAgree`), and a race can cost a client its admission only by a timeout or
by an answer that does not fit.
`OnlyAdmissibleGetIn` and `DecisionsAreFinal` are drawn from the refinement: they are
proved of `Admission`, and hold of the callout because it implements it.

`Base64Proofs`: `TypeCorrect`, `EncodedIsDecoded` and `OnlyRespeltIsReadAsSent`, for chunks
of any length.  A group is a number below 2^24: cut into four sextets or three bytes
and put together again it is the same (left to SMT).  Every position is the j-th of
group g; beyond the end all groups read zero, and for the tails that is what encode
and decode would have put there, so that only the left-over bits remain.  Hence
`EncodingIsInjective`, and `SpellingsDifferInTheLast`: two spellings of the same bytes
differ in the last character, if at all.

The proofs rest on the named assumptions of the constants: key kinds are a function
of names and the empty string is no key (`NamesAssumption`), a valid key starts with
the letter of its kind (`PrefixAssumption`), the largest integer is a natural number
(`IntAssumption`), the tokens and options of a caller have their types
(`ChainAssumption`), objects start as constructors and decoders build them
(`MintingAssumption`), and what other programs sign lists each key once, leaves out
zero template limits and keeps the blocking rules, up to flat limits beside tiers
(`ForeignAssumption`; `AccountAssumption` types the constants).  In `ClaimBodies` foreign
tokens have fields of the right JSON type (its `ForeignAssumption`) and the special
values are told apart (`BodyAssumption`); in `AuthCallout` the service's account and
signing key are account keys (`CalloutAssumption`), nkeys are used for one connection
(`NkeyAssumption`) and the empty hand is no message (`NothingAssumption`);
`Base64Assumption` and `ReadingAssumption` type the constants.

Every safety property that a passing run checks is a theorem.  Only model-checked: the
liveness property of `AuthCallout` (the prover has no rules for fairness), and the
violations.

## 5. Findings

1. `decode` leaks `nlohmann::json::type_error` for a payload with `nats.version` 1
   and no top-level type (`src/src/jwt_utils.cpp:460`).
2. `verify` refuses generic tokens that `decode` returns (`src/src/jwt.cpp:63`), so
   the "redundant" check of `validate(jwt)` is not redundant.
3. Two threads encoding one object through the `const` methods can mint a token that
   names one key and carries the other's signature
   (`src/src/operator_claims.cpp:188`, and the same in every claim type).
4. Unknown keys inside limits, scopes, exports and the like are lost by re-signing
   (`src/src/account_claims.cpp:590`); the README of the repository says none are.
5. A template limit of 0 comes back as no limit (`src/src/scope_serialization.hpp:62`).

The comment at `src/src/account_claims.cpp:509` has it the wrong way round: a newer
revocation is kept, so a revocation moves into the future and never into the past.
`PublishedRevocationsLast` states what the code does.

What the checks also make plain: an administrator
who publishes from an older copy silently drops what was published meanwhile,
revocations too; a valid chain
means "valid below whatever operator it starts with", not a trusted one; the default
options check no links at all; revocations are not consulted; and since each token
is judged at its own second, an accepted chain need not have been valid as a whole
at any one moment (`AcceptedInTime` says what does hold).  And:

* The link rules look at names and not at claim types, so that an activation about
  the account's key can stand in the account's place in a chain
  (`src/src/validation.cpp:182`), and a user issued by a signing key without an
  `issuer_account` chains as well (`src/src/validation.cpp:137`; SECURITY.md:229 says
  that it "must name the parent").
* The left-over bits of a last character are not looked at, so the chunk of a
  signature, 64 bytes, has 16 spellings, all accepted: the text of a token can be changed
  and it still decodes and verifies.  This is a divergence from what the repository says:
  `src/src/base64url.cpp:21-24` ("a token string must have exactly one valid spelling
  (string-keyed caches, dedup, revocation by token text)"), `src/SECURITY.md:33-34` ("so a
  token string has exactly one valid spelling"), `src/README.md:45` ("base64url is
  canonical").  Padding, which is what the comment and SECURITY.md had in view, is
  refused.  `ReadAsSent` asserts the extra spellings, all of them and no others.
* `encode` lets out three kinds of tokens that the library's own readers refuse
  (`MintedDecodes`): one longer than `MAX_JWT_SIZE`; a generic one whose `nats.type` the
  caller's JSON made a number or an object (`src/src/generic_claims.cpp:107`), which
  `decodeGeneric` reads and `decode` and `verify` do not; and a callout request with a
  negative `ConnectOptions::protocol`, written at `src/src/authorization_claims.cpp:93` and
  refused at `:107`, which `EncodedIsReencodable` names as its one exception.
* decode of a request checks neither its nkey nor the id of its server; a request
  without a proper id is readable and cannot be answered, since encode of the
  response wants that id as a server key (`ReadableIsAnswerable` excludes it).
* An activation or response of another program with an empty `issuer_account` can be
  decoded and not signed again: only for users does empty mean none.
* A `clockSkewSeconds` may be negative and is not checked; with a `nbf` near the maximum
  their difference overflows, and if it wraps the token is accepted at once
  (`src/src/validation.cpp:58`).  An `exp` that overflows is refused.
* Objects inside a request (`server_id` and the like) are written anew: keys in them
  that the library does not know are dropped, like those inside an account's limits.

## 6. Abstractions, and what is not modelled

* Signatures are ideal: one by key k over bytes b verifies for exactly k and b.
* Base64url and JSON appear as the first thing wrong with them.  A nested
  `nats.nats.type`, which `GenericClaims::claimType` also looks at, is left out.
* Values of fields are opaque: sound or not (`Unsound`), empty or not.  What makes a
  subject, a URL, a CIDR or a time of day sound is string parsing, and left out.
* In `AccountBody` one `limit` stands for every numeric limit of the account or of a
  template, `optional` for fields written or erased, `always` for fields written even
  when empty, `Unsound` for values that have a blocking issue, `Overlapping` for exports
  that have one together.  Signing keys and
  exports are sets, as encode sorts them; `Imports` are the optional fields that count as
  an import against the limit, all other things that limits count being exports.
  `AccountPolicy` judges templates as they are on the wire, where a limit of 0 is left out;
  what that does to a template is asked by `TemplatesSurvive` and `OnlyZeroTemplatesChange`.  Tokens that list a key twice or spell out
  a zero template limit, and wrong JSON types, which decode refuses, are left out.
* In `ClaimBodies` objects such as `resp` or `server_id` are opaque, but that
  `connect_opts` may hold a negative protocol (`Unreadable`); wrong JSON types,
  the `src` list of a user spelt as one string, and a `resp.max` that does not fit an
  int, which decode narrows, are left out.
* In `AuthCallout` boxes are ideal.  The user JWT in a response is for the response's
  own subject, and all a server is modelled to check is what the documents say of it.
* In `Base64Url` a character is its number in the alphabet; a chunk's bytes do not
  change on the way, its text does.
* `now + expirationSeconds` of `issueUserJWT` is any time, one that is not positive
  included: a sum that wraps is negative, is left out on the wire, and the user never
  expires.  Nothing in the code guards it (listed as a hazard).  Other integers are
  small enough not to overflow, but for `exp` and `nbf` with the tolerance, as above.
* SHA-2, the jti and the armouring of credentials are pure functions on bytes whose
  results nothing here depends on.

## 7. Not modelled

* Subjects, wildcards, URLs, CIDRs and times of day (`src/src/subject_utils.hpp`, and
  helpers of the same kind): string algorithms, without state and without any effect
  on the order of things.  Their verdict is a property of a value in the models.
* The command line tool and its option parser: one library call per invocation.
* Credential files, SHA-2, base32, the jti and tag lists: text and bytes; nothing the
  modules say depends on them.
* A composition of `AccountBody`, `Minting` and `ChainValidation` over the life of a
  deployment.  The three meet in few places (iat against revocations, scopes against
  users) and validation does not consult revocations, so that there is no promise of
  this code the composition would establish beyond those of its parts.
