# A verification of micro-stacks

micro-stacks is a TypeScript library for web applications on the Stacks block chain: a
client that keeps a user's session in the browser and asks a wallet to sign (`packages/client`),
bindings of it for five frameworks, and `packages/core`, the libraries below it: storage in Gaia
hubs, transactions, contracts' values, wallets and cryptography. Next to it stand these TLA+
modules, TLC configurations and TLAPS proofs. They cover the parts with concurrent or distributed
behaviour (the client in several browser tabs, file operations on a Gaia hub, a wallet's config
on several devices, the building, co-signing, sponsoring and broadcasting of transactions, signing
in) and the formats in which these parts talk to each other and to the chain.

Line numbers refer to the files under `src/packages/`.

## 1. Inventory

| component | state it keeps | operations | hard behaviour |
|---|---|---|---|
| **client** `client/src/micro-stacks-client.ts`, `utils.ts` | a store per page (accounts, selected index, network, a status per request kind, callbacks); its config; the item `micro-stacks.store` in localStorage; a cookie of the application | construct, `onStorageUpdate`, setters, `setNetwork`, `authenticate`, `signOut`, `signTransaction`, `signMessage`, `signStructuredMessage`, `signPSBT`, `putFile`, `getFile` | several tabs write one item and get events of each other's writes; the wallet answers at any time or never; callbacks and token makers that throw |
| **framework bindings** `react`, `vue`, `svelte`, `solidjs`, `jotai` | one client per page | construct, subscribe to storage events, set callbacks | as the client's |
| **wallet requests** `core/src/connect` | none (a popup per request) | authenticate, open a popup, settle a request | each way out of a request must run exactly the right callback |
| **Gaia files** `core/src/storage` | files on a hub, hub config | `putFile`, `getFile`, `getFileSignedUnencrypted`, `deleteFile` | a file and its signature are two HTTP calls; retries; half-done and late uploads; concurrent writers |
| **profiles** `core/src/storage/profile` | none | fetch, look up, save a profile | sequential HTTP |
| **authorization and signing** `core/src/transactions/{authorization,transaction,signer}.ts`, `builders/sponsor-transaction.ts` | a transaction's spending conditions; a signer's running `sigHash` | `TransactionSigner`, `signOrigin`, `appendOrigin`, `resume`, `verifyOrigin`, `sponsorTransaction` | co-signers with copies of one transaction; a `sigHash` read before and written after an await; reconstruction from a partly signed transaction |
| **builders and fetchers** `core/src/transactions/builders`, `fetchers` | a transaction object per call | make transfers, contract calls and deploys; fetch fee, nonce and interface; sponsor; broadcast | lookups that fail or are stale when used; several sponsors of one object; a lost answer of a broadcast |
| **payloads, post-conditions, wire format** `core/src/transactions` | none | serialize, deserialize, check contract arguments | length prefixes, limits, bytes that must be reproduced |
| **wallet-sdk** `core/src/wallet-sdk` | a wallet's accounts, its config file in Gaia | generate, restore, add accounts, register applications; auth responses and their verification | devices that read, change and write one config |
| **clarity** `core/src/clarity` | none | serialize and parse values | recursion, limits, cut-off input |
| **common**, **crypto** | none | conversions, c32, addresses, signatures, tokens, ECIES | two's complement, leading zeros, lengths |
| **sign in with Stacks** `client/src/siwms` | a message object, which is stamped at its first use | compose, prepare, parse, verify | a grammar written by one side and matched by the other; times |
| **zone-file** `core/src/zone-file` | none | print, parse | record types looked for by words |
| **network**, **api**, **crypto-extras** | none | urls, one request per function, primitives | none |
| **create-ustx, docs** | none | scaffolding | none |

How they interact: a binding constructs one client per page. The client calls `connect`, which talks to
the wallet's extension and calls the client's `onFinish` or `onCancel` later. The client's `putFile`
and `getFile` call `core/storage`; the wallet-sdk uses the same functions for its config.
Transactions made by the builders are signed by `TransactionSigner`, in the process that has a key,
and travel between co-signers and sponsors as bytes. `crypto`, `common` and `clarity` are pure and
are called from everywhere.

What makes each part correct:

* client: the tabs of one application show the same session once they have handled their events; a
  session that was signed out does not come back by itself; a session has a selected account; a
  status shows exactly the requests that are open.
* Gaia files: a verified read returns only what the owner signed, or nothing; a decrypting one only what
  was encrypted; a resolved put is on the hub in whole; operations end.
* signing: no transaction gets more signatures than it needs; what has all of them verifies; a
  signer made from a partly signed transaction goes on from the right hash; a verified transaction can
  be sponsored and still verifies afterwards.
* builders: what was built verifies; the estimated fee covers the size that is sent; sponsors of one
  transaction do not mix; a looked-up nonce is refused only when it was used up since or another waiting transaction has it.
* wallet-sdk: no device loses an account or an application that another one saved, unless it saves
  from an older config or after a failed read.
* formats: what one side writes the other reads, or refuses; a relayed transaction keeps its bytes; a
  signed message verifies as itself only; an encrypted file is not larger than foretold.

`PROJECT.json` lists every component with its status, and every hazard with the line where it bites
and the properties that watch it.

## 2. The modules

| module | models | lines of code it stands for |
|---|---|---|
| `ClientState` | the state of a client, `serialize`, `hydrate`, selectors, the state changes | `client/src/utils.ts`, selectors and setters of `micro-stacks-client.ts` |
| `MicroStacksClient` | all clients of an application, storage and its events | `micro-stacks-client.ts`, `common/utils.ts` of `client`, the request flow of `core/src/connect` |
| `StacksSession` | what a client promises of the stored session (abstract) | none: it is a specification |
| `MCClient` | instances for TLC | none |
| `ClientProofs` | proofs about `MicroStacksClient`: any number of tabs; a single one | none |
| `GaiaFiles` | what a put uploads, what a get makes of what it fetched | `put-file.ts`, `get-file/*.ts` |
| `GaiaHub` | operations, their HTTP calls, the hub's two files of a path | `put-file.ts`, `get-file/*.ts`, `delete-file.ts`, `gaia/*.ts` |
| `MCGaia`, `GaiaProofs` | instances and proofs | none |
| `SequenceFold` | loops over a sequence, and induction over sequences: how the code's loops are written in `TransactionAuth`, `TransactionBuilder` and the modules of `TextFormats`, and the lemmas to prove about them | none |
| `TransactionAuth` | spending conditions, hash chain, verification, reconstruction | `authorization.ts`, `transaction.ts`, `signer.ts` |
| `TransactionSigner` | parties with signers and copies, sponsoring | `signer.ts`, `sponsor-transaction.ts` |
| `AuthProofs` | lemmas about `TransactionAuth`: what one more field does to verification, replay and types | none |
| `MCSigner`, `SignerProofs` | instances and proofs | none |
| `TransactionBuilder` (extends `TransactionAuth`) | concurrent builder and sponsor calls, the node's accounts and memory pool, broadcasting | `builders/*.ts`, `fetchers/*.ts` |
| `WalletConfig` | the devices of a wallet and its stored config | `wallet-sdk/wallet-config`, `account/derive-account.ts`, `wallet/generate.ts` |
| `SignIn` (extends `SignInMessage`) | an application and a relying party that compose, prepare, have signed, parse and verify a message while time passes | `client/src/siwms/index.ts`, `message-signing/verify.ts` |
| `MCBuilder`, `MCWallet`, `MCSignIn`, `BuilderProofs`, `WalletProofs` | instances and proofs | none |
| `TextFormats` | a writer of texts (tokens, messages, addresses, files, zones...), a wire and a reader that writes on | composes the modules below but the Clarity ones |
| `Formats` (extends `TextFormats`) | the same for all formats: also values, transactions, arguments and structured messages | composes the modules below |
| `TextProofs` | proofs about `TextFormats` and the encodings below it | none |
| `Bytes` | integers, strings, the buffer reader | `common/buffer`, `common/encoding-*.ts`, `ints.ts`, `twos-complement.ts` |
| `ClarityValues` | constructors, `serializeCV`, `deserializeCV` | `clarity` |
| `TransactionWire`, `AuthorizationWire` | payloads, post-conditions; keys, spending conditions, whole transactions | `payload.ts`, `postcondition.ts`, `types.ts`; `authorization.ts`, `keys.ts`, `transaction.ts` |
| `ContractAbi` | `parseToCV`, `encodeClarityValue`, `validateContractCall` | `contract-abi.ts` |
| `Encodings` | base58, base64, c32, addresses | `encoding-base58.ts`, `encoding-base64.ts`, `crypto/c32`, `crypto/base58` |
| `SignedMessages` | DER and JOSE signatures, tokens, message prefixes and lengths | `crypto/token-signer`, `connect/message-signing` |
| `StructuredMessages` | structured messages (SIP-018) and their verification | `structured-message.ts`, `verify.ts` |
| `SignInMessage` | the lines of a sign-in message and the parser's regular expression | `client/src/siwms/index.ts`, `parser.ts` |
| `Ciphertexts` | cipher objects, their signed form, and the size `putFile` foretells | `crypto/encryption`, `ecies-utils.ts`, `put-file.ts`, `file-content-loader.ts` |
| `AuthTokens` | auth requests and responses, their verification, the session | `authentication.ts`, `decode-auth-response.ts`, `wallet-sdk/auth` |
| `ZoneFiles` | zone files of both templates | `zone-file` |
| `MCFormats` | the contents that are written | none |

A definition that stands in front of another and looks like a wrong version of it
(`SerializeWithoutNetwork`, `RetryAlways`, `OversignedByTwo`...) is a mutant: no specification uses it;
`PROJECT.json` names it as the change of the code that must break a property.

### 2.1 The client

An action is one run of a tab's event loop: the code between two awaits.

| action | code |
|---|---|
| `OpenTab` | the constructor (58-94): the default store from `dehydratedState`, the persist middleware |
| `CloseTab` | the page goes away (external) |
| `StorageEvent` | `onStorageUpdate` and `hydrate` (115-127, 229-232) |
| `SetCallback`, `SetNetwork` | `setOnPersistState`... (182-212), `setNetwork` (659-674) |
| `SignOut`, `SignOutThrows` | `signOut` (408-413): remove the item, call `onSignOut`, reset the state |
| `Authenticate`, `AuthFinish`, `AuthCancel`, `PersistResolves`... | `authenticate` (344-403), cut at the wallet's prompt and at `await this.persist()` |
| `Sign`, `TokenMade`, `TokenFails`, `PopupSettles`, `PopupCancelThrows` | the four signing requests (460-653), cut at the making of the token and at the popup |

Every `setState` goes through zustand's persist middleware: `SetState` changes the store,
writes `Serialize(s)` to the storage and, when this changed the item, queues an event
in every other listening tab. This middleware and the browser's events are external code, modelled
from how the client uses them. A storage event of a removed item carries `null`, on which `hydrate`
falls back to the default state; this is what `Hydrate(NoItem, ...)` does.

Addresses and networks are opaque. An account keeps one bit next to its address, whether its
decentralizedID is still on record, which serialization drops. `SameAddress` is `FALSE`: the code compares two
freshly made arrays with `===` (369).

Three constants state assumptions about the surroundings, so that a run can say under which one a property holds:
`CallbacksThrow` (may the application's callbacks throw), `TokensFail` (may a token maker throw), `UsersWait` (users act only
once all tabs have handled their events).

### 2.2 Gaia files

`hub` is the pair of files of one path: the file and its `.sig`. An operation starts (`Start`), which sends
one or two `calls`; the hub handles each call in any order (`HubHandles`), its answer may be lost after the
hub did what was asked, or the call may fail before (`CallFails`). `Succeed`, `Retry` and `Reject` are the
continuations of the operation's promise: `Promise.all` rejects on the first failure, and the other call goes
on unheard, and may be handled much later. `putFile` retries once, after an error `isRecoverableGaiaError`
accepts (146-154). `PutThrows` is a put that fails its size or key checks before any call.

`GaiaFiles` holds the two pure decisions: what is uploaded for which options (`ContentFile`,
`SignatureFile`), and what a read makes of what it found (`GetOutcome`, `SignedOutcome`). `getFile` guesses what it has from
words in the contents (`get-file.ts:42-49`), and these guesses overrule its options. `Words` are those of each form of file; plain contents may have any of them
(`WordsOf`), and may be the very text of a file that was encrypted elsewhere (`Embedded`), which `JSON.parse` then reads as that file (`Parsed`). Contents that are the empty
string (`EmptyData`) are returned by a verifying read before it looks at any signature (`getters.ts:194`). Cryptography is symbolic: a
file says for whom it is encrypted and who signed it. No contents begin with a byte order mark, which `fetch`'s `text()` would drop.

### 2.3 Co-signing

`circulating` is the set of transactions handed on so far. A party takes any of them, so copies may
be lost, duplicated or stale, and makes a `TransactionSigner` (`Construct`), resumes one (`Resume`), signs
(`SignOrigin` up to the await of `signWithKey`, `SignOriginEnds` after it), appends a key (`AppendOrigin`),
changes fee or nonce, and hands its transaction on (`HandOn`). `SponsorTransaction` is the whole of
`sponsorTransaction`, which nothing can interrupt as each call has a transaction of its own.

A hash is the sequence of what went into it, so hashes are equal exactly when their inputs are; a
signature recovers its key only over the hash it was made for. This makes `VerifyFields`, `ReconstructSigHash` and the
signing chain as in `authorization.ts` and `signer.ts`, with the auth type, fee and nonce each link covers. Not in the hash: the
nonce, fee and fields of the cleared condition, and the sponsor.

The compressed and the uncompressed public key of one private number are two members of `Keys`, each the other's `Twin`: a signature recovers the key in the encoding its field
names. A transaction is handed on as the object it is or through `serialize` and `deserialize` (`HandOn`), which write the keys of multi-sig fields compressed (`Deserialized`,
`authorization.ts:131-132`) and change nothing else that signing and verifying look at; their bytes are the subject of `Formats`. Multi-sig accounts are of the hash mode P2SH.

Each loop of the code over fields, signers or keys is an instance of `SequenceFold` whose `Step` is one turn of it: `VerifyField` in
`verifyMultiSig`, `ReplayField` in the signer's constructor, and, in the builders below, `SignWith` and `KeepUnlessSigner`.

`Misuses` names what a caller can do though no check prevents it and no comment promises anything for it:
overlapping `signOrigin` calls of one signer, resuming from a signed transaction, signing a single-sig origin twice with one signer,
changing a fee or nonce that is already signed, adding fields out of the account's key order. The run has none of them.

### 2.4 Building and broadcasting

A call of a builder is a record with the fetch it awaits. `Build` is everything before the first
await: constructing the transaction from the request (`Constructed`), then `Construction`, which
decides what is looked up next. `AbiAnswered`, `FeeAnswered`, `NonceAnswered` and `FetchFails` are the continuations of
`getAbi`, `estimateTransfer` or `estimateContractFunctionCall`, and `getNonce`; the last of them signs (`SignedOrigin`), on the
call's own object, and returns. `Sponsor`, `SponsorFeeAnswered`, `SponsorNonceAnswered` are `sponsorTransaction` on the object a builder
returned: they change the origin's fee and the sponsor in place, as the code does (`sponsor-transaction.ts:61, 83`), so
two of them, or a mistaken one, share what they write. `Broadcast`, `Take`, `Refuse` and `Lose` are one
`broadcastTransaction` and its answer, and may repeat; `Mine` is the chain. Node, pool and chain are external.

### 2.5 The wallet's config

A device holds accounts and the config it got last. `GetWalletConfig` and `SetWalletConfig` are the two ways
of `getOrSetWalletConfig`: the second is also taken when the read failed, since `fetchWalletConfig` swallows every
error. `UpdateWalletConfigWithApp` and `AddNewAccountToWalletConfig` run up to the await of the save, `SaveIsStored` (with
or without an answer) and `SaveFails` are its outcomes. `fresh`, `freshSaves`, `blind` and `promised` remember, for the properties only, which
configs were made from what is stored and what resolved calls promised. It is assumed that callers pass a hub config and
await each call of a device before the next. `updateAppsMeta` declares its index inside its loop (`update-wallet-config.ts:21`), so only
the first account ever gets applications; the model does the same.

### 2.6 Formats

`Formats` is one machine for all formats, made in two layers that share the variables `sent`, `wire`, `got` and `hops`.
`TextFormats` has the kinds of content that no recursive definition is needed for: `WriteOneText` puts a content on the wire in the form
the code gives it, `ReadText` reads it, `RelayText` writes what was read. `Formats` adds Clarity values, transactions, arguments and structured messages, with `WriteOne`, `Cut`
(which loses the end of a Clarity value), `ReadWire` and `Relay`. Its `Next` is `TextNext` or a step of its own kinds, and of the latter `TextFormats`
knows only that the content stays of no text kind (`Elsewhere`). Every behaviour of `Formats` is therefore, seen through the four variables, one of
`TextSpec`, and what is proved of `TextSpec` holds in the run of `formats`. The functions are operators that follow the code
byte by byte, or, where that matters more, line by line (sign-in messages), word by word (zone files) or length by length (cipher objects, of which
nobody reads single bytes). A reader that throws is `Throws`, and `Then` passes on the rest of the bytes. Bytes may also arrive as a view of a larger buffer (`View`), as a small `Buffer` of
Node's is: `readBuffer` adds the view's `byteOffset` to where it slices (`buffer-reader.ts:63`), although the slice is taken of the view. `BytesToUtf8` is `TextDecoder`, which drops the byte order mark
that bytes begin with (`encoding-utf8.ts:6`). Hashes and
signatures are the bytes that are hashed or signed, so that two are equal exactly when these are.

## 3. What is checked

| run | instance | shows |
|---|---|---|
| `client_single` | one tab, two sign-ins and a transaction request, two addresses, two networks, four calls of setters, `signOut` and page loads (32 thousand states) | `StoredSessionSpec`: the stored session refines `StacksSession`; `SessionOnlyFromWallet`; `CurrentAccountExists`; `NothingPendingMeansIdle` and `PendingMeansLoading` on the statuses |
| `client_tabs` | two synchronised tabs, a sign-in and a transaction, throwing callbacks and token makers, three calls (93 thousand states) | `TabsAgree`, `QuietTabIsStored` |
| `client_drain` | two tabs, two addresses, no network switching, users that wait, four calls (14 thousand states) | `TabsConverge` under fairness |
| `client_pingpong` | the same with network switching | a violation of `TabsConverge` (finding 1) |
| `gaia` | a signed put, a second writer, a reader (one that verifies, decrypts, does both or neither), contents that are empty, have the words of an encrypted file or are the text of one, 409s and lost calls, two faults (1.7 million states) | `VerifiedReadIsAuthentic`, `LonePutIsStored`, `DecryptedReadIsEncrypted` |
| `gaia_settles` | a signed put next to an operation of each other kind; 401s, 409s, 500s and lost calls, three faults (181 thousand states) | `OperationsSettle` under fairness |
| `signer` | two parties co-sign a two-of-three standard transaction (one of them has two keys), or a one-of-two with an uncompressed key, or one signs a sponsored single-sig one; two fees; copies serialized or not (689 thousand states) | `NeverOversigned`, `CompleteVerifies`, `SigHashIsReconstructed`, `SponsoredVerifies` |
| `signer_sponsor` | a sponsored two-of-three transaction | a violation (finding 2) |
| `builder` | two builder calls (single-sig transfers and calls with fees and nonces given, absent or undefined; a deploy, or a multi-sig transfer with signers in and out of order), two sponsors (256 thousand states) | `BuiltVerifiesIffInOrder`, `EstimateCoversSize`, `SponsorsStayApart`, `OnlyOvertakenIsRefused` |
| `wallet` | two devices, two applications, at most two accounts (2.6 million states) | `FreshSaveOnlyAdds`, `ResolvedChangesAreStored` |
| `formats` | several hundred contents, written, read and written on twice, Clarity values also cut short at every byte, values and transactions also as views (21 thousand states) | one property per format, below |
| `signin` | an application and a relying party, two keys, two prefixes, three times | a violation (finding 3) |

Each passing run also checks its component's `TypeOK`. No run checks for deadlock: pages may stay idle, operations run once, a content is
read at last, and the bounds end what users do.

The properties of `formats` say for every content whether it is read as it was sent, so each also states the exceptions
the code has, as an equivalence:

* `ValueIsRead`: all Clarity values but those with characters above 127 in an ascii string, a byte order mark at the beginning of a utf8 string or a contract name, and over-long contract
  names. Out of a view, only values that take no bytes of their own (truth values, `none`, empty buffers, strings, lists and tuples).
* `CutLosesTheLastLeaf`: a value cut short is refused or has lost part of its last leaf only, and byte order marks.
* `TransactionIsRead`: all transactions whose numbers fit, whose memo leaves a byte, whose strings begin with no byte order mark and whose keys are compressed; none out of a view.
  `RelayKeepsBytes`: writing a read transaction gives the same bytes, for uncompressed keys too, but not with a byte order mark or a full memo.
* `ArgumentIsAccepted`: what is made for an argument is accepted for it; what was accepted before sending is after it. The reverse holds but for a byte order mark, without which a string may fit.
* `TextIsRead`: base58 but for all-zero bytes, base64 always, c32 and addresses but for a byte order mark before a zero; and c32 is the number in base 32.
* `SignedIsRead`: the signature of a token gets back its width and its payload is read; a message is decoded whole and verifies as itself and nothing else, across the growth of its
  length prefix. `StructuredIsVerified`: a structured message verifies under the domains of the same octets and chain, but for one in hex with a string that begins with a byte order mark, which never does.
* `SignInTokensAgree`: which requests a wallet takes, how long a response is valid, what the session gets of it and what travels in clear.
* `SignInIsRead`: which messages their own parser reads.
* `UploadIsAsForetold`: the foretold size of an encrypted file is right to the byte up to the length of its DER signature, and who can read it.
* `ZoneFileIsRead`: which zones are parsed as they were printed; an empty name is printed as `@` and a ttl of 0 not at all, of a SOA record too.

**Why the bounds are enough.** Tabs interact pairwise through one item: with two tabs each sees the
other's writes in all orders, and each can be loaded, closed and reloaded in between. Three requests are two
overlapping authentications and one request of another kind, which is what the captured list of accounts, the shared status
and the persist await can go wrong with. `MaxCalls` bounds the calls a user may repeat without limit; four
(three with throwing callbacks) hold load, network switch, sign out and reload, or two loads and two
sign outs. Requests are used once each. In `gaia` two writers and a reader are the
smallest instance in which a reader finds a mixture and a retry races another writer;
two faults reach a failed retry, or a lost answer followed by a conflict. Each guess of `getFile` meets contents that fool it.
`gaia_settles` leaves out the reader's race, which liveness does not depend on, and has three faults: both attempts of the put and a call of its companion fail.
Of the two-of-three account, one key more than required can be signed with or appended, in each of the three
places, by a party that signs twice or takes over from the other; of the one-of-two account the uncompressed key can be appended in either place. Three (for single-sig: four) circulating copies
hold two different partly signed ones next to the unsigned one. `MaxFields` is three, the number of keys.
In `builder` two calls of one account race for a nonce and two sponsors for one object; three mined transactions
(`MaxNonce`) let a nonce be overtaken by each of the other results. In `wallet` two devices make each of the pair
(older config, newer save); the second account is the one an older config lacks. `formats` makes fields one or two
bytes wide (the code's widths are constants: `IntBytes`, `HashBytes`, `MemoLength`...), so that both
ends of each range, the lengths at which a prefix grows, full and overfull memos and strings, and every leaf of a value alone, nested
and next to every other are among the contents.

**Fairness.** `client_drain` and `client_pingpong` assume that the browser delivers each storage event to a page that is open,
that the promise of `onPersistState` settles and that a token gets made: the first is the event loop, the others are
the application's own promises and local cryptography. A user need not act, close a page or answer the wallet. In
`gaia_settles`, some call that awaits the hub is handled as long as there is one (an HTTP request that is neither answered nor failed for ever would
leave its caller waiting: the code sets no timeout), and a settled promise runs its continuation.

## 4. Findings

1. **Tabs can answer each other for ever** (`client_pingpong`). `onStorageUpdate` hydrates with `setState`, which the
   middleware writes back. `signOut` removes the item and then writes it, so another tab gets a `null` event first, hydrates
   to the default network and writes that. If the network had been switched, each tab then takes over what
   the other just gave up, and the two networks swap for ever. `client_drain` shows that without network switching it ends.
2. **A multi-sig origin cannot be sponsored** (`signer_sponsor`). `createSponsorSigner` verifies the origin,
   then the constructor refuses it as oversigned, which it is whenever it verifies.
3. **A sign-in message never verifies** (`signin`). `SignInWithStacksMessage.verify` (`siwms/index.ts:285`) passes
   neither a key nor an address to `verifyMessageSignature`, which throws for that before its own `try` (`verify.ts:67-70`). The catch in
   `verify` leaves the signer's address undefined, which differs from the message's, so every signature is refused; the
   test in `siwms.test.ts:45` expects success.

### Observations

Met while modelling. No run is devoted to them; where they bear on a property, its statement names them.

* *Client*: the test for a known account (`micro-stacks-client.ts:369`) compares arrays with `===`, so signing in again saves an account
  twice. `setOnNoWalletFound` (195) writes `config.onPersistState`, which shows at the next hydration.
* *Storage*: a 500 makes a plain `Error` (`errors.ts:384`) that `isRecoverableGaiaError` does not know, so it is not retried.
  `putFile` does not encrypt by default (`put-file.ts:25`), though the option's documentation says so. An encrypted file without a private key is
  stringified twice (118) and cannot be decrypted; with one it is signed even if `sign` was not asked for, and is then larger than foretold.
  The size is checked only with a `cipherTextEncoding` (42).
  `getFileSignedUnencrypted` returns an empty text without looking at its signature (`getters.ts:194`). `getFile` with `decrypt: false` still decrypts, or refuses, plain contents that have the words of
  an encrypted file (`get-file.ts:44-49`). The loader removes the first hyphen of a charset only (`file-content-loader.ts:42`).
* *Wallet config*: `restoreWalletAccounts` returns only the accounts it added; `addNewAccountToWalletConfig` resolves with the config as it was
  before; a failed read overwrites the stored config.
* *Builders*: an explicit `fee: undefined` throws (`make-stx-token-transfer.ts:54, 66`); the synchronous override sets a given fee and nonce to 0 (104-106);
  the nonce of a multi-sig account is looked up for a single-sig address of its hash (113-122); a multi-sig estimate leaves out the signatures;
  `sponsorTransaction` changes the fee of a standard transaction before it throws (61), and leaves an unsigned sponsor in the caller's object.
* *Signing*: an uncompressed key of a multi-sig account is appended as it is but comes back compressed from a serialized copy (`authorization.ts:132`), so that such an account's transaction verifies only
  where nobody serialized it.
* *Bytes*: `TextDecoder` drops a byte order mark that a string, name, memo or code body begins with (`encoding-utf8.ts:6`), so such a transaction is relayed with other bytes; a value or transaction given as a view of a larger
  buffer is misread (`buffer-reader.ts:63`), without an error for most.
* *Transactions*: a memo of 34 bytes loses its last one (`types.ts:317`); amounts out of range are not checked (`payload.ts:173`, `postcondition.ts:139`);
  the principal of an `Origin` post-condition is read as if a contract name followed (`types.ts:274-289`).
* *Clarity*: `intCV` refuses integers in range whose hex form is odd and longer than 16 digits (`intCV.ts:26`); `stringCV(x, 'utf8')` makes an
  ascii string (`stringCV.ts:26`); `contractPrincipalCVFromStandard` does not check the name's length. `matchType` accepts tuples with more keys than the type has (`contract-abi.ts:233-252`).
* *Encodings*: `decodeB58` gives one byte more for zeros alone and accepts characters of no alphabet; `c32encode` drops a byte order mark (`c32/index.ts:118`).
* *Sign-in*: `verifyAuthResponse` is never true for a response with a user name, since it looks for a Stacks address among Bitcoin ones (`verification.ts:166-176`);
  `verifyAuthRequest` refuses every request this library makes, which has no issuer and no manifest; the app private key of a session is bytes (`decode-auth-response.ts:33-36`); a core token without an
  app private key travels in clear (`wallet-sdk/auth/index.ts:77`). `'Chain ID: ' + this.chainId || '1'` (`siwms/index.ts:125`) never takes its default; addresses of 40 characters are not parsed.
* *Structured messages*: without a chain id in the domain, one is signed with the network's and verified with the main chain's (`structured-message.ts:46, 62`).
* *Zone files*: a policy is taken apart by the words in it (`parse-zonefile.ts:65, 243`), those of the types that are looked for before it, a semicolon cuts its line even in quotes, a zone without SOA record is parsed with one.

## 5. What is proved

TLAPS proves these for every value of the constants that meets the named assumptions
(`NetworkAssumption`, `NoItemAssumption`, `ClientAssumption`; `GaiaFilesAssumption`, `NoFileAssumption`, `EmbeddedAssumption`, `DataAssumption`,
`GaiaHubAssumption`; `TransactionAuthAssumption`, `SignerAssumption`, `BuilderAssumption`; `WalletAssumption`; and those of `TextFormats` and the modules it extends, below). They only say that constants have their type,
that every key has a twin in the other encoding, that the text of an encrypted file has the words of one, that the markers for "nothing" differ from values, and what the builders' TypeScript types say of a request (a single-sig account has one key and signs with it, a deploy is
single-sig and signed, only transfers have a synchronous form; `sponsorTransaction` treats `undefined` as absent, `sponsor-transaction.ts:42, 65`). TLC evaluates all of them in every run of the module.

* `ClientProofs!TypeCorrect`: `Spec => []TypeOK`.
* `ClientProofs!Agreement`: `Spec => [](QuietTabIsStored /\ TabsAgree)`, for any number of tabs and requests, throwing callbacks included. The inductive
  invariant is `TypeOK /\ QuietTabIsStored /\ TabsAgree`. `TabsAgree` alone is not inductive: nothing would tie a tab without events to the writes of the
  others. `QuietTabIsStored` does: such a tab shows the item, so a write of another tab either leaves the item as it is or queues an event. Conversely, the
  item is gone after a throwing `onSignOut`, so that `QuietTabIsStored` says nothing, and there `TabsAgree` carries the argument. `Writes` states
  once what all the writing actions have in common.
* `ClientProofs!SelectedAccountExists`: `Spec => []CurrentAccountExists`. A state comes from a string, and a string from a state of another
  tab, so `SelectableInv` says it of all of them: the states of all tabs (closed ones too), the item, every queued event and the cookie.
* The second half of `ClientProofs` is about a client alone in its browser (`Alone`: one tab, callbacks that do not throw).
  `SessionRefinement`: `Spec => StoredSessionSpec`, the stored session implements `StacksSession`. `SessionInv` says that an open tab shows the
  item, that an open request belongs to an open tab, and that before the first page load there is neither an item nor a cookie; each step is
  then a `SignIn`, `SignOut` or `SwitchNetwork` of the abstract session or leaves it as it is. `OnlyWalletSignsIn` (`SessionOnlyFromWallet`) follows from the same
  invariant. `IdleWhenNothingPending` and `LoadingWhilePending` also assume token makers that do not throw (`~TokensFail`); their invariant `StatusInv` is the conjunction of
  the two, which needs `SessionInv` and `TypeOK` for the requests' tab.
* `GaiaProofs!GaiaTypeCorrect` and `GaiaProofs!VerifiedReads`: a verified read returns only what the owner signed or the empty string, for any operations, faults and
  order of calls. `GaiaInv` adds to `TypeOK` that calls belong to started operations and that those waited for are complete
  (`CallsInv`), and that each file on the hub or on its way to a reader was made by a put (`FilesInv`). A signature
  file of the owner's over some data is then a put's, and `SignedOutcome` compares it with the contents.
  `GaiaProofs!DecryptedReads` follows from the same invariant: what a decrypting read returns was encrypted, in the file it came from or in the one whose text that file is, for the key of the read, and
  in an envelope of the owner's if it was verified.
* `GaiaProofs!LonePuts`: a put during which nothing else runs has stored its files when it resolves. It needs an invariant of its own, `LoneInv`:
  while the operation that started last is a put without company, every call under way is one of its own, and each that was answered "ok"
  has its file on the hub. Without the first part an old call of somebody else might still overwrite the file; the second is what `Promise.all` waits for.
* `SignerProofs!SignerTypeCorrect` and `SignerProofs!NoOversigning`: no transaction or signer has more signatures than its account requires, for any
  parties, keys and copies, if `"concurrent" \notin Misuses`. The check of `signOrigin` comes before its await and the signature after it,
  so the bound alone is not inductive: `Reserved` says that a signer has at most one signature under way and, if so, a place left for it. With
  overlapping calls the assumption fails, and so does the property.
* `SignerProofs!SignersAreInStep` and `SignerProofs!CompleteTransactionsVerify`: a signer signs over the hash that verification will reach, and a
  transaction verifies once its fields are the keys of its account with enough signatures, for any parties, copies and accounts of any size. They hold if
  `Misuses \subseteq {"anyKey"}` (fields may even be added out of order and for keys of others) and `CosignersCompressed`: the keys that sign multi-sig
  transactions have the 01 suffix, as the constructor takes for granted (`signer.ts:45`: "always compressed for multisig") while `verify` goes by each field's own
  encoding. Keys of any encoding may be appended, and copies may be serialized: `AuthProofs` shows that the compressing of their fields changes neither the hashes nor the types (`DeserializedVerified`), and that it changes no key that
  `CompleteVerifies` asks for. `SignerProofs!SponsoredTransactionsVerify` (`Misuses = {}`, any encoding): what a sponsor signed verifies in whole in every copy.
  The properties speak of transactions handed on, which says nothing of the next signature; the invariant `CosigningInv` therefore says of each signer
  that its hash is that of its transaction's fields (`InStep`), that each signature under way was made over that hash (`UnderWay`), and of every transaction, complete or not,
  that verification finds the key of each field it has (`Faithful`). A call that overlaps another, or a fee that changes under one, breaks `UnderWay`, and then the properties.
* `BuilderProofs!BuilderTypes`, `BuiltTransactionsVerifyInOrder`, `EstimatesCoverSize`, `SponsorsDoNotMix` and `OnlyOvertakenAreRefused` state all properties of
  `TransactionBuilder`, for any number of concurrent calls, requests, fee rates and keys. Their invariant is `ResultsInv`: what each call has at each await
  (`IsCall`: the request's terms, no fields until it signs, a price that matches the size), what a builder returned (`IsResult`), what a sponsor has and returned (`IsSponsor`),
  that what was sent of a standard transaction is still what was returned (`DeliveriesInv`), and the node's types. None of the properties is inductive alone: a result's
  price and nonce come from answers two awaits earlier, and a sponsor writes into the object that another one reads. A looked-up nonce is refused only when it was used up after the lookup, or another transaction in the pool has it: the lookup knows of mined transactions only, so that other one may have been there before. That the sponsors stay apart rests on two facts: the
  origin's signatures cover neither the sponsor nor its fee, so that whoever writes last leaves them valid; and each sponsor returns a copy.
  The equivalence in `BuiltVerifiesIffInOrder` rests on lemmas about the loops: `SignedAll`, `AppendedAll` and `RemainingIsRest` say what they make of signers in order, and
  `OrderMatters` that any other choice of as many signers leaves other keys than the account's.
* `WalletProofs!WalletTypeCorrect` and `WalletProofs!SavedChangesStay`: `Spec => [](FreshSaveOnlyAdds /\ ResolvedChangesAreStored)`, for any devices, applications and accounts.
  `WalletInv` adds that a fresh config in memory extends the stored one (`FreshMemoryExtends`), without which a save made of it might
  not, and that a save holds what its call will promise (`SaveIsAsPromised`), without which an answer might promise more than was stored. An `update` is stored from
  a config that was changed in place, so its device stays fresh even if the answer is lost.
* `TextProofs` is about `TextSpec`, for contents of any length and number. Its assumptions say what the code's types, constructors and constants do: `EncodingsAssumption` (a chunk of
  base64 has a multiple of three bytes), `SignedMessagesAssumption` and `PrefixAssumption` (a signature fits in DER's short form; the two message prefixes start with different lengths),
  `AuthTokensAssumption` (a second is some milliseconds, no time is null), `SignInAssumption` and `SignInsAssumption` (a missing field is no line; a sign-in message is what its constructor accepts), `EncryptedAssumption`, `AuthAssumption`, `SignedAssumption` and `TextsAssumption` (files, requests,
  responses, tokens, messages and texts have the shape of what their functions are given; a message is shorter than 2^32 bytes).
  The base of all is `WireInv`: the content on the wire is one that was written, the first reader's text is `EncodeText` of it, and what a reader `got` is `DecodeText` of the wire.
  * `SignInTokensHold` (`SignInTokensAgree`): which requests a wallet takes, how long a response is valid and for whom, and what the session has of it. Requests and responses are not relayed, so `WireInv` is enough.
  * `UploadHolds` (`UploadIsAsForetold`): the size `putFile` foretells is compared with the length of the text that the functions of `Ciphertexts` put together, member by member, with the padding of AES and the growth by
    base64, for contents of any size; and the file is decrypted by its recipient only. It needs `Utf8Decoded`: `TextDecoder`, a loop over bytes, gives back the string whose bytes it gets, but for a byte order mark at its beginning. A file that begins with one loses it, which `UploadIsAsForetold` allows for; the payload of a token, which is JSON, never does.
  * `SignInHolds` (`SignInIsRead`) and `SignedHolds` (`SignedIsRead`) hold however often a content is written again, and need the stronger `KeptInv`: as long as a content is of a kind in `KeptKinds`, the wire holds `EncodeText` of what was *first* sent.
    It is kept because these kinds are read as they were written or not at all (`KeptAreFaithful`), so who writes on what was read writes the same text. `SignInFaithful` follows the lines of a message through the parser's regular expression;
    `TokenFaithful` and `MessageFaithful` rest on the theorems that come next.
  * `Base64Decoded`: base64 is read as the bytes it was written from, with its padding and without, for any number of chunks. Writing regroups three bytes into four digits and joins the chunks, so the argument is an induction over the triplets
    (`TripletsOfParts`), then over the chunks, and a case for each number of bytes over (`EncodedShape`); reading is `DigitsDecoded`.
  * `SignatureKept`: `JoseToDer` undoes `DerToJose` for every pair of integers that secp256k1 can give. The integers of DER have one byte more if their sign bit would be set and fewer if they start with zeros, those of JOSE always `ParamBytes`; the proof
    shows that `CountPadding` finds the same padding that was taken away.
  * `MessageDecoded` and `OneMessage`: a message is read back whatever width its length takes, and of two different messages no signed text is the same, under the same prefix or different ones. The latter is what a verifier relies on.

**Induction over data.** The library's induction theorems take an operator as a parameter, which the installed provers cannot instantiate. `SequenceFold` goes
around it: `LeastNatural` takes a least element from the library's `NatLessThanWellFounded` and `WFMin`, which speak of sets; `NaturalInduction` and `SequenceInduction` are induction
stated for a set of naturals or sequences; `FoldEmpty`, `FoldAppend` and `FoldConcat` say what a loop does, for any `Step`. They are tools, not results: they hold whatever the code does. The module's parameter `Step` is given by `INSTANCE ... WITH`, and
the theorem is cited as, say, `Verification!FoldAppend`.

Only model-checked: of `formats`, `TextIsRead`, `ZoneFileIsRead`, `ValueIsRead`, `CutLosesTheLastLeaf`, `TransactionIsRead`, `ArgumentIsAccepted`, `StructuredIsVerified`, `RelayKeepsBytes` and its `TypeOK`;
and all liveness (`TabsConverge`, `OperationsSettle`), which is beyond the prover. `ClarityValues`, `ContractAbi` and `Formats` declare RECURSIVE operators (a value nests in values), in whose presence tlapm loses its SMT backend, so no module with a
theorem reaches them; the properties of values, transactions, arguments and structured messages are stated there, as are `RelayKeepsBytes` and `TypeOK`, which speak of all kinds. `TextIsRead` and `ZoneFileIsRead` could be stated of `TextSpec`: their functions are loops
that `SequenceFold` covers. Missing are the arithmetic of a change of base, a division of a number of any length, for `TextIsRead` (of its codes, base64 is proved), and a case for each of the eleven record types and their words for `ZoneFileIsRead`.
The invariants of `signer_sponsor` and `signin` do not hold (findings 2 and 3).

## 6. What is not modelled

In the client: the polling for a wallet (`subscribeToStacksProvider`) and its absence, custom storage
adapters. In the bindings: their reactive plumbing. In the storage: hub configs and their tokens, reads of other
users' files by name, profiles, which are sequences of requests that keep nothing. In the signing: a direct `signSponsor` on a caller's own
signer, `setSponsorNonce`. In the formats: printing for people (`cvToString`, `abiFunctionToString`), JSON texts other than by their length. Key
derivation, hashes, curves and ciphers are symbolic everywhere. `network` and `api` only build urls and pass requests on, `crypto-extras` chooses an
implementation of a primitive, `create-ustx` copies files.

## 7. Plan

1. Signing: a direct `signSponsor`, the partial hand-over of sponsored multi-sig transactions (`signer.ts:41`).
2. The client: a wallet that is installed later, an adapter that answers asynchronously.
3. Proofs: base58 and c32 for inputs of any length, from lemmas about long division, and zone files; and the hub's two files as an implementation of one atomic file for operations that do not overlap.
