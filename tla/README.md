# GreenWeb.js in TLA+

GreenWeb.js is a TypeScript library for Chia applications. An application calls a *provider*
(a full node over a WebSocket, a browser wallet, a key in memory, or several of these), builds
coins and their spends with helper classes, signs them and pushes the result. These modules model
the parts of it that keep state, wait and are interrupted, the builders of coins, the algorithms
that tie the spends of a bundle together and sign them, and everything that is written as bytes or
text and read back. Paths below are relative to the repository.

## The system

| Component | State | Operations | Modules |
|---|---|---|---|
| `MessageManager` (`src/xch/providers/leaflet/message_manager.ts`) | `open`, `_canSendMessage`, `_filters` (with the time of each last message), `_msgChannel`, the controller promise | `initialize`, `close`, `registerFilter`, `_handleMessage`, `_controllerFunction` | `MessageManager`, `RequestService` |
| `ChiaMessageChannel` (`chia_message_channel.ts`) | `ws`, `inboundDataBuffer` | `connect` and its callbacks, `close`, `isConnected`, `sendMessage`, `messageHandler` | `MessageChannel`; the socket in `MessageManager` |
| `LeafletProvider` (`leaflet_provider.ts`) | `blockNumber`, the filters it registers | one method per request, subscriptions | `LeafletProvider` |
| `GobyProvider` (`goby_provider.ts`) | `_address`, `_network`, `_callbacks`, `_callbacksInitialized` | constructor, `connect`, `close`, `subscribeToAddressChanges`, two wallet listeners | `GobyProvider` |
| `MultiProvider` (`multi_provider.ts`) | the list of providers, one loop index per call in flight | every method of `Provider`, `connect`, `close` | `MultiProvider` |
| `XCHModule` (`src/xch/index.ts`) | the static provider | `setProvider`, `createProvider`, `clearProvider`, a wrapper of every method | `XCHModule` |
| `PrivateKeyProvider` (`src/xch/providers/private_key/`) | its key, its network | `signCoinSpends`, `changeNetwork` | `Signing` |
| `SpendModule` (`src/spend/index.ts`) | none (it extends its caller's arrays) | `bundle`, `bundleCATs`, `bundleStandardCoins`, `subtotalsForDeltas`, `launchSingleton`, `useP2SingletonCoinsConditionsAndCoinSol`, condition builders; `merge` | `SpendBundle`; `Signing` |
| `SmartCoin`, `StandardCoin`, `CAT`, `Singleton` (`src/*.ts`) | a coin, its puzzle, solution, keys, lineage | constructors, `copyWith`, the with-methods, `curry`, `spend`, added conditions | `SmartCoin`, `StandardCoin`, `CAT`, `Singleton` over `CoinTerms`; `CoinBuilders` |
| `Serializer` and its types (`src/util/serializer/`) | none | `serialize`, `deserialize`, every field type and class | `Serializer`, `WalletTypes`; `Encodings` |
| `CoinUtil`, `Util` (`src/util/coin.ts`, `index.ts`) | none | `amountToBytes`; `formatToken`, `parseToken` | `Amounts` |
| `KeyUtil` and mnemonics (`src/util/key/`) | none | `bytesToMnemonic`, `bytesFromMnemonic` | `Mnemonics` |
| `SExpUtil` (`src/util/sexp/index.ts`) | none | `curry`, `uncurry`; pairs to sign; puzzles and solutions | `Currying`; `Signing`; `CoinTerms` |
| `NetworkUtil` (`src/util/network.ts`) | none | `getGenesisChallenge`, the list of networks | `Signing` |

`Encodings` composes `WalletTypes`, `Amounts`, `Mnemonics` and `Currying`. `MC*` modules give the
constants of the runs their values, and the `*_proofs` modules hold the theorems.

How they interact. `LeafletProvider` owns one `MessageManager` and registers a *filter* for every
call: a predicate on messages, a message to send, a promise. The manager's controller owns a
`ChiaMessageChannel`, which cuts the byte stream of a socket into messages and calls back
`_handleMessage`, which offers each message to every filter. When a socket dies or a filter waits
too long the controller makes a new channel and sends the message of every filter again.
`MultiProvider` calls other providers in order and takes the first answer; `XCHModule` makes one
and hands every call of the application to it. `GobyProvider` follows the answers and events of a
wallet and calls the application's callbacks. Applications build coins, pass them to `SpendModule`,
have what it returns signed in one or more parts, merge the parts and push the bundle. The
serializer makes the messages of the channel and the spends of a bundle.

What is hard. JavaScript runs one turn at a time, so all interleaving is at an `await`, a callback
or a timer: a request is registered while the link is being rebuilt; `close()` arrives during
`createMessageChannel`; `initialize()` while an old controller is alive; a late answer meets a
retried request; callbacks register filters or close the provider inside the loop that calls them;
a provider disconnects between the test and the answer; the static provider is replaced while calls
are in flight. Messages carry no request id, so matching an answer to its call is a question of
which fields a filter compares. Sockets fail silently. Coins are built by chains of calls, each of
which derives some fields from others and must not leave an older one behind. Encodings have edges
at the powers of two, at lengths and at the end of the buffer. Nothing is persisted, so there is no
crash recovery. `PROJECT.json` lists every such hazard with its line and the properties that would
catch it going wrong.

What makes each part correct:

- **Manager**: no request is forgotten, sent twice over one socket, or rejected because a socket is
  still connecting; every message reaches every filter; an open manager is driven; a closed one
  leaves no current link; with a node that answers, requests are answered.
- **Channel**: messages come out whole, once, in order, for any chunking.
- **Leaflet**: an answer is one to a call of the same kind, height and hash; every call returns.
- **Goby**: address and network follow the wallet; subscribers agree with the provider; one
  registration of the listeners survives any sequence of connects and closes.
- **Multi, XCH**: a call is answered by the first provider that can, whatever is set meanwhile, and fails
  only when none can; `connect` and `close` reach all.
- **Bundle, signing**: one fee, each output once, announcements that match, a ring of CATs that
  balances, a launcher that a spent coin creates; after merging, exactly the signatures asked for.
- **Coins**: the puzzle of a coin is the one of its puzzle hash; what an object is depends on the
  values given and not on the order of the calls.
- **Encodings**: what is written is read back as it was, and what was damaged is refused.

## Modules

`RequestService` is the abstract specification: what a caller of `registerFilter` is promised,
without sockets, controllers, timeouts or restarts. `MessageManager` implements it under
`waiting <- filters \ {Peak}`, `asked <- {f : ~Fresh(f)}`, and `LeafletProvider` is written on top of
that promise (its `HandleMessage` is a `Broadcast`), plus the fact that a new link carries every
registered request again. `MessageChannel` justifies that messages arrive whole and in order.

**MessageManager.** One action per stretch of code between two awaits.

| TLA+ | Code |
|---|---|
| `RegisterFilter(f)`, `SendIfPossible` | `registerFilter`: push, then send if `_canSendMessage`; `send` on a connecting socket throws and rejects the promise |
| `Initialize(k)`, `Close` | `initialize` with the filter for peaks (`Peak`); `close` up to its await |
| `controller[k]` | where the k-th call of `_controllerFunction` stands: `restarting` (backoff sleep and `createMessageChannel`), `connecting` (`connect()`), `sleeping`, `done`, `failed` |
| `CreateChannel`, `CreateThrows`, `ConnectThrows`, `Connected`, `Check` | the controller's steps; `Connected` is the resend loop and the next round |
| `NextRound(k, cs, od)` | the head of the loop from its test to the next await: end, backoff or sleep |
| `HandleMessage(c, m)` | `_handleMessage`, with the filters its callbacks register during the loop |
| `overdue`, `Expire(f)` | the clock: the filters with `lastMessageReceived + expectedMaxRensponseWait < now` |
| `socket[c]`, `SocketOpens`, `SocketFails`, `Arrives`, `Lose` | the WebSockets and the node (partly external); a closed or missing socket drops what is sent |
| `sent`, `resent`, `rejected` | history: what each socket carried, and which promises were rejected |

The socket of channel `c` and the channel are one: `isConnected` is asked of `socket[msgChannel]`.
`SocketOpens` resolves `connect()` at once in the code; the model lets other steps come between, as
a custom `IWebSocket` may.

**MessageChannel.** A byte is its position in the stream, so order and loss are visible. The
handler's `do` loop is cut into steps (`Misread`, `TooShort`, `Incomplete`, `Consume`), between which
nothing else runs. `TooShort` is the RangeError of `readUInt32BE`. A chunk may be a Blob, whose bytes
are awaited (`BlobRead`), and may then be overtaken; what
follows may be misread.

**LeafletProvider.** `Call(a)` is any of the ten request methods with arguments `a`. `Refuses` are the
early returns: for a hash that `validateHashString` refuses, in a list too (`NoList` is a list that is
left out), and in `getBalance`, which ignores what `validateHashString` says, for an address that does not decode
or for neither address nor hash (`NoHash`). Each method's `consumeMessage` is
an operator of its name: the message types it accepts and the fields it compares; `Consumes` picks
the one a call registered. `HandleMessage` is one message handled by the peak filter of `connect`
and by every waiting filter. `Echo` is the conversion a hash goes through on its way to the node and
back (lower case; an invalid one comes back as something else). `Reconnect` and `LinkDies` are what
the manager and a forgotten socket do; `Replied`, `NewPeak`, `CoinChanges` are the node. Contents of
replies are abstract: a reply records the call it is really about (`of`).

**GobyProvider.** `changeAddress` is `_changeAddress`; `Tell` is its loop over the callbacks, cut short
by one that throws, and run again inside by one that closes the provider. The wallet is external:
it answers a request or refuses it and sends events, all delivered in order.
`walletSwitchChain` and friends change the wallet (`ChainChanges`), not the provider;
`transferCAT`, `acceptOffer`, `transfer` and `signCoinSpends` only forward.

**MultiProvider.** `GoesOnFrom(c, l, i)` is the loop over the list `l` from index `i` to its next await
or its end; `Answers` and `Throws` are how the await ends. Every call keeps the list it was made with.
`Connects` and `Disconnects` are the providers, which may gain and lose their connection on their own (a wallet
answers its constructor's request, or its user changes the account). A provider may throw after
it carried out the call, as `GobyProvider.subscribeToAddressChanges` does when its callback throws: `Throws` is that as well. A
synchronous method (`getNetworkId`, `getAddress`) is the case in which the answer comes in the step
of the call. `same[c]` is history: the providers whose connection did not change during a call.

**XCHModule.** Extends `MultiProvider` by the static provider and its three setters. `createProvider`
makes new providers (`New`, put in the order of the code by `Pushed`: wallet, node, key), unless the private key is invalid and its
constructor throws (`InvalidKey`), and `Wrapper` is any
method of `greenweb.xch`: "Provider not set!" or the provider of the moment. `setProvider` is given
an application's MultiProvider, which the application may also call directly (`Lists`).

**SpendBundle.** Three actions. `Call` is `bundle` over all lists of coins: `Conditions` adds the first
coin's and the others' conditions, which a coin takes unless its solution is of an unusual form (`Taken`); `TheAnnouncement`, `PushedToCATs`, `PushedToStandard` and
`OthersAssert` follow `bundle`; `deltas`, `subtotalsForDeltas` and the ring indices follow
`bundleCATs`. `Launch` is `launchSingleton` (through `bundle`), `UseP2Coins` is
`useP2SingletonCoinsConditionsAndCoinSol` and the spend of the singleton with what it returns. A coin
is its id, and a hash of names is the list of names. A coin has conditions of its own, or a
solution from which none are parsed (`Parses`).

**Signing.** Extends `SpendBundle`. Its spends are divided among owners, who sign them on the network
they are on (`signCoinSpends`, `changeNetwork`) or on a custom challenge, or left unsigned, and
`merge` puts the pieces together. A signature is the sequence of the key and message pairs in it,
so aggregation is concatenation.

**CoinTerms, SmartCoin, StandardCoin, CAT, Singleton.** Puzzles and hashes are terms: `sha256tree` is a
constructor, `CATPuzzle(hash, inner)` a record. A coin is the record of its fields with `Null` for
undefined, and `New(args)` is the constructor as one expression, in the order of its assignments.
`Or` is `??`/`||`. Hashes keep whether they start with `0x` (`zeroX`), because comparisons do. `With` is the
set of with-methods a class has that do anything.

**CoinBuilders.** An application with variables that hold coins: `Construct`, `CallWith`,
`CallCopyWith`, `AddConditionsToSolution`, `AddConditionsToInnerSolution` (both also change the
object they are called on), `Curry`. `given` is history: the last value given for each parameter.

**Serializer, WalletTypes, Amounts, Mnemonics, Currying, Encodings.** A field is a record of its kind and
parts with the values it may have and its two functions, `serialize` and `deserialize`, as its builder in
`types/fields` returns them, and `WalletTypes` has one definition per class of `src/util/serializer/types`, in its
order of fields: `a ++ b` are the properties of an object one after the other, `a ** b` the elements of a
tuple. Every deserializer gives a value and what it leaves of the buffer, or `Refused`; `Take` is the read
that refuses a buffer that is too short. The bytes of an S-expression are clvm's (`sexpToStream`).
`amountToBytes` follows the code's steps on bits; a text is a
sequence of digits, `Dot` and `Letter`; an entropy is its bits and a hash is a constant operator
(`StdHash`). The loops of `uncurry` go `MaxRounds` times, more often than a list of the programs here has
elements. In `Encodings` a value is written, perhaps damaged (`Cut`, `Extend`, `MistakeWord`), and read; `ReceiveAck` is an
acknowledgement of a node, which writes the class as it is declared, with an error (`NodesTransactionAck`).

The operators whose names say what they drop (`ConnectedForgets`, `IgnoresMessageId`,
`GivenHash`, ...) are plausible faults of the code. `PROJECT.json` pairs each property with one
that breaks it.

## Runs

| Run | Question | Bounds |
|---|---|---|
| `manager` | Is the manager safe, live, and an implementation of `RequestService` with one controller at a time? | one request and one subscription that accept the same answer, the subscription's callback may register the request; two initializes; one socket failure or timeout; three channels |
| `manager_overlap` | What survives an `initialize()` while a controller is alive, and a channel that throws? | one request, two controllers, three channels |
| `manager_close` (violation) | Does `close()` leave no socket? | one initialize, two channels |
| `channel` | Is framing right for every chunking, Blobs and throwing handlers included? | three frames (with and without id and data, 23 bytes), two Blobs awaited |
| `channel_length` (violation) | Is the buffer "big enough to contain the length"? | the same |
| `leaflet` | Does a call get the answer to a call like it, over links that are replaced, and return? | every ordered pair of 20 calls, two links, two messages in flight per link, one block, one change |
| `leaflet_list` (violation) | Does a call for all coins of a block get all of them? | pairs of 4 calls whose replies look the same |
| `goby` | Do address, network and subscribers follow the wallet? | two accounts, three callbacks (one throws, one closes), three requests, three changes |
| `multi` | Is a call answered by the right provider, and do the loops end, while the static provider is replaced? | a wallet, a node and a key; a MultiProvider of the application and what `createProvider` makes; `changeNetwork`, `connect` and `close` overlapping; one fault (a throw, or a connection or disconnection of a provider's own) |
| `bundle` | Are the spends tied together in every mix of coins, and exactly signed after merging? | every list of up to four of nine coins, eleven choices of outputs for CATs, two for standard coins, with and without fee; launched amounts 1 and 2; two coins locked to a singleton; two owners, up to two spends and two pieces, two networks, a custom challenge and a network without one |
| `coins` | Does the order of calls matter to a coin? | one variable, chains of every call with one to three values for each parameter, two conditions in a solution |
| `encodings` | Is everything read back as it was written, and damage refused? | 30 classes in three samples each, cuts within 40 bytes of either end, amounts around the powers of two up to 2^24 and their negatives, units of 1, 10 and 1000, all texts of up to four of {0, 5, dot, letter}, entropies of six lengths, five words, programs with up to three arguments (`MaxRounds` is 4) |

Why the bounds are enough. In the manager every hazard is between one controller step, one
registration and one failure; three channels allow two restarts, so that a restart during the
consequences of another is seen, and two initializes a second life of the manager with filters
left from the first. In the channel, three frames put every header next to a frame with and one without
an id; chunks of every size cut every header everywhere. In `LeafletProvider` a confusion is between two
calls; pairs of one method differ in each compared argument, and in `leaflet_list` in the one that is not
compared. Of the nine coins of a bundle one has a solution that takes no conditions. In `MultiProvider` a loop's decision
depends on its own index and what changed behind or before it; a list of three gives a before, a here
and a behind. A ring of four and lists with unsuitable coins at every position cover the index
arithmetic of `SpendBundle`; signing is per spend, so that two spends and two pieces show an order, an
overlap and a gap. In `CoinBuilders` a stale field needs one call that sets it and one that should have
replaced it; the search has no bound on the length of a chain, because the objects are finitely
many. One variable suffices since methods do not reach other objects than their own.
In the encodings, every kind of field occurs inside a list, an option and a tuple, empty, short and
at its largest value; with 40 bytes from either end each class's header, first and last fields are cut
at every byte, and short classes everywhere.

What the violations show (each is a finding in `PROJECT.json`, with the line of the document):

- `manager_close`: a restart for an overdue filter replaces `_msgChannel` without closing it, and
  `close()` closes only the current one. The old socket also goes on delivering messages.
- `channel_length`: the test `byteLength < 5` lets 5 bytes pass for a length that ends at byte 6 or 8.
  The RangeError leaves the buffer unharmed, which `FramesInOrder` and `NothingStuck` confirm: the stream
  recovers with the next chunk.
- `leaflet_list`: a call for all additions or removals of a block takes the reply to a waiting call for a list of them,
  because the filters compare the height and the header's hash only. `AnswerIsOwn` says what the code does compare.

## Other differences

Met while modelling, and kept in the models where they are in reach of them, but without runs of their own.

Providers. A filter for an acknowledgement takes any: nobody compares its `txid`, so all waiting `pushSpendBundle` calls
return what the first one says (`docs/xch/provider.md:610` promises the status of the bundle). An empty list of children
names no coin and answers any waiting `getCoinChildren` (`provider.md:402`). `subscribeToAddressChanges` of the wallet
provider keeps the callback before it runs it: when the callback throws, `MultiProvider` takes that for a method that is
missing and fails, with the callback subscribed; no other method of the repository acts and may then throw. The callback of a subscription (`provider.md:306`) never hears of
a change, which the node announces with `coin_state_update`: the filters accept the type of the first reply only.
`MultiProvider.changeNetwork` stops at the first provider that carries it out while `getNetworkId`
asks the first one connected (`provider.md:771`). `LeafletProvider.isConnected` (`provider.md:234`) is
the `open` flag, true while no socket is open. A late peak of a replaced link makes the block number fall
(`provider.md:255`). A `getBalance` with an invalid hash, or
any call with a hash in upper case, is sent and its reply never recognised (`Repeated` in the
properties). `GobyProvider` never asks for the chain, so it says mainnet until the first event; its
listeners outlive `close()`, so an event connects it again. `setProvider` and `clearProvider` leave the
replaced provider open.

Spends. A coin whose solution has not three elements takes no conditions (`standard_coin.ts:116`, `cat.ts:339`), and `bundle`
returns its spend without outputs, fee and announcement: `AssertionsHold`, `StandardCoinsAreLinked`, `OutputsOnce` and
`LauncherIsCreated` are about bundles of which every coin took its conditions (`AllTake`). `bundle()` extends its caller's arrays, so that a second call with them asserts the announcement
of the first. `signCoinSpends` throws for a network without a genesis challenge, and passes over puzzles that
fail. `merge([])` throws; spends given twice are merged twice. The lineage proof of a newly launched
singleton has the launcher's id as the parent's name (`src/spend/index.ts:408`).

Coins. The constructor of `CAT` constructs the puzzle before it calculates the hash of the TAIL program it was given, so a
CAT with a TAIL program, and so a hash, and an inner puzzle has no puzzle until it is copied (`docs/CAT.md:5` says that it
is determined automatically); `SettlesInOneCopy` and `RevealedTAILIsCurried` say what one copy repairs. `withPuzzle` is ignored by `StandardCoin`, `CAT` and `Singleton`, `withSolution` by `CAT` and
`Singleton`, `StandardCoin.withPuzzleHash` once a key is known. `SmartCoin.copyWith` with the same hash written
with `0x` drops the puzzle. `curry` drops the coin unless all of its parts are known. A lineage amount of 0
is taken for none. `CAT` writes into the `nextCoin` of its caller. `withTAILProgram` is overridden by
the TAIL of the inner solution; an empty TAIL solution is read back in a form that makes the next copy throw.
The methods that add conditions also change the object they are called on.

Encodings. `String` writes its length in UTF-16 units (`string.ts:8`) and so loses the end of
other texts than ASCII. `fields.Optional(fields.String)` is given the decorator's maker and not a field
(`wallet_protocol.ts:43`), which has no serializer: the error of a `TransactionAck` is neither written nor read, which
`DecodesOrRefuses` says. `SExp` serializes what it read again to find its length. `deserialize`
ignores trailing bytes. `parseToken` takes decimals beyond those of the unit as units ("5.05" is 55 where a unit is 10; `docs/util/index.md:63`
promises the number of units), up to one unit ("x.1000" where it is 1000): `TokensAreExact` says that this is the most it is
off. `formatToken` is exact for powers of ten only.
`uncurry` takes programs that were never curried for partly curried ones, gives null for no arguments and for an
atom as module, and throws when a module starts with a pair of pairs.

## Fairness

`MessageManager`: weak fairness of each controller's steps (timers fire, promises settle), of a
connecting socket opening or failing, of the node sending an answer, and of the handling of what arrived.
The number of failures is bounded, which stands for "failures stop at some time"; with failures for ever
no answer can be promised. Nothing is assumed of the application. Liveness is not claimed when
initializations overlap: two controllers may replace each other's channel for ever.
`LeafletProvider`: what arrives is handled, and the node answers over the current link; old links need not
deliver. `XCHModule` (the `FairSpec` of `multi`): a provider answers or throws, and one told to close
disconnects. That is an assumption about wallets, not a fact: a prompt that is ignored blocks the loop.

## Proofs

Each theorem is for every value of the constants that satisfies the named `ASSUME`s, which the runs
evaluate: any number of requests, controllers, channels, frames, chunks, calls, links, accounts,
callbacks, providers, lists, faults, coin variables, coins of a bundle, signers and pieces.

`Messages_proofs`, of the manager:

- `TypeCorrect`: the type invariant.
- `OpenIsAlwaysDriven`, `EndedLinkIsAlwaysDown`: an open manager has a controller unless one was killed by
  an exception, and once all have ended the current link is down; with overlapping initializes too.
- `LinkIsSafe`, `RequestsAreSent`, `RequestsAreSentOnce`, `RequestsAreNotRejected`: under `~Overlap`, no request
  is forgotten (`SentWhenLinkUp`), sent twice over one channel (`SentOncePerChannel`) or rejected
  (`NoRejectedRequest`).
- `Implementation`: every behaviour is one of `RequestService`.

The three properties are not inductive. A state in which a controller waits for a channel that has
already carried a request satisfies them, and the resend loop would repeat it. `LinkInv` adds what the code
maintains: one controller at a time (`OneController`); a restart mutes `registerFilter` until
`connect()` has settled (`RestartMutesSending`); so the channel waited for is the current one and has
carried nothing (`NewLinkIsClean`); a manager that may send has a socket that is not connecting
(`SenderHasSocket`); unused channels are clean; and what a channel carried was registered before
(`SentWasRegistered`), so a fresh request cannot be a repetition. With that, `Connected` fills a clean
channel with all of `filters`, and a registration adds one new request to it. The refinement has one lemma
per kind of step: registration is `Ask`, handling a message is `Broadcast` with the registrations of
its callbacks, and everything else stutters.

`Messages_proofs`, of the channel: `MessagesInOrder` (`FramesInOrder`) and `NoMessageStuck` (`NothingStuck`). The
invariant says where every byte is: delivered frames, then the buffer, then the awaited chunks, then
what has not arrived, each starting where the one before ends (`Continues`, as long as nothing was overtaken).
The key lemmas are that the bytes at the head of the buffer are the header of the next frame (`Headed`) and that
a frame too long for the buffer is unfinished (`Unfinished`). That no two
frames start at the same byte is an induction over the frames (`Increasing`, of `Recursion`).

`LeafletProvider_proofs`: `OwnAnswers` (`AnswerIsOwn`): kind, height, hash and, for headers, range. Every message in flight on any link repeats the
arguments of a call that was made (`InFlight`), and whatever a filter takes agrees with its own call in
the fields the property names (`Matches`); so every answer recorded does (`Answers`).

`Providers_proofs`, of `GobyProvider`: `AlwaysListens` (`ConnectedListens`), `AddressFollowsWallet` (`AddressIsCurrent`),
`NetworkFollowsWallet` (`FollowsChain`). The invariant is about the last item of each kind, handled or still
in the inbox: it tells the account (or none) and the chain that the wallet has now. `CallbacksAreTold`
(`SubscribersAgree`) needs only the types beside itself, and two lemmas: what a run of the loop over the
callbacks leaves each of them told when one of them throws or closes the provider (`LoopTells`), and that a new
callback comes last (`SubscribeAgrees`).

`Providers_proofs`, of `XCHModule`: `CallsAreTyped`, `FirstChoiceTaken`
(`FirstChoice`), `FailureMeansNone` (`FailsOnlyIfNone`), `EveryProviderReached` (`ReachesAll`), all of
`XCHSpec`, so with the static provider replaced at any time. The invariant: a call that waits at a place of its list
has passed every provider before it (`Waiting`), in that it threw, was not connected, or changed meanwhile;
`GoesOn` shows that the loop keeps this for the places it skips.

`CoinBuilders_proofs`: `PuzzleAlwaysTheCoins` (`PuzzleIsTheCoins`). Each of the four constructors makes a coin
whose puzzle, if any, has its puzzle hash, whatever its arguments; every method goes through one, and
those that write to an object in place do not touch the two fields. The other four theorems are about whole
chains of calls. `NoOrderMatters` (`BuiltAtOnce`): for each class, copying what a constructor made of the given
values with further arguments is constructing from the last value given for each parameter (`StandardCopy` and its
like), so "the object is the constructor applied to `given`" is inductive. For a CAT it is not: the TAIL a solution
reveals is stored in the object and outlives the solution. The invariant of CATs (`MadeOf`) therefore names the *parts* an object is made
of, which are what its constructor was called with, each as it is stored (`Parts`, and `CopiedParts` for a copy). Every
attribute is a function of them, and as long as they hold no TAIL they make the CAT that `given` makes. From
it follow `OneCopySettles` (`SettlesInOneCopy`), `RevealedIsCurried` (`RevealedTAILIsCurried`) and `NamesItself`
(`SolutionNamesItself`). These four have a hypothesis, `NullIsNoFunction`: `Null`, which stands for
undefined, is not one of the functions that stand for hashes, puzzles and solutions. `Null` is a model value in the
runs, for which TLC cannot evaluate that, so it is no `ASSUME`. `ConditionsAssumption` (what reveals a TAIL in a
list of conditions reveals a program) is one: it says that a condition has the parts its opcode asks for.

`Recursion` has the induction that the other proofs need. The provers take no operator as a parameter, so what is
to hold of every number is given as the *set* of the numbers it holds of: `UpTo` is induction from 0 to n for
such a set, from well-foundedness of `<`; `Increasing` is its use for the places of frames; `Recursive` gives a recursion, whose step is a function, the function it
defines; `Flattened` says where the elements of a sequence of sequences are in what `FlattenSeq` makes of it
(`Places`).

`SpendBundle_proofs` proves the six properties that `bundle` checks of `SpendBundle` and both of `Signing`, for any coins, lists of coins,
outputs, fees, owners, networks, signatures and pieces:

- `CATRingCloses` (`RingCloses`), `CATsAreBalanced` (`CATsBalance`), `AssertionsAreMet` (`AssertionsHold`),
  `StandardCoinsLinked` (`StandardCoinsAreLinked`), `LauncherHasParent` (`LauncherIsCreated`), `NothingTwice`
  (`OutputsOnce`);
- `SigningMakesSpends`: `SigningSpec` implies `Spec`, so the six hold while spends are signed and merged;
- `NoStraySignature` (`NothingElseSigned`), `EachKeySigns` (`FullySigned`).

The invariant of `SpendBundle` is `OneCall`: the spends are those of no call, or of one call of `bundle`,
`launchSingleton` or `useP2SingletonCoinsConditionsAndCoinSol` with some arguments. The properties are then consequences
of what such a call returns. `Kept` says of `Filter` that it keeps the elements of a kind in increasing places, so that
a bundle is m CATs, then k standard coins, then perhaps a launcher (`InOrder`). For the ring, `Summed` gives `Sums`
its recursion; the deltas add up to 0, hence the subtotal after the last coin is the first one, and subtracting the
least of them leaves one that is 0. For "exactly one", a condition is followed from the list it was pushed
to into the spend of its coin (`Once`), and is in no other coin's list (`OneAt`). `Signing` has the invariant
`Merges`: every piece carries what its owner signs of its spends, and the bundle is the pieces joined. A
property of bags is proved by counting: `Occurrences` of a pair in joined lists is the sum of those in the lists, and
equal in every piece (`PieceWeighs`), so equal in the whole.

What is assumed of the constants there, and why. `ApplicationAssumption`: an application's own conditions are lists,
created amounts are numbers, and they neither assert announcements nor reserve fees, which would be
requirements of the application's and not of the code's, nor create a launcher of their own. `OutputsAssumption`:
the outputs asked for differ from one another and from the coins' own conditions; equal ones would be there twice, as
asked. `NamesAssumption`: a launcher is a new coin and nothing else is created with the puzzle of a
singleton or launcher, which is the collision resistance of the hash; coins locked to a singleton are none of the
bundle's. `ChallengesAssumption`: the mark of an unsigned piece is no chain's challenge. The runs evaluate all four.

`SpendBundle` filters with `FlattenSeq` and sums with a recursive function (`Sums`), because the library's
`SelectSeq` and `FoldSeq` take operators, about which nothing could be proved.

`Encodings_proofs` proves the five properties that `encodings` checks, for any objects, amounts, units, texts, entropies, hashes,
programs and arguments:

- `ObjectsRoundTrip` (`DecodesOrRefuses`): what `Serializer.serialize` writes (strings of one-byte characters, no error
  in a `TransactionAck`, of one with an error all the rest) is read back, whatever follows it; of a
  buffer that lacks any number of bytes at its end nothing is read; a message is as long as its header says.
- `TokensExact` (`TokensAreExact`): of typed texts, those with at most the unit's decimals are read exactly, longer ones are
  refused or off by at most one unit, malformed ones are refused; what was formatted is read back.
- `AmountsCanonical` (`AmountsAreCanonical`), `PhrasesExact` (`PhrasesRoundTrip`),
  `CurryingExact` (`UncurryInverts`).

The invariant (`IInv`) says that what is encoded is a value of its codec (`Suits`), that the encoding is what the codec
made of it, or what its damage leaves of that (`IsLeft`), and that what was decoded is as the properties ask
(`ShouldRead`). The rest is about functions without a state, and is where the work is. `Serializer_proofs` has one notion for it: a field is `Sound` when its deserializer
`Inverts` every value it serializes, in that the bytes followed by any others give the value and
exactly the others, and a proper prefix of them is refused. `Sound` is kept by all that fields are composed with
(`OptionalOf`, `ListSound`, `PropertiesSound`, `TupleSound`; for a list by induction over its elements), and so every class
of `WalletTypes` is sound (`ClassSound`). A tuple is sound only because its elements after the first write at least
one byte, which is part of `Sound`: a list of empty elements would be refused by the test for the end of the
buffer. For amounts the digits of a number in a base are characterised (`Digits` and `Number` are
inverse, and a number of n digits lies between two powers of the base), from which follow the number of bytes, the sign bit and
the complement. For texts, a text is a whole part and perhaps a dot and decimals, and filling up
and cutting off zeros multiplies and divides by powers of ten. For phrases, eleven bits and a word below 2048 are inverse, word by word
over the concatenation, and a length of phrase that is accepted fixes the length of the checksum. For programs, k
rounds of the loop have unpacked k arguments.

What is assumed there, and why. `StreamAssumption`: no S-expression's stream starts with that of another, which the
format of clvm ensures by giving lengths. `ObjectsAssumption`: objects have values of the types their classes
declare. `AmountsAssumption`: a unit is a power of ten (what others give is below "Other differences"), and a text is finite.
`EntropiesAssumption`: an entropy is whole bytes and a hash is at least as long as a checksum.
`ProgramsAssumption`: `MaxRounds` is no smaller than any list of arguments. The run evaluates all of them.

Only model-checked: liveness (`RequestsAreAnswered`, `CloseEnds`, `CallsReturn`, `CallsEnd`), which needs fairness and
ENABLED. Every safety property of a run that passes is also a theorem.

## Not modelled

- The CLVM interpreter and its puzzles, BLS, PBKDF2 and the derivation of keys: external modules, whose
  results are terms here. `conditionsForSolution` is what a standard or CAT puzzle returns.
- `GobyUtil`, the software version, address prefixes and agg-sig data of networks: tables and
  field-by-field copies without a choice.
- `getPuzzle`, `getSolution`, `getId` and the like of the coin classes, beyond what `spend` uses: they only read.
- `transferCAT`, `acceptOffer` and `transfer` of `GobyProvider`: they forward to the wallet and change nothing.
- A second `bundle()` with the arrays that the first one extended.
- Logging, configuration defaults, and the handshake bytes `onConnected` sends.
