# MessageU: models, checks and proofs

MessageU (`src/Q1`) is a small messenger. A Python server keeps users and
waiting messages in memory and serves each TCP connection with one thread; a
C++ menu client registers once, keeps its identity in `me.info`, and exchanges
keys and encrypted texts with other clients through the server. This directory
holds TLA+ modules of both, TLC runs on small instances, and TLAPS proofs about
the server, the exchanges, the registration and the messaging clients.

## The system

| Component | State | Operations | Hard behaviour | What makes it correct |
|---|---|---|---|---|
| Server, `client_handler.py` | `self.users` (name, public key, `recv_messages` per UUID), `self.mutex` | register, list, public key, send message, get messages; one request per connection | threads share the dictionary; every helper under `@locker` is a lock section of its own, the handlers are not | lookups do not fail, identifiers and records stay with their owner, no message is lost, repeated or reordered, each request takes effect at one instant, every request ends |
| Accept loop, `server.py` | the socket's backlog | `get_port`; accept, a thread per connection | unbounded threads, no timeout | every connection's thread ends and closes it |
| Exchange, `Client.cpp`, `Protocol.h` | one TCP connection at a time | write the request, read header and payload | short reads, partial sends, resets, a client that gives up while its thread is still at work | what the caller is told agrees with what the server did |
| Wire protocol, `protocol.py`, `Protocol.h`, `MessageBodies.h` | none | pack, unpack, validate | lengths and the 21-byte sub-header | what the server stores, the client can read |
| Client: registration, `Client.cpp` | `m_isInit`, `m_name`, `m_uuid`, `m_privateKey`, the file `me.info` | `Init`, `HandleRegister`, `UpdateMeInfo` | stops between writes, lost answers, failing writes, a server that forgets | a client's identity, in memory and on disk, is its own; a failed attempt can be repeated |
| Client: messaging, `Client.cpp`, `Friend.cpp` | `m_data`: a `Friend` (identifier, public key, symmetric key) per name | list, public key, send and request a symmetric key, text, waiting messages | keys crossing each other, lost exchanges, restarts, two users of one name | what is encrypted for someone, that one can decrypt |
| Validators, `SystemUtils`, `server.info` | `Name` and `UUID` objects with a flag and a buffer | `Deserialize`, `Serialize`, `Reset`, `FromFile`, `ToFile`, `ParseServerInfo` | buffers that are full, used again, read as strings | what is written or sent is read as what it was |
| Crypto wrappers, project files | - | - | - | see *Not modelled* |

Components talk only through requests to the server: a client opens a
connection, sends a request, reads one response. Clients reach each other
through `recv_messages`. The full list of hazards, each with its line and the
properties that watch it, is `hazards` in `PROJECT.json`.

## Modules

| Module | Models |
|---|---|
| `Protocol` | opcodes, sizes, the server's checks on a header and a message body, the client's check on a fetched message |
| `ClientHandler` | the threads of the server: one action per lock section or unlocked access of `client_handler.py`; all properties of the server |
| `MessageService` | what the server promises: every request takes effect at one instant, or has no effect |
| `ClientHandlerService` | the refinement mapping from `ClientHandler` to `MessageService` |
| `ClientHandlerProofs`, `ClientHandlerAnswers` | theorems about `ClientHandler`: its state, and what its answers mean |
| `ClientHandlerServiceProofs` | that `ClientHandler` implements `MessageService` |
| `RegistrationProofs` | theorems about `Registration` |
| `ClientProofs`, `ClientTextProofs` | theorems about `Client`: keys, and texts |
| `ConnectionProofs` | theorems about `Connection`, and that it implements `ExchangeOutcome` |
| `ClientFilesProofs` | theorems about `ClientFiles` |
| `Registration` | how a client gets and keeps its identity, with stops and restarts of both sides |
| `Client` | registered clients, their friends and keys, and the mail between them |
| `Connection` | exchanges of one client over TCP, byte by byte, with the accept loop and the threads that serve them |
| `ExchangeOutcome` | what an exchange promises its caller; `Connection` implements it |
| `ClientFiles` | the values of `Name`, `UUID`, `me.info`, `server.info` and `port.info`, character by character |
| `MCClientHandler`, `MCRegistration`, `MCClient`, `MCConnection`, `MCClientFiles` | constants for TLC: requests, names, file contents, initial states, symmetry |

`Registration` and `Client` build on what is shown of the server: `Client` takes a
request as one step because `ClientHandlerService` shows that it takes effect at
one instant, `Registration` a registration as two, the look at the names and the
addition of the user, because `UniqueNames` does not hold between them; for the
same reason `Client` allows two clients of one name. It names a client by its identifier because of `RegisterResIsMine`
and `Registration!IdentitiesApart`. Both let a failed exchange have taken
effect, have none, or take effect later, as `Connection` shows can happen;
`Registration` takes a whole `me.info` for the identity it was written from, as
`ClientFiles` and `IdentitiesReadBack` show.

### ClientHandler and the code

`users` is `self.users`; `mutex` is `self.mutex`, held across steps only by the
two locked functions that read `self.users` more than once
(`username_exists`: `BeginScan`, `EndScan`; `get_messages_from_uuid`:
`GatherMessages`, `ClearMessages`). Every other locked function touches
`self.users` once and is one step, enabled while the mutex is free (`Free`).
The per-thread variables are the locals of the handlers; `pc` is the next step.
`BeginList`, `ListNode`, `EndList` and `ListFails` are the walk of
`handle_user_list`, which takes no lock: Python's iterator compares the
dictionary's size with the one it was created with (`DictionaryResized`).
Iteration order is left open. `get_name_from_uuid` is part of `ListNode`, as a
name never changes (`RecordsImmutable`). A thread ends in `done`, or in the
exception that ends it: `KeyError`, `RuntimeError`, `StructError`, none of which
is a `ValueError`, so that `handle_client` sends nothing. `uuid.uuid1()` is
external: `Uuid1Unique` says whether it may repeat itself. A short `recv` is a
request with `header_read` or `payload_read` below what was asked for.
`mailed` and `handed` are history variables.

### Registration and the code

`isInit`, `name`, `uuid`, `privateKey` are the fields of `Client`; `file` is
`me.info`, `lines` of which are complete. `Start` is `main`, `Init` and
`ParseMeInfo`. `HandleRegister` is `Ask`, up to the exchange, and then either
`RegisterFails` or `Answered`; between the two the client is `registering`, and
its request is in `pending`. There the server handles it in two steps, as
`handle_register` does in two lock sections: `CheckName` refuses a name that is
taken, `Adds` stores the user whatever has become of the name since. The second
is part of `Answered` if the client gets the response, and `AddUnheard` if not:
its exchange then fails, or has failed long before. `RegisterFails` may take a
request that the server has not begun with out of `pending`, or leave it there.

`CleanUp` is what `HandleRegister` does after a failure: it deletes the key and
resets the name, and leaves `m_uuid` as it is. `Enroll` is `UpdateMeInfo` up to the opening
of the file, `WriteLine` and `EndWrite` are its writes. `Refuses` is its refusal
to overwrite an identity or an identifier, after which `Answered` cleans up,
too, although the server has stored the user. `AnswerKept` says that no sequence
of attempts, stops and restarts leads there: in the code as it is the branch is dead,
since only a full success ever sets `m_uuid`. A half written key line counts as missing:
`ParseMeInfo` fails on either. `WritesFail` lets the stream fail, which nothing
notices, `ServerStops` lets the server restart with no users. `FreshUuid` is
`uuid1()`, which takes identifiers from the clock: they are not repeated after a
restart.

### Client and the code

`friends[c]` is `m_data`, by name; the operators under *Friend* are the methods
of `Friend`. A handler is one step, as the client has one thread; its exchange
delivers the message, is refused, or fails with the request in `late`, to be
handled at some later time (`Exchange`, `Fails`, `LateRequest`). Whether the
answer then arrives makes no difference to the client's state but for `Fetch`,
where `FetchFails` is the batch that is cleared and lost. After `ServerRestart`
no client is known any more and each is refused for good. The batch of
`HandleWaitingMessages` is read message by message (`ReadUnknown`,
`ReadGetSymKey`, `ReadSendSymKey`, `ReadText`). A symmetric key is named by its
maker, its peer and the run of the program: `GetSymKey` generates at most one
for a `Friend`, and all friends are forgotten at the end of a run. Decrypting
under another key throws or, if the padding happens to fit, returns garbage;
both are in `ReadText`. Names of two clients may coincide at any time: a
registration whose thread was delayed between its scan and `add_user` may add
its name long after another did.

### Connection and the code

`client[x]` is the place in `Client::Exchange`, or what it returned; `server[x]`
the place of the thread in `handle_client`, with `backlog` before `accept` and
`ended` after `close`. `up` and `down` count the bytes in the two directions: a
stream keeps them in order, so their number is their content. `Recv` is one
`recv` with any number of bytes it may return, `IsWhole` the comparison with what
was asked for (`client_handler.py:192`, `:207`); `ReadExactly` is
`transfer_exactly`; `Send` is one `send`, which may take a part; `Close` with
unread bytes may reset the connection. `HeaderAccepted` and `AnswerAccepted` are
the checks of `Protocol.h`: a request has the sizes that the server may answer
and those that the client accepts, of which the first are some. `HandleDone`, `HandleRefused` and `Raise` are all a
request can come to in `ClientHandler`. `Kill` and `Break` are faults.
`disturbed` is history: the connection broke, or something on it was cut short.
`ExchangeOutcome` has one `effect` per exchange, at most once, before or after
the end that the caller sees; `Success` needs the effect and the answer to it.

### ClientFiles and the code

A buffer is a function of its bytes, a text a sequence of characters.
`CString` is what a `std::string` or a stream makes of a buffer: all before the
first null, and something from `behind` it if there is none. `NameOf` overwrites
only as far as the name goes, as `memcpy` does. `Lines` is `getline` call by
call. `ParseMeInfo` and `ParseServerInfo` are the set of what is read, empty if
the file is refused. A private key is its Base64 text, which has newlines; its
line in `me.info` is what is left without them. `Sorted` is the ascending
sequence of a finite set of positions, from which `Lines` and `KeyLine` take the
lines and the characters in order.

An address has 7 to 15 characters and no colon, as the limits on the size of
`server.info` have it. `Understood` is about ports written with at most five
digits: `get_port` also takes `00000080`, but with an address of 15 characters
before it `server.info` is longer than the client admits.

## Runs

Bounds: connections serve one request each, so `Thread` bounds the requests;
three are enough for two to interfere and a third to observe. In `Client`,
`MaxRuns` bounds the starts of each program, `MaxWaiting` the messages that wait
for one client and `MaxLate` the requests handled late. In `Connection`,
`MaxAttempts` bounds the exchanges; two are enough for a thread of the first to
meet the second. Headers of 2 and 1 bytes and payloads of 0 and 2 can be cut in
every way that longer ones can: none, some or all of a part. Buffers of
`ClientFiles` are 3 and 2 bytes, with every name up to one more than fits.

| Run | Module and instance | Shows |
|---|---|---|
| `accounts` | server, 3 threads, 3 unique UUIDs; two names, lists, key requests, broken requests | `TypeOK`, `KeyErrorFree`, `RuntimeErrorOnlyInList`, `RegisterResIsMine`, `DuplicatesOverlap`, `ListExact`, `ImplementsService` |
| `mail` | server with two registered users (`TwoUsers`), 3 threads; texts, keys, broken messages, fetches | `NothingLost`, `AckedIsMailed`, `StoredParses`, `ServiceSteps` |
| `answers` | server with fairness, 3 threads, 3 UUIDs that may repeat | `RecordsImmutable`, `AnsweredIsTaken`, `Answered` |
| `identity` | 2 clients, failing writes, restarts of the server | `TypeOK`, `OwnIdentity`, `IdentitiesApart`, `Remembered`, `WrittenOnce`, `AnswerKept` |
| `keys` | 3 clients, two of one name; the third gives them keys; exchanges fail, the server restarts; 1 waiting message, none late | `TypeOK`, `KeysReadable`, `KeyPairing` |
| `glare` | 2 acquainted clients, each gives the other keys and texts; exchanges fail, 1 late request, one program and the server restart, 2 waiting messages | `Agreement`, `TextsReadable` |
| `exchange` | 2 exchanges, a request without payload and one with 2 bytes, answers of 0 to 2 bytes, all faults | `TypeOK`, `NothingCutShort`, `InOrder`, `FailureHasCause`, `Returns`, `ThreadsEnd`, `ImplementsOutcome` |
| `files` | names over two letters of up to 4 in a buffer of 3, 9 identifiers, 2 keys, 50 contents of `server.info` | `TypeOK`, `FieldIsName`, `NameReadBack`, `IdentityReadBack`, `Understood` |

`mail` starts from two registered users instead of registering them: with three
one-request threads there would be none left to interfere. It therefore checks
`ServiceSteps`, the step part of the refinement. `identity` keeps identifiers
unique over restarts of the server, as `uuid1()` takes them from the clock.
`TextsReadable` is claimed while nothing failed (`lost`), in the same run whose
faults break it afterwards. `keys` and `glare` do not look for deadlocks: once
the server has restarted and the programs have used up their starts, nothing can
happen to registered clients any more; nor does `exchange`, whose exchanges come
to an end. The other runs do.

Runs that TLC is expected to refute, each a comment of the repository that the
code does not keep (`findings` in `PROJECT.json` quotes both sides):

| Run | Claim | What happens |
|---|---|---|
| `names` | names are unique (`Client.cpp:479`) | two registrations pass `username_exists` before either is added |
| `walk` | the lock prevents races (`client_handler.py:21`) | a registration during a list: `RuntimeError`, no response |
| `halfwritten` | the content of `me.info` is valid (`Client.h:23`) | a stop between two writes |
| `thrown` | handlers return a status (`Client.h:171`) | a text under another key throws through `main` |

Four more disagreements follow from the models and have no run of their own:
`uuid1()` repeating itself in two threads at once would give two clients one
identifier, as `CheckFresh` and `AddUser` are two lock sections
(`AnsweredIsTaken` says that it takes such a pair, and `RecordsImmutable` that
the first record stays); `SetSymKey` ignores a key when there is one, so two
clients that send each other a key keep different ones (`Friend.h:91` says it
updates the key; `thrown` goes through this state); `UpdateMeInfo` returns true
whether or not the file was written (`Client.h:96` says it tells; `WritesFail`,
`Enroll`, `EndWrite`); and a restarted server knows none of the clients that
have a `me.info`, whose menu offers no registration (`Client.cpp:42-44`;
`ServerRestart`).

### Fairness

`answers` and `exchange` assume some. In `answers`: weak fairness of `Step(t)`: the operating system
runs every thread that can run. A thread that waits for the mutex is disabled
while another holds it and may be enabled and disabled again; weak fairness is
enough in these bounded instances because the other threads run out of steps,
as each connection carries one request. Strong fairness of `FreshUuid(t)`:
`uuid1()` does not return taken identifiers for ever. No fairness of
`ReadRequest`: nothing makes a client send, and a silent one keeps its thread.

In `exchange`: weak fairness of each client's exchange, of each thread and of
`Accept`, as the system runs what can run and TCP delivers what was written on a
connection that holds. No fairness of `Connect` and `ConnectFails` (the user
decides), `Kill` and `Break`. `ReadExactly` becomes possible, or `Throws` does,
because the other side's `Close` is fair: neither side has a timeout.

### Mutants

Each checked property has a mutant in `PROJECT.json`: an operator with the
comment "Mutant" next to the definition it replaces, the way a plausible bug
would. No mutant is part of a specification.

## Proofs

Every theorem holds for all values of the constants: any set of threads,
clients, identifiers, names and keys, any requests, any lengths and cuts, any
bound. TLC evaluates the assumptions on the constants in every run. No property
below is inductive by itself; each rests on an inductive invariant that TLC
checked on the instances of the runs before it was proved. Each invariant has
one lemma per conjunct or per action that the conjunct or action can disturb.

| Theorem | Property | Module |
|---|---|---|
| `Invariance` | `IInv` | `ClientHandlerProofs` |
| `TypeCorrect`, `NoKeyError`, `LockedWalkSafe` | `TypeOK`, `KeyErrorFree`, `RuntimeErrorOnlyInList` | |
| `MessagesKept`, `RecordsKept`, `ListsExact` | `NothingLost`, `RecordsImmutable`, `ListExact` | |
| `AcknowledgedOnce`, `StoredReadable` | `AckedIsMailed`, `StoredParses` | `ClientHandlerAnswers` |
| `RegisteredAsAsked`, `DuplicatesOnlyOverlap` | `RegisterResIsMine`, `DuplicatesOverlap` | |
| `AnsweredStaysTaken` | `AnsweredIsTaken` | |
| `StepsServe`, `ServiceImplemented` | `ServiceSteps`, `ImplementsService` | `ClientHandlerServiceProofs` |
| `RegistrationTypes`, `IdentityIsOwn`, `NoSharedIdentity` | `TypeOK`, `OwnIdentity`, `IdentitiesApart` | `RegistrationProofs` |
| `AnswersAreKept`, `FileIsOfItsClient`, `WholeFileStays` | `AnswerKept`, `Remembered`, `WrittenOnce` | |
| `ClientTypes`, `WaitingKeysReadable` | `TypeOK`, `KeysReadable` | `ClientProofs` |
| `KeysPaired`, `FriendsAgree` | `KeyPairing`, `Agreement` | |
| `TextsAreReadable` | `TextsReadable` | `ClientTextProofs` |
| `ConnectionTypes`, `NothingIsCutShort`, `OvertakenOnlyIfFailed` | `TypeOK`, `NothingCutShort`, `InOrder` | `ConnectionProofs` |
| `NoFailureWithoutCause`, `OutcomeImplemented` | `FailureHasCause`, `ImplementsOutcome` | |
| `FilesTypes`, `FieldsAreNames` | `TypeOK`, `FieldIsName` | `ClientFilesProofs` |
| `NamesReadBack`, `IdentitiesReadBack` | `NameReadBack`, `IdentityReadBack` | |
| `ServerUnderstood` | `Understood` | |

Assumptions: `ConstantsAssumption` of each module (types of the constants);
`KeyAssumption` of `Client`, that the null pointer of a `Friend` without a key
is no key; `KeysAssumption` of `ClientFiles`, that Base64 text is of more than
newlines and tells its key without them; `AddressAssumption` there, the length
of an address and that it has no colon; and, in `RegisteredAsAsked`, `DuplicatesOnlyOverlap`, `StepsServe`
and `ServiceImplemented`, `Uuid1Unique`: without it two registrations that draw
one identifier share it, as `CheckFresh` and `AddUser` are two lock sections.

### The server

`IInv` adds to `TypeOK`, `KeyErrorFree`, `RuntimeErrorOnlyInList` and
`NothingLost`:

- `IsFiniteSet(registered)`, so that sizes of the dictionary can be compared;
- `LockInv`: a thread is inside a multi-step lock section exactly while it holds
  the mutex - two threads are never inside one together;
- `RequestInv`: a thread past reading has a well-formed request, and one whose
  handler runs has the handler's opcode;
- `CheckedInv`: after `is_registered` or `is_sender_valid`, the user is still
  there, as nothing removes users (gives `KeyErrorFree`);
- `HeldInv`: between `GatherMessages` and `ClearMessages` the joined messages
  are still exactly the list (gives `NothingLost`);
- `WalkInv`: while the dictionary has the size it had when a walk began it has
  the same keys, as it only grows; what is left to visit and what was collected
  make up the answer (gives `ListExact`, and with `LockInv` that
  `username_exists` never fails).

About the answers, on top of it: `HandlerInv` (a thread answers once, and its
label tells which request it serves), `AddressedInv` (whom an acknowledged
message was for is still registered), `UniqueInv` (an identifier that was drawn
belongs to one thread, is not registered before `AddUser`, and what `AddUser`
stored is still there), `AnsweredInv` (what a registration was answered with is
registered; this one needs no `Uuid1Unique`) and `ScanInv` (the users that a registration found have
other names, and keep them).

The refinement is proved action by action: the mapping answers a thread's caller
in the step that takes effect (`AddUser`, `EndList`, `ReadKey`, `PushMessage`,
`ClearMessages`), every refusal is `Refuse`, every end of a thread `Close`, and
every other step a stutter. `StepsServe` says it of every start that satisfies
the invariants, such as that of run `mail`; `ServiceImplemented` of `Init`.

### Registration

`RInv` is `TypeOK`, `OwnIdentity`, `Remembered` and

- `ProcessInv`: an unregistered client has no identifier, and a name and a key
  only while it waits for an answer; it registers only while it has no
  `me.info`, and whoever writes one has an identity (gives `AnswerKept` and
  `WrittenOnce`);
- `RequestInv`: a request under the key of a client that waits has its name;
- `IssuedInv`: whatever identifier a client goes by, in memory or in the second
  line of its file, whole or not, the server has given out, and to no other
  client (gives `IdentitiesApart`). That `issued` survives a restart of the
  server is what `FreshUuid` says.

A lemma shows that each step is one of six things to each client - nothing, a
loss of what it held, an identity read from its file, a registration begun, an
identity given out by the server, a line written - and of all but one client
nothing; the invariants follow from these six. `AnswersAreKept` needs besides
that only an answer tells a client of a new identifier, and that none finds
`m_uuid` set.

### Messaging

`KInv` says of every friend that its public key is its own and that a symmetric
key held for it is `Shared`: made by one of the two for the other, in no later
run than the maker's present one, and, if in that one, still held by the maker
for its peer. It says the same of the key of every message in an inbox, a batch
or a late request, and that a key that is sent is encrypted for whom it is sent
to. That the maker's own copy stays is why the receiver agrees with it
(`Agreement`), and it stays because neither `GetSymKey` nor `SetSymKey` replaces
a key. Names may coincide; what is needed is that a name leads a client to one
identifier while the program runs (`FriendInv`).

`TInv` is about the time when nothing was lost yet: nothing is late, everybody
is in the first run, batches are empty but while they are read (`Undisturbed`);
a key that a client has for a friend is one that the friend has too, or is on
its way to it (`OfferedInv`); and no text waits for a client without a key for
its sender, or one that waits before it (`PrecededInv`). The order in which the
server keeps messages is needed here, and that each batch is read in order.

### Exchanges

`CInv` counts the bytes. Per exchange: what the client has not written and what
is on its way is the request but for what the thread has read (`Upstream`); the
same of the response, or less once something was disturbed (`Downstream`); the
thread decides once, and the response is that of its decision (`Decision`); what
the client reports fits the decision (`Report`). Over all exchanges: the client
begins one after the other (`OneByOne`), a connection waits once in the backlog
(`BacklogInv`), effects were decided (`LogInv`) and `InOrder`, which needs
`OneByOne`. The refinement of `ExchangeOutcome` uses it before and after a step.

### Files

`FInv` is `TypeOK` and

- `BlankInv`: a client that is not registered holds nothing of an attempt, so
  the next one starts from an empty buffer;
- `SentInv`: the field that was sent is that of an empty buffer and an accepted
  name (gives `FieldIsName` and `NameReadBack`);
- `MineInv`: `me.info` is what was written for the identity, and a registered
  client has it (gives `IdentityReadBack`);
- `InfoInv`: the last `server.info` is why the client failed, or where its
  address is from (gives `Understood`).

The work is in the lemmas on the conversions, for texts of any length.
`NameIsRead`, `UuidIsRead` and `KeyIsRead` say that a name, an identifier and a
key come back from a buffer or a line; `MeInfoIsRead` and `AddressIsRead` that
the two files do. `OneLineIsRead` and `ThreeLinesAreRead` say what `Lines` makes
of a text: the lines are what is between the sorted ends of lines, and a finite
set of numbers can be sorted (`SortedExists`), which is shown not by induction
but from a least size for which it fails.

### Only model-checked

- `Answered`, `Returns` and `ThreadsEnd`: liveness under fairness is out of the
  prover's reach.
- The number that the digits of a port stand for: `Number` is a fold, and what
  it computes for every text would need an induction that the installed provers
  cannot instantiate. `ServerUnderstood` says that both sides read the same.
- The runs that refute a claim: a counterexample needs no proof.

## Not modelled

- The algorithms of Crypto++ and the random numbers of `AESWrapper`: a key is a
  value of its own, and decrypts what it should.
- A host that vanishes without closing its connections: neither side has a
  timeout, so its peer waits for ever, and `Returns` and `ThreadsEnd` hold only
  while connections end or break.
- The number of threads and of stored messages: the code bounds neither, and an
  instance in which memory, threads or the 32 bits of a payload size run out is
  out of TLC's reach.
- The packing of fields, and how `HandleList` and `HandleWaitingMessages` cut a
  payload into nodes and messages: modelled by what they yield (`Listed`, `batch`,
  `StoredParses`).
- Standard input: the menu is the user's choice, and its end, at which the menu
  loops, is not in the models. A user with the empty name, accepted at that end,
  is in `ClientFiles` only.
- `int` of Python taking signs and underscores in `port.info`.
- `server.db` (empty, never opened), the build and editor files and the report
  under `Q2`.

## Plan

1. Done: the server, its service and first proofs; registration; messaging;
   exchanges byte by byte with the outcome they implement; names, identifiers
   and files; late requests and restarts of the server in `Registration` and
   `Client`.
2. Done: proofs of every safety property of a passing run, and of both
   refinements.
3. The loops of `HandleWaitingMessages` and `HandleList` (`bytesLeft`,
   `bytesRead`) as a recursive function against a reference.
4. A composed module, clients of `Client` over the threads of `ClientHandler`,
   for a list that fails while a key is sent.
