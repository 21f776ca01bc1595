# srvd in TLA+

srvd lets a process answer name service questions (users, mail aliases) with the
help of a daemon: a library turns a lookup into a request packet, sends it over a
UNIX socket to a server built with the same library, and turns the response packet
into the caller's structures. This directory holds a model of that library in TLA+,
configurations that check it with TLC, and proofs about it for TLAPS. Every
definition that stands for code is listed under `map` in `PROJECT.json` with the
lines it was written from; paths below are relative to `src/lib/srvd/libsrvd/`
unless they begin with `src/`.

## 1. Inventory

| Component | Source | State | Operations |
|---|---|---|---|
| packet | `protocol/packet.c`, `src/include/srvd/protocol/packet.h` | doubly linked lists of fields and, per field, of entries; `field_count`, `entry_count` (`uint16_t`); a lock per list | `append`, `insert`, `get_or_add`, `get_or_inject`, `add`, `inject`, `entry_add`, `entry_inject`, the lookups |
| serial codec | `protocol/serial_packet.c` | cursor over a body, the packet being filled | `serialize`, `unserialize_header`, `unserialize_body` |
| service query | `service.c` | `response->status` | `request_query` |
| client adapter | `client.c`, `client/unsock.c` | socket, `connected` | `get_by_conf`, `connect`, `write`, `read`, `disconnect` |
| unsock server | `server/unsock.c` | listening socket, the connection it serves, `executing` | `execute` with `read` and `write`; `initialize`, `finalize` |
| server registry | `server.c` | list of (type, handler) | `initialize`, `service_add`, `service_has`, `service_get`, `service_remove`, `finalize` |
| configuration store and file | `conf.c` | list of items, `updated`, `updated_time`, one shared default file with a lock | `default_get`, `uptodate`, `parse`, `clear`, `item_add`, `item_get` |
| configuration parser | `conf.c:216-407` | scanner state, cursor, line | `_srvd_conf_file_read` |
| nss services | `service/nss/*.c` | none | accessors of request and response fields |
| nss module | `src/lib/srvd/nss/*.c` | per-thread enumeration offset; position in the caller's buffer | `getpwnam_r`, `getpwuid_r`, `setpwent`, `getpwent_r`, `endpwent` and the same for aliases |
| logging, macros, build, pam | `log.c`, `src/include/srvd/srvd.h`, ... | none | - |

How they interact. `getpwnam_r` and its relatives build a request with the packet
calls and hand it to `request_query`. That takes the shared configuration
(`default_get`, which may reparse the file under a lock), makes a client from it, and
connects, writes, reads and disconnects. Client and server both move packets through
the codec. The server's loop accepts one connection at a time, reads a request, looks
its first field's type up in the registry, lets the handler fill a response, inserts
the status as the first field, writes and closes. A query's answer to its caller is
`response->status`, read from the first field of whatever packet there is. Processes
meet only in the sockets; threads of one process meet in the shared configuration and,
if a caller shares a packet, in the lists, whose writers lock and whose readers do not.

What is hard in it, and what makes each part correct:

* **Packet.** Readers without a lock walk a list between any two stores of a writer
  that holds the lock. Correct when a reader's walk never runs off the list, finds
  what was there, and no type is added twice; when links, tail and count agree as
  soon as the lock is free; and when every path through a call gives the lock back.
* **Codec.** Counts and sizes come from the peer and are checked piecemeal, two
  records of one type are merged, counts wrap, and every error path frees something.
  Correct when stored entries lie inside the body, each byte once; when reading
  undoes writing; when the loop ends; and when nothing freed remains linked.
* **Query, client and server.** Partial reads and writes, interrupted calls, peers
  that die, SIGPIPE, a full backlog, a single server thread with blocking reads, and
  a status left over from a failed read. Correct when a query returns what the server
  answered to that very query, when TRUE means the whole response, when every query
  comes back and the server always returns to `accept`.
* **Configuration.** The file changes while it is opened, measured and read by three
  separate calls; modification times have a resolution of a second; items are handed
  out by reference and the lock given back before they are read. Correct when items
  are those of one reading of the file, no older than the file when they count as up
  to date, and not freed under a reader.
* **Registry and life cycle.** No lock, a `finalize` whose test is inverted
  (`server/unsock.c:65`), a socket path that is never unlinked. Correct when a service
  is not freed while `execute` uses it and a server can be stopped and started again.
* **Parser.** A cursor moved by macros that test for the end differently in each
  state. Correct when it stays in the buffer and agrees with the syntax of
  `src/etc/srvd.conf.example`.
* **NSS.** The result of `request_query` is ignored and only the status counts; the
  offset moves also when the caller's buffer was too small. Correct when strings lie
  in the caller's buffer without overlap, SUCCESS means that an entry was delivered,
  and an enumeration delivers each entry once.

`PROJECT.json` lists these as `hazards`, each at the line where it bites, with the
properties that cover it or the reason why none does.

## 2. Modules

| Module | Models | Used by |
|---|---|---|
| `SerialPacket` | the codec and the packet as one thread fills it | `MCSerialPacket`, `SerialPacketProofs` |
| `PacketList` | the lists of fields and entries under threads, store by store | `MCPacketList`, `PacketListProofs` |
| `Exchange` | clients in `request_query` and the server's loop, over sockets | `MCExchange`, `ExchangeProofs` |
| `Query` | what a query promises its caller, without sockets | instantiated by `Exchange` |
| `Server` | the registry and the life of a server, from `initialize` to `finalize` and restart | `MCServer`, `ServerProofs` |
| `Conf` | the shared configuration, its readers and a file that changes | `MCConf`, `ConfProofs` |
| `ConfParser` | the scanner that reads the file | `MCConfParser`, `ConfParserProofs` |
| `Nss` | lookups, enumerations, the handler's response and `populate` | `MCNss`, `NssProofs` |

The `MC` modules give constants their values and symmetries; the `Proofs` modules hold
the theorems. `Sums` is what a cursor has reached that moves over sizes one by one, in
the codec and in `populate`; `NumberProofs` has the equations of those sums and the
arithmetic of a count that wraps, for all packets.
Operators named `Mut...` are faulty variants of the definition that
follows them. They are part of no specification: each records a plausible bug that a
property is known to find.

### SerialPacket

A body is not spelled out. The decoder reads every 16-bit word of it once and never
goes back, so an arbitrary body is the same as an arbitrary word at each read;
`Reads(offset, w)` says which words are possible, and `wire` pins them when the body
was written by `Serialize`. An entry is the interval of the body that is copied into
it. `p`, `i`, `entry`, `entry_count` and `field_count` are the C variables (`p` counted
from `body`), `fields` is the packet's list, `freed` the fields that an error path
freed, and `reach` how far the body has been read. The actions follow
`unserialize_body`: `PastEnd`, `OpenField` or `FieldRefused` for a field header,
`AddEntry` or `EntryRefused` for an entry, `NextField`, `Finish`. `malloc` is a
constant set of outcomes. `uint16_t` is `0 .. WordMax`, and the entry count wraps.

### PacketList

`memory` is what the threads share: `lock`, `head`, `tail`, `count` and the `type`,
`next` and `previous` of every node. A call is chosen in `Call`; `Lock`, `ReadCount`,
`ReadHead`, `Found`, `Advance`, `Missed`, `Initialize`, `Link` and `Linked` are its
steps. A writer's stores are a sequence (`AddStores`, `InjectStores`) in the order of
the program, and `Link` makes one of them visible per step; with `Reorder = TRUE` any
of those still pending can come next, which is what a reader without the lock can see,
since nothing orders them for it. The same steps serve both kinds of list: the set
`kinds` holds the calls on fields or those on entries. `list`, `vetted` and `base` are
auxiliary: the nodes that have become reachable, how they were linked, and the list as
a reader found it when it read the head.

### Exchange and Query

Client variables follow `request_query` and the adapter (`pc`, `cfd`, `result`), server
variables the body of `execute`'s loop (`spc`, `cur`, `srequest`, `response`), and the
rest is what the kernel keeps: the backlog, the two ends' descriptors and, for each
connection and direction, how many parts were written and read. A message is a header
and a number of parts, a part being what one transfer moves; a body of one part is read
whole by one `read`, a body of more parts may be read short. Each early exit of
`request_query` is an action that ends in `GiveUp`, which leaves the socket open as the
code does: only a query that succeeds disconnects (`service.c:108`), and a caller that
fails often runs out of descriptors. The server's early exits go to `CloseClient`.
`Faults` selects what may fail: the configuration, a client's process, an interrupted
call, memory, the insertion of the status; `SigPipe` says whether a write to a closed
socket kills the process. No line of the repository ignores the signal, so the run with
faults leaves it at its default; the proofs hold for both.

A message may have an entry without data (`empty`), which `serialize` writes and
`unserialize` refuses (`protocol/serial_packet.c:204`). `RequestRefused` is the server's
side of that: the packet is finalized with the fields that came first, and since it can
link a field the decoder freed (`:197`), the process survives the walk or ends with it.
`DecodeFails` is the client's: `response->status` is the server's own status when the
first field was decoded whole; when the freed field is the first one, it is whatever the
memory holds, a code of `Garbage`, or FAIL, or the process ends. `cut` is auxiliary: the
connections whose turn in the server was ended by a signal or by want of memory.

`Query` is the abstract specification: a query is answered at most once, and one that
returns TRUE carries that answer. `Exchange!KeepsPromise` is the refinement: `asked`
are the queries that were started and `served` maps a query to the status of the
response written for it.

### Server

Two threads share the structure: the owner (`Initialize`, `Add` and `Publish`, `Unlink`
and `Free`, `Finalize`, `FinalizeNode`, `Finalized`) and the one in `execute`
(`Execute`, `Bind`, `Listen`, `ExecuteFails`, then `Request`, `Look`, `Serve` for each
request). A node is memory that is allocated and freed; a lookup that stands on a freed
node reads anything from it. `finalize` refuses unless the server executes
(`server/unsock.c:65` tests the wrong way round), so it frees the services only under
the loop that uses them, and the socket stays open. `Restart` is a process that dies
and starts again, `StartAnother` one started beside the one that runs, and
`OperatorUnlinks` somebody who removes the path, which no code does: without it the
`bind` after a restart fails, and with it a second server can join a running one.
`registered`, `could`, `overlapped`, `stale` and `unlinked` are auxiliary.

### Conf

The pair `text`, `mtime` is the file at the default path; `Write` changes it in place,
`Replace` renames another file over it or removes it and may keep a `backup`, `PutBack`
puts the backup back with the time it had, and `Tick` is the clock. A text is a sequence
of lines, each a definition or an error, and sizes count lines; a file that has grown
since its size was read is cut somewhere, so its last line may be whole, an error, or a
definition with a shorter value (`Readings`). A thread takes the lock, compares the
times (`CheckUpToDate`), and if needed opens, measures and reads the file (`Open`,
`Stat`, `Read`), frees the items (`Clear`) and adds the new ones one by one (`ReadLine`,
`Parsed`). After `Unlock` it looks up the adapter and the path (`ReadAdapter`,
`ReadPath`) while others may be parsing; a lookup over freed items has any result. The
names `item_add` compares are not terminated in the file's buffer, so its check for
duplicates never finds one: every definition goes to the front and the last one of a
name is the one `item_get` returns. `sure`, `source`, `whole`, `relies` and `freed` are
auxiliary.

`OneReading` says whose items they are: if there are any while nobody parses, they are
the lines of the last reading, the failed ones included (`source`), in reverse, and all
of them unless memory ran out in between (`whole`); that reading had no error. So a parse
that fails leaves neither its first lines nor those of the parse before it.

`Fresh` says that items which count as up to date are those of the file, with five
exceptions, each of which `sure` names: the file changed between the calls that open
and measure it; it was written in place between those that measure and read it, and put
back with its old time later; it changed in the second of its last modification; memory
ran out while it was read, which `item_add`'s caller ignores (`conf.c:386`); or the last
parse failed, which clears the items but keeps `updated_time`, so the old file put back
with its old time counts as up to date and the configuration stays empty (`conf.c:403`).

### ConfParser

A character is one of the nine classes the scanner tells apart. `bp`, `state`, `status`,
`name`, `value` and `items` are the C variables, names and values being spans of the
text; `pc` is the label of the switch. The buffer ends with a terminator, and what lies
beyond is unknown: `At` gives the characters a read may find there. `reach` records how
far the scanner has read. It does leave its buffer, in two ways. A comment that ends the
file without a newline stops the cursor at the end, where the check for the end, which
comes before the comment is skipped (`conf.c:256-257`), is not made again; and a quote
that is left open makes a later test read on. A definition without a value reaches
`item_add` with null pointers, from which it copies a byte: `pc` is then `crashed`.
`SafeToRead` is the comment at `conf.c:258-259`, that `bp` and `bp + 1` can be read
safely; `conf_overrun` refutes it. `TypeOK` bounds by six characters how far the scanner
gets. `NothingIgnored` is about the scans that stayed in the buffer. For
`ReadAsWritten` a text is written from a document, a sequence of lines (`Written`), and
`Defined` says what the document defines; the documents are those the scanner is meant
for (`Legible`).

### Nss

A thread is in at most one call (`SetEnt`, `EndEnt`, `Lookup`, `GetEnt`); its request
has one field, or none when memory ran out. Until the answer comes, the handler builds
the response with the accessors of `service/nss` (`SetField`, `AddEntry`). `Answer` and
`QueryFails` are the two ends of a query as `Query` leaves them: a query that failed
after decoding a part hands on any status and the fields that came first. `answer` is
auxiliary: the response as the handler sent it with SUCCESS, if the query that brought
it succeeded. `SuccessIsWhole` compares what was delivered with that, so a caller that
gets SUCCESS got everything the handler set, with one exception that it names: after a
query that failed, the status can be SUCCESS although the fields did not arrive, and
`nss/passwd.c:276` and `nss/aliases.c:208` look at the status only; then what was decoded
is delivered and the rest of the caller's structure is left as it was. (A field that
the failing decoder freed has type NONE and no successor, so the walk ends there; the
model drops it.) `populate` is one action per field and member, with a cursor in the
caller's buffer; `NoEntry`, `NoRoom` and `AllFields` are its ends, after which the
enumeration's offset moves whatever happened (`nss/passwd.c:290`). A field is its type
and the sizes of its entries.

## 3. What is checked

| Run | Bounds | Shows |
|---|---|---|
| `serial_any` | words 0..3, three types, bodies of at most 21 bytes and every body that `serialize` writes for at most three fields of two entries of sizes 0..2; `malloc` may fail | entries inside the body and disjoint, reads at most three bytes past it, types unique, nothing skipped, `unserialize` undoes `serialize` except that it refuses exactly the packets with an empty entry, termination |
| `serial_dangling` | two types, bodies of at most 21 bytes | violated: a field freed by an error path stays linked |
| `packet_list` | three threads with one call each, an empty list or one node, two types, counts 0..2 | the forward links are right at every moment, the rest when the lock is free; lookups find what was there; no type is added twice; the lock is held from `lock` to `unlock` and on no path longer |
| `packet_reorder` | two threads, `Reorder = TRUE` | violated: `get_by_offset` can run off the list, "We should never get here, really." |
| `exchange_faults` | two clients, one query each, requests of one part, responses of one or two, empty entries, every fault, default SIGPIPE | no mixed-up answers, the server holds one connection, TRUE only with the whole response, good requests are answered, `Query` is implemented; queries return and the server comes back to `accept`, with the exceptions below |
| `exchange_large` | two clients, requests of one or two parts, no fault | violated: a request of two parts is dropped |
| `exchange_status` | two clients, bodies of one part, empty entries, no fault | violated: a failed query can leave SUCCESS |
| `server_calls` | two types, two handlers, three nodes, three sockets | a lookup goes wrong only when the node it stands on is freed under it; no server takes another's path |
| `conf_shared` | two threads, five texts, two changes of the file in three seconds, `malloc` may fail | items of the last reading and none of a failed one, fresh but for the five reasons above, unchanged under a reader unless the file changed, the lock is given back |
| `conf_parser` | every text of up to five characters; every document of one or two lines of some 150 each, and one line with any value of up to three characters | what is written is read, what is accepted is understood to its last character, the scanner goes at most six characters beyond its buffer and never with a well-formed document |
| `conf_overrun` | every text of up to three characters | violated: the scanner reads beyond its buffer |
| `nss_calls` | two threads, one in a query at a time, two databases, responses of two fields and two members, buffers of 4 and 6 bytes | what is written lies in the buffer, SUCCESS delivers all the handler set if the query succeeded and what was decoded otherwise, ERANGE is said exactly of a buffer that is too small, each enumeration asks for every position once (an entry refused with ERANGE included: its position is passed, `nss/passwd.c:290`) |

**Why the bounds are enough.** In the codec the interesting cases are boundaries: a
header that sticks out of the body, a size that just fits, a merged record and a count
that wraps. Words up to 3 let a count wrap with four entries and keep the sizes small
enough that 21 bytes hold three records, so each of those happens. In the lists a
writer can be delayed between any two stores while another thread reads and a third
waits for the lock; three threads and a starting node give every pair of a writer and a
reader, and a wrap at 2 is reached. Connections share only the backlog and the server's
loop, and a second client is enough to wait in the one, to be served after the other,
and to receive something left over, and to meet a socket that the query of the first
has left open. In `Server` three nodes let a service be removed from the front and from
behind another one while a lookup is anywhere in the list, and three sockets let a
server restart beside a rival. In the configuration one thread parses while another
reads, and two changes fit around the three file calls; each of the five exceptions in
`Fresh` is necessary, since TLC refutes the property without any one of them within
these bounds. The scanner's transitions depend on one character and the next; five
characters hold a name, `=`, a quote and an unclosed value, and the documents add what
only longer texts show, such as a comment after a definition. In `Nss` threads share
nothing but what a wrong key would make them share, so one query at a time and two
threads show it; buffers of 4 and 6 bytes and strings of 2 make a response just fit and
just not fit, and a count that wraps at 2 is reached. `NssProofs` has no such bound.

**Fairness.** The codec is a loop in one thread: weak fairness of its next step. In
`Exchange` the server's thread and each client's keep running; faults and new queries
are never forced. That does not make the server come back to `accept` whatever its
clients do, and `ServerComesBack` names what is excepted: a query that failed leaves its
socket open (`service.c:108`), and the one server thread reads from it or writes to it
for ever (`Abandoned`; `server/unsock.c:89`); and the process can end by a write to a
client that died, since SIGPIPE has its default, or in the walk over a request that did
not decode (`Ended`). `QueriesReturn` has the first of these as its exception; when the
server ends, its clients' calls fail and they return. In `Conf` fairness is assumed only
of a thread that holds the lock, and nothing is claimed about a thread that waits for
it, since a mutex does not promise one its turn. The other modules state safety only:
that a packet call gives its lock back is the invariant `LockHeldInCall`, which needs no
fairness.

**Deadlock.** It is checked for `Conf`, whose threads can always go on. In the other
modules the system comes to rest when the decoder or scanner has returned, the calls are
used up, the clients have asked all their queries or the sockets are used up.

**Findings.** The five runs marked *violated* each check one statement of a comment in
the repository:

* `protocol/serial_packet.c:197`: a failing decode finalizes and frees a field that the
  packet still links, although "there is no API for removing a field from a packet".
* `protocol/packet.c:121`: the count and the links are read without the lock.
* `server/unsock.c:112`: one `read` for a body of any length; a short count drops the
  request (and, at `client/unsock.c:188`, the response).
* `service.c:100`: the status of a query that failed half way through decoding is not
  safe to read. It takes no fault: a handler that adds an empty entry is enough.
* `conf.c:262`: a comment that ends the file without a newline leads the scanner beyond
  its buffer, of which "an extra byte" is said to be left.

What the models show beyond statements of the repository is part of the properties above,
as the exception each of them names: the inverted test of `finalize`, the sockets of
failed queries, requests dropped for an empty entry and the walk over a freed field that
follows, the definition without a value, and the empty configuration after a failed parse
that counts as up to date.

## 4. What is proved

**`SerialPacketProofs`**, for every `WordMax`, every set of types, every header, every
body and every choice of `malloc`: types and loop bounds (`TypeCorrect`); what is stored
lies in the body and no byte is stored twice (`StoredEntriesInside`,
`StoredEntriesDisjoint`); at most three bytes past the body are read
(`OverhangBounded`); no two live fields of a type, and no freed field after a success
(`LiveTypesUnique`, `SuccessIsAlive`). Every byte the cursor passed is a field's header or
in an entry of the packet (`SkipsNothing` proves `NothingSkipped`), however records were
merged and whatever the counts wrapped to: the proof adds up, step by step, what the
fields hold, and a merge changes one summand. The properties alone are not
inductive: that two
entries are disjoint says nothing about the next one, so `IInv` adds that the cursor
stays in the body (`CursorInBody`), that every stored entry lies behind the cursor
(`EntriesBehindCursor`), which makes the next entry disjoint from all of them, and that
a field is only ever freed by the step that returns (`FreedAtReturn`), which keeps types
unique while the decoder runs.

`RoundTrip` (`PacketsComeBack`) is proved for every set of packets that a caller can
build: any number of fields, entries and bytes, types that are unique (`get_or_add`) and
counts that have not wrapped. Its invariant `FollowsPeer` says that the decoder is where
the peer's serializer was when it wrote the byte at the cursor: before the header of
field `k`, with `k - 1` fields stored (`BetweenFields`), or before entry `n` of a field
whose first entries are stored (`InField`), no entry passed so far being empty. That
needs the layout in closed form: the fields follow one another and fill the body
(`LayoutIs`, `FieldPlaces`), the entries their field (`EntryPlaces`), and no two headers
lie at one offset, so that each word the decoder reads is the one that was written for it
(`WordsOfField`). A decode that fails does so at an empty entry, which is refused, or
without memory.

**`PacketListProofs`**, for any threads, number of calls, types and `WordMax`: types
(`TypeCorrect`) and the lock (`LockIsHeld`) whatever the order of stores; and, assuming
`~Reorder`, the forward links at every moment (`ReadersSeeAList`), tail, previous links
and count when the lock is free (`WritersLeaveAList`), unique types (`OneFieldPerType`)
and the three promises to readers (`OffsetsAreThere`, `OffsetIsFound`, `TypeIsFound`).
`packet_reorder` shows that the assumption is needed. The argument: only the owner of the
lock has stores to make, and `Stage` says, for each of the eleven points between a
writer's stores, which of them are left and what the memory lacks until they are made.
The list only grows, and only at its ends, so the list a reader began with stays a
contiguous part of it (`Based`); `Walking` and `Searching` say how far the reader is in
that part, and that the nodes behind it were not what it looks for.

**`ExchangeProofs`**, for any number of clients and queries, any packets and any faults:
types, `ClientsKeptApart`, `SuccessIsComplete`, and that Exchange implements Query
(`ImplementsQuery`). `IInv` follows a connection through its life: a query not asked has
left no trace (`Unasked`), what its client has read fits where it is (`Asking`), nobody
reads more than was sent (`Counted`), the server has not touched what it has not
accepted (`Waiting`, `Queued`), and where its loop is tells what it has read and what
its locals hold (`Serving`, `Answered`). The refinement then is one lemma per kind of
step: beginning a query is asking, writing the status into the response is serving,
returning is returning, and every other step is invisible.

`GoodRequestsAnswered` (`SmallRequestsAnswered`) is false of requests that take two reads
(`exchange_large`), so the theorem has the hypothesis `SmallRequests`; everything may
fail. The requests that can be dropped are those the property itself excuses
(`Excused`): an empty packet, one that does not decode, and one in whose turn a signal or
want of memory struck (`cut`). `Healthy` adds to the invariant that a client past
`connect` holds its socket (`Opened`), that it writes the parts of its request and no
more (`Written`), of which the body is one (`OnePart`), and that a server that runs
leaves a request without an answer only when its client is gone or the request is excused
(`LeftForAReason`).

**`NssProofs`**, for any number of threads and of calls at once, any buffers, sizes,
fields and counts: types, `RegionsInBuffer`, `EnumerationExact`, `SuccessIsWhole`
(`SuccessIsUnpacked`) and `SlotsInArray` (`SlotsStayInArray`). `IInv` adds that what
is written lies before the cursor (`BehindCursor`), what a thread's locals are where it
is in its call (`Locals`), and that a thread which enumerates has asked for the position
at its offset (`Asking`). For the last two `Unpacked` says that populate's remaining fields
are the end of the response and those before them are unpacked (`Passing`), the same of the
members within their field (`Copying`), that a handler sets each type once (`Handled`), and
that members and array come from one field whose length is the array's (`ArrayFits`).
That the response is still the one the handler sent is an invariant of its own
(`Arrived`, `ArrivedInvariance`): the two are equal from the end of a query that succeeded
until the call returns.
`RangeMeansTooSmall` (`RangeIsExact`) is what the cursor adds up to: it stands at the sum
of what the fields before it need, and where `populate` refuses, one more does not fit.

**`ServerProofs`**, for any types, handlers, nodes and sockets: types, and
`OneServerPerPath`. That no two sockets listen does not say why, so `IInv` adds that a
bound socket is the one at the path or has lost its path (`NamedOnce`). `LookupRight`
(`LookupsAreRight`) is about the list of services while one is added and another looked up:
the links from the head lead through it and end (`Chained`), its nodes hold the services
registered, each in one node (`Filled`), and a service that was registered all the time is
still before a lookup that looks for it (`Walking`). That a node is before another is said
without recursion: it is in every set that is closed under `next` (`Reaches`).

**`ConfProofs`**, for any threads, texts, edits and seconds: types, `ConfigurationStays`
(`ConfigurationStaysUntilEdited`), `Fresh` (`UpToDateIsFresh`) and `OneReading`
(`ItemsOfOneReading`). Under the lock (`Mutex`) three chains of facts lead from `stat()`
to the items. *Nothing was edited since:* what `stat()` said holds until the next edit
(`Measured`), so a thread whose `stat()` still holds has a configuration that is up to
date, and nobody parses beside it (`Relied`). *No other file has that time:* a backup is
older than the clock, and is the file if it has the file's time (`Dated`), so when a
certain `stat()` reports a time no edit can give another text that time again (`Only`);
that text is what is read, then what is left to read behind the items reversed, then the
items (`CertainRead`, `CertainItems`). *One reading:* at each line, what is left behind
the items reversed is the reading that `source` recorded while there is memory, and no
more than it otherwise, and an error in it is still ahead while `valid` holds
(`PartlyRead`, `ReadOnce`); when it does not, the items are freed. Looking for this
invariant showed that `Fresh` needs the second of its exceptions, which takes four
changes of a file that has no backup yet; so that two changes meet it too, a file may
have its backup from the start.

**`ConfParserProofs`**, for files of any length and documents of any number of lines.
`TypeOK` (`TypeCorrect`) bounds the overrun by six characters: `Reached` says for each
label how far the cursor can be beyond the text there (`Beyond`); a name can begin at its
end, and what follows adds one character per label, the turn that skips an end of line two.
`NothingIgnored` (`NothingIsIgnored`) is about the whole of a file that was accepted, so
`Understands` says it of what lies before the cursor: all of it is accounted for, the
names and values read so far lie in order, and of the item being read the name, or name
and `=`, are known (`Named`, `Assigned`, `Valued`). The lemma `NewItem` is the counting:
a new item takes its name and value out of what is glue and leaves exactly one `=` more.
All this is said while no error was met and the scanner has not looked beyond its buffer,
since afterwards nothing is known of the cursor.

`ReadAsWritten` (`DocumentsAreRead`) holds of every legible document. First the layout:
the lines follow one another in the text (`Layout`, from the equations of `FlattenSeq`),
a line's parts within it (`PartsStand`), so that the characters at each place of a line
are known (`LineIs`, `DefinitionIs`). The invariant `FollowsDocument` then says that the
scanner is in some line, at the place its label calls for, and that the items say what
the lines before define (`InLine`). Three steps are not obvious. At the end of a line the
scanner may pass two lines, when the first ends in CR and the second is nothing but LF
(`EolStep`). Within quotes the loop never tests the character it lands on, so the
invariant says that this is no backslash before a quote (`~Escapes`), which is where
`Quotable` is needed (`WithinQuotes`). And labels that report an error are never
reached (`NoAssignNever`, `ValueSpaceNever`, `UnclosedNever`).

The assumptions are the named ones of the modules: texts are sequences of lines or of
characters, documents are legible, bounds are natural numbers, the null values are none of
the others, headers have their types, a packet to serialize has unique types, counts that
have not wrapped and a body that its header can tell, and `malloc` can succeed. TLC
evaluates them in every run.

**Only model-checked.** Termination, `QueriesReturn`, `ServerComesBack` and
`LockGivenBack` are liveness under fairness, which is outside the prover's reach. Every
other property of a run that passes is also a theorem.

## 5. Abstractions

* The data of entries, and the values of names and paths, are never looked at.
* A connection that is reset is modelled as one that ended: both make `read` fail to
  return the bytes that are asked for.
* Every node of a packet's list is a new one; memory that is given back and reused is
  modelled only in `Server`.
* In `Exchange` the lookup of a handler is one step and the set of services does not
  change; `Server` has the lookup node by node.
* The lookup of an adapter and the use of what it finds is one step in `Conf`.
* Allocations that leak but are not used again are not tracked.
* What a walk over freed memory does is undefined. `Exchange` lets it succeed or end the
  process, `Server` and `Conf` let it find anything.
* `ConfParser` leaves out the line count, which only serves messages, and a `malloc`
  that fails, which `Conf` has.
* `ReadAsWritten` is about documents the scanner is meant for, `Legible` ones. Left out
  are a plain value that is empty (it crashes), a comment in the last line without its
  newline (the scanner leaves its buffer), a quoted value that ends in a newline or a
  backslash (its closing quote is missed, `conf.c:342`, or is escaped), and one in which an
  escaped quote is the first thing on a line (the backslash is skipped untested). The
  other two properties cover all texts, those included.

## 6. Not modelled

Logging and the macros keep no state. The pam directory holds only build rules. The
accessors that read a request in a handler only copy a value that no property looks at,
and the conversion of numbers between byte orders loses nothing. `finalize` of the
client adapter and of the configuration are called by nobody in the repository. Two
hazards are listed without a property for the same kind of reason: a client that is
finalized after it was disconnected, which no caller does, and an entry leaked when its
data cannot be allocated, since no model tracks memory that is not used again.

## 7. What could follow

* The contents of entries, so that a query's answer can be compared with the text that the
  handler wrote.
