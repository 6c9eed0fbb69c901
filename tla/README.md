# dash2ts in TLA+

dash2ts turns an MPEG-DASH stream into an MPEG transport stream for VDR: it
loads Kodi's inputstream.adaptive as a library, plays the part of Kodi towards
it, multiplexes the packets it gets into transport stream packets and writes
them to a socket.  zattood, in the same repository, is a daemon that keeps a
session with the Zattoo servers, answers requests for stream urls on a fifo and
feeds the programme guide (EPG) into VDR.

This directory holds models of both programs in TLA+, the configurations that
check the models with TLC, and proofs of their main properties that TLAPS
checks.  Paths below are relative to the repository; `PROJECT.json` maps every
definition to the lines it models.

## Inventory

### dash2ts (src/src)

**Output ring** (`circular_buffer.hpp`).  State: an array of slots, `head_`,
`tail_`, `full_`.  Operations: `put`, `get`, `reset`, `empty`, `size`.  Used by
the output path only.  Hard: equal indices mean empty or full, a full ring
drops its oldest item silently, the indices wrap independently.  Correct when
it is a bounded FIFO.

**Output path** (`muxOutput()`, `sendpacket()` in `streamplayer.cpp`).  State:
the static counter `startbuffer`, the ring, malloc'd copies, the socket.  The
multiplexer calls it back with every output; the first 20 are copied and held
back, later ones are sent behind them without a copy.  Hard: `write()` may
accept a part of what it is offered, and the process may die at any step.
Correct when the reader gets what the multiplexer made, once and in order, and
no copy is leaked or freed twice.

**HTTP transfer pool** (`curlhandler.cpp`).  State: `curlhandler[10]`, each with
a status, a url, an easy handle that may be connected, options, a receive
buffer, a `FILE*`-like descriptor.  Operations: `curl_create`,
`curl_add_option`, `curl_open`, `read_file`, `get_response_header`,
`open_file_for_write`, `write_file`, `close_file`.  The threads of the add-on
call them concurrently; only `get_curl_instance()` runs under the mutex.
Correct when no two requests share an instance and nothing of an earlier
request is read or sent by a later one.

**Transport stream multiplexer** (`mpegts/`).  State: the continuity counters.
Operations: `encode()`, which writes PAT and PMT and runs `createPes()`.  Hard:
how the last packet of a frame is filled up, the length field, the counters
over many frames, the lengths and checksums of the tables, the bits of the
stamps.  Correct when packets have 188 bytes and a reader gets back the frames,
without gaps, with tables that can be read, in time.

**Packet loop** (`StreamPlay()` in `streamplayer.cpp`).  State: `makepmt`,
`sendpmt`, `audioseen`, `firstvideo`, `ID`, the timestamps.  It selects the
streams, reads packets from the add-on, converts them and calls the
multiplexer.  Hard: which frames are dropped and which bring the tables; what a
change of representation leaves behind; timestamps when the duration changes.

**Stream table and add-on interface** (`addonhandler.cpp`).  State: the streams
and their IDs in `ID_type[256]`, which every `GetStream()` lengthens.  The
callback `cb_get_stream_transfer()` opens the converters as a side effect.
Correct when the converters are open for the streams that are played.

**Bitstream conversion** (`bitstreamconverter.cpp`, `audioconverter.cpp`).
State: `m_to_annexb`, `m_convert_bitstream`, the parameter sets, the width of
lengths, `first_idr`, `idr_sps_pps_seen`; the configuration the ADTS headers
describe.  Operations: init, open, close, convert.  Hard: parameter sets come
from the stream information or from the packets, have to be in front of IDR
pictures and must not get into one, and the flags that remember this live over
many packets, broken ones and stream changes among them.  Correct when every
IDR picture can be decoded and frames are neither cut nor mixed.

**Demux packets**, **settings**, **strings**: allocation, parsing at the start,
pure functions.  **Process** (`dash2ts.cpp`): options and the signal handler.

### zattood (src/zattoo/src)

**Session** (`Session.cpp`, `ZatData.cpp`, `http/HttpClient.cpp`).  State:
`m_isConnected`, the connection state, the application token, the time of the
next login, the channel groups, `m_epgProvider`.  Three threads use all of it
without a lock: `LoginThread()`, `main()` and the details thread of the EPG
provider.  Hard: any of them may get a 403 and run `Reset()` between any two
steps of the others; a new login deletes and replaces the EPG provider whose
thread is running; a failed login is retried.  Correct when the details thread
never outlives its provider, there is one of them, a session that is connected
is served, and an expired one comes back.

**EPG provider** (`epg/`).  State: `m_detailsThreadRunning`, the lists of
channels, the static socket of `svdrpsend()`, the `details` of the programme
before.  Its constructor starts the details thread and its destructor joins it;
the thread sends VDR the guide of each channel, in rounds an hour apart.  Hard:
VDR and the servers may go away between any two steps, and the variables of a
round live longer than what they were set for.  Correct when programmes have
their own descriptions, the socket is closed between calls and the rounds go
on.

**Cache** (`http/Cache.cpp`).  State: one file per programme with a time of
expiry.  Operations: `Read`, `Write`, `Cleanup`, all used by the details
thread.  Hard: what a process that ended left behind.  Correct when a file that
cannot be read is no worse than none.

**Transfer pool of zattood** (`http/curlhandler.h` behind `http/Curl.cpp` and
`http/HttpClient.cpp`).  State: `curlhandler[10]` without kept connections, the
session `m_beakerSessionId`.  Operations: a request in the steps of the pool of
dash2ts, and files.  Three threads use it at once.  Correct when a thread sends
what it means, gets what is its own and hears of a refusal.

**Fifo** (`zattood.cpp`, `zattoostream.cpp`, `GetChannelStreamProperties()`).
State: one pipe for both directions, the `url` and `license` of `main()`, the
url and license saved with each channel.  Hard: viewers that meet or are killed,
look-ups that fail, restarts.  Correct when each viewer is answered, once, with
the stream of its channel and the license that belongs to it.

**Databases, settings, helpers**: key-value storage, reading, pure functions.
`UpdateThread.cpp`, `sql/EpgDB.cpp`, `sql/RecordingsDB.cpp` and `categories.cpp`
are not compiled by any Makefile, and `addons/kodi-dev-kit` is vendored.

### How the parts interact

    add-on threads --curl_create/open/close--> HTTP transfer pool
    add-on --DemuxRead--> packet loop --encode()--> multiplexer
      --muxOutput()--> output path --write()--> VDR
    zattoostream --fifo--> main() of zattood --requests--> session
    session --creates, deletes--> EPG provider --requests--> session, --SVDRP--> VDR
    session, main(), EPG provider --HttpRequest()--> transfer pool of zattood
    EPG provider --HttpGetCached()--> cache --files--> transfer pool of zattood
    zattoostream --execl()--> dash2ts

The calls from the packet loop to the output path are synchronous in one
thread.  The threads of the add-on meet only in the transfer pool, the threads
of zattood in the session and in their own pool.  dash2ts and zattood share
nothing at run time but the url and license that zattoostream passes on.

## Modules

| module | what it is |
| --- | --- |
| `BoundedQueue` | abstract: a FIFO that drops its oldest item when full |
| `CircularBuffer` | `circular_buffer.hpp`; implements `BoundedQueue` |
| `OrderedChannel` | abstract: what is sent is received, in order, once |
| `OutputPath` | `muxOutput()` and `sendpacket()` with their ring, which is `CircularBuffer` itself; implements `OrderedChannel` when writes are whole |
| `LeasePool` | abstract: each instance lent to one client at a time, refused only when all are |
| `CurlPool`, `MCCurlPool` | `curlhandler.cpp`; implements `LeasePool` |
| `ServedSession` | abstract: a provider and its thread are replaced as a whole, and only while the session is not connected |
| `ZattooSession` | the session with its three threads; implements `ServedSession` |
| `TsMuxer` | `StreamPlay()`, `encode()`, `createPes()` and a reader |
| `PsiTables` | the bits of headers, PAT, PMT, checksum, PTS, DTS and PCR |
| `MCTsMuxer` | both of them: what a reader makes of tables and stamps |
| `StreamPlay`, `MCStreamPlay` | `StreamPlay()` with the stream table, the converter of NAL units and a decoder |
| `Exchange` | abstract: one request at a time, answered once with its channel or an error |
| `FifoRequest`, `MCFifoRequest` | the loop of `main()` in zattood, `GetChannelStreamProperties()` and zattoostream; implements `Exchange` for viewers that take turns |
| `ZattoodHttp`, `MCZattoodHttp` | the transfers of zattood; implements `LeasePool` without files |
| `EpgRound`, `MCEpgRound` | the rounds of the details thread, the cache and the connection to VDR |
| `*Proofs` | the theorems about the module of that name; `OutputPathProofs` also about `CircularBuffer`, `TsMuxerProofs` about the stamps of `PsiTables` |

An operator whose comment begins with "Mutant", or that says what a bug would
do ("A put() that forgets ..."), is a wrong version of the definition below it.
No specification uses it; putting it in the place of the definition must make a
property fail, which shows that the property depends on that line of the code.

### CircularBuffer

`buf_`, `head_`, `tail_`, `full_` are the members of the class, `out` is what
the last `get()` returned.  Every member function locks `mutex_` for its whole
body, so `Put`, `Get`, `GetNothing` and `Reset` are one action each.
`SlotFrom(tail_, i)` is the slot of the i-th stored item; `Contents` is the
queue the ring stands for.

### OutputPath

The module extends `CircularBuffer`: `buf_`, `head_`, `tail_` and `full_` are
variables of it, and the callback uses the ring by `Put`, `Get` and `Size` as
the code does.  `rbuf` is what the ring holds and `buf` what was taken out last,
both defined from its state.  `pc` is where `muxOutput()` is: between callbacks (`idle`), in
the loop that drains the ring (`drain`), in `sendpacket()` for a copy (`copy`)
or for the output it was called with (`latest`).  An output is its number and
length; `heap` is the set of copies that are not freed, `wire` the pieces that
`write()` accepted.  One `Write` action is one call of `write()`: it always
offers the output from its first byte, as the code does.  `EndOfStream` is
`DemuxRead()` returning NULL, `Kill` the signal handler's `_Exit(0)` or SIGPIPE
at any step.  A failing `write()` on the socket changes nothing and is a
stuttering step.

### CurlPool

`curlhandler[i]` has the fields of the class that matter between requests; a
string is abstracted to the client whose request it came from (`Earlier` when
that request is closed), so that "somebody else's body" can be expressed.
`curl_create()` and `open_file_for_write()` hold the mutex and are one action
each.  `curl_open()` is `CurlOpen` and `Perform`, `close_file()` is `CloseFile`
for a file, and `CloseClear` and `CloseRelease` for a transfer, because it runs
without the mutex and makes the instance available in its last assignment.
`conn` is what the easy handle has been connected to, as pairs of the host that
was asked and one that was reached: `curl_open()` follows redirects, so that the
two may differ.  The code's pointers that stay behind after `free()` are kept as
the value "freed", and `fault` records that a url or an easy handle was used
then.  The User-Agent is not part of `fault`: a request that gives none uses
what an earlier one left, and the model shows it as "freed".

What the model assumes of the add-on, which is not in the repository: a thread
uses one file at a time and closes it once.

### ZattooSession

`pc` is where each of the three threads is.  `reset`, `resetToken` and
`resetState` are the three assignments of `Session::Reset()`, run by whichever
thread got a 403; `back` is where it then goes on.  `LoginThread()` goes through
`appid`, `hello`, `session`, `account` (the requests of `Login()`), `delete`,
`join`, `load`, `append` (`SessionInitialized()`), `publish` and `announce`
(the last two assignments).  `session` is what the servers know of the cookie:
nothing, a session without an account, or one with it.  `Expire` lets the
servers forget it, and every request may fail; both cost one of `MaxTroubles`.
`provider` is `m_epgProvider` including the state in which it still points to
a deleted object.  In `ServedSession` there is a provider while it is live, and
a details thread until it has left its loop.

The code has data races on the channel groups.  `Race` makes one a step that
ends in a `fault`, after which no thread does anything: behaviour after undefined behaviour
is not described, and the safety properties hold up to it.  The liveness
properties say "or memory was broken".

### TsMuxer

One frame is multiplexed at a time.  `ReadAudio` and `ReadVideo` are a round of
the loop of `StreamPlay()` up to `encode()`, with the tables if `makepmt` or
`sendpmt` ask for them; `CreatePes` is one round of the loop of `createPes()`,
one TS packet.  A byte of a packet is a pair of its kind and a number, so that
the adaptation field can be cut off by its own length byte, as a reader does,
and what is left can be compared with the frame.  The reader (`expect`, `gap`,
`tables`, `age`, `got`) knows the format and nothing of the multiplexer.
Dropped frames change no state and are steps that stutter; `StreamChange` opens
the converter for another kind of video.

### PsiTables

Buffers are sequences of bits.  A header is a record and its layout the list of
its fields with their widths, in the order in which `encode()` and `decode()`
of `ts_packet.cpp` go through them; what differs from field to field in the
code is only shift and mask, which the widths stand for.  `Pat` and `Pmt` are
`createPat()` and `createPmt()` with the section lengths they compute and
`crc32()` as a division of polynomials over sets of exponents; `WritePts`,
`WritePcr` and their readers are those of `common.cpp`.  They keep no state;
`MCTsMuxer` applies them to what the multiplexer of `TsMuxer` is about to
write: `TablesAreRead` has a reader follow the lengths and pids it finds,
`HeaderIsRead` compares what goes into a stamp with what comes out of it and
looks for start codes in the header that the reader would take for another
packet.

### StreamPlay

`TsMuxer` takes frames as they are; this module is about how they come about.
`phase` is where `StreamPlay()` is: before `GetStreamIDs`, while the table is
built, before the streams are started, in the loop (`play`), in
`BitstreamConvert()` (`convert`).  Positions in the list of streams stand for
the add-on's IDs, 0 for the -1 of the code.  `conv` has the static variables of
the converter that outlive a call; `ConvertNal` is one round of the loop of
`BitstreamConvert()`, one NAL unit, and `ConvertFails` its `goto fail`.
`StreamChange` is all that the loop does when it reads a
`DMX_SPECIALID_STREAMCHANGE`: close the converter, enable, open and transfer
the stream `ID`, which makes the table longer and opens a converter.  `adts` is
the stream and the representation of the last `AudioConverterOpen()`, which keeps
profile, rate and channels for the headers; what a change opens again is always
the first stream, so that the headers of audio in another place stay as they
were.

A NAL unit is its kind; "params" is an SPS with its PPS, which H.264 streams
carry together, and has the name of the stream and the representation it
belongs to.  `frame` is the last frame that went to the multiplexer, with what
the decoder had before it.  The decoder (`params`, `joins`) knows H.264 and
nothing of the converter.

What the model assumes of the add-on: it delivers packets of opened streams
only, it lets a stream change precede the packets of another representation,
and packets that are in Annex B form already bring their own parameter sets.
That a packet is broken (its last NAL unit is longer than what is left) is
allowed.

### FifoRequest

`pipe` is what is in the fifo, message by message; `end` the end that a process
has open or waits to open.  `Open`, `Close`, `Readable` are the rules of the
operating system: `open()` waits for the other end, a process that waits counts
as one, `read()` returns nothing when there is neither data nor a writer, and
what is in the pipe when the last process closes it is lost.  `Start`, `Ask`,
`CloseRequest`, `OpenReply`, `ReadReply`, `CloseReply` are the system calls of
zattoostream, `Listen`, `ReadRequest`, `StopListening`, `OpenAnswer`,
`WriteAnswer`, `CloseAnswer` those of zattood, and between them `UseSaved`,
`LookUp` and `Fail` are `GetChannelStreamProperties()` with the loop over the
properties behind it.  The url of a channel is the channel itself, its license
too; so "the license of another channel" can be said.  A reply with a stream
that zattood reads itself is torn, for it has more than the 50 bytes of a
`read()`; one with ERROR may be, as its license is long or short, and may be
read together with what follows it.  What `atoi()` makes of the pieces is any
number.

`turns` chooses in Init whether viewers come one after another and are left
alone, as VDR with one device does, or anyhow; `complete`, whether every stream
the servers name has a list of `watch_urls`; `crossed` remembers that zattood
has read an answer of its own.  In `IsExchange` the refinement maps only
behaviours with `turns`: the others do not implement it, which is one of the
observations below.

### ZattoodHttp

As in `CurlPool`, an instance is a record and each piece of code between two
points where other threads can interfere is an action: `CurlCreate` and
`OpenFileForWrite` hold the mutex, `CurlAddOptions`, `CurlOpen` (with the
callbacks, up to the response), `ReadResponse` run on an instance that the
thread has alone, and `close_file()` is `CloseRelease`, which ends with the
status, and `CloseCookie`, which comes too late.  `request` is what
`HttpRequest()` was called with and the session at that time, `served` is what
the servers saw and answered, `result` what the caller gets.  `Return` is the
end of `HttpRequest()` with the assignment of the session.  `Die` is libcurl
being given the `(void*)1` of a file.  `mode` chooses in Init whether no files
are written (`http`), one thread writes them (`files`), or `curl_easy_init()` may
fail (`scarce`): then `curl_create()` returns an instance that is still
available, two threads may have it, and the properties claim nothing.

Unlike in `CurlPool`, connections are not kept and `post` is cleared after each
transfer, so that what `curl_post` shows for dash2ts does not happen here.

### EpgRound

`pc` is where the details thread is: `clean` (`Cache::Cleanup()`), `greet`
(waiting for VDR's channels), `load`, `channels` and `programmes` (the loops of
`LoadEPGForChannel()`), `sleep`, `down`.  A cache file is its length and the
length of the text that can be read from it, 0 if it is not JSON any more;
`Written` is `Cache::Write()` without `O_TRUNC`, `Cut` the same when the disk is
full or zattood ends in it.  `Put`, `Quit` and `BrokenPipe` are `svdrpsend()`
with a static socket, `sockfd`, that VDR may have closed.  A description is the
programme it is of and its length.  `Expire`, `HangUp`, `VdrStops`, `Crash`
come at any step, `Restart` reads the cache anew; `calm` chooses in Init
behaviours in which VDR, servers and disks do what they should, and only those
have liveness.

## Runs

| run | configuration | result | what it shows |
| --- | --- | --- | --- |
| `circular_buffer` | `CircularBuffer.cfg` | holds | the ring is a bounded FIFO |
| `output_path` | `OutputPath.cfg` | holds | copies are owned, outputs in order and callbacks return whatever is written at once; with whole writes it is an ordered channel |
| `output_twice` | `OutputPathTwice.cfg` | violated | a short write repeats the beginning of an output |
| `curl_pool` | `CurlPool.cfg` | holds | requests are separate, connections are kept for the host of their instance, no memory fault, the pool implements `LeasePool`; with file writers and failing calls too, a busy instance is left alone |
| `curl_post` | `CurlPost.cfg` | violated | without files and failing calls, an instance that once posted posts again |
| `zattoo_session` | `ZattooSession.cfg` | holds | the session implements `ServedSession`, a connected one is served, recovery, main() is served |
| `zattoo_deleted_twice` | `ZattooSessionTwice.cfg` | violated | the provider is deleted twice when channels cannot be loaded |
| `ts_muxer` | `TsMuxer.cfg` | holds | packets are whole, frames arrive, lengths and counters are right, tables come in time and can be read, stamps come out as they went in and look like no start code |
| `stream_play` | `StreamPlay.cfg` | holds | IDR pictures find their parameter sets over stream changes, frames are whole, headers are those of their stream |
| `fifo` | `FifoRequest.cfg` | holds | viewers in turn are answered once and for their channel; url and license belong together; what it takes to wedge zattood |
| `zattood_http` | `ZattoodHttp.cfg` | holds | requests, answers, cookies and sessions are a thread's own; a refusal is reported; the pool implements `LeasePool`; all of it while `curl_easy_init()` does not fail |
| `epg_round` | `EpgRound.cfg` | holds | descriptions are their programmes', no connection outlives a call, rounds go on although zattood ends and restarts |

The runs check what could really be wrong with the code.  Invariants that the
theorems need on their way, and that hold with them for all sizes, are not
checked a second time: `StoredItems`, `CaughtUp`, `RingSuffices`,
`EpgThreadHasProvider`, `OneDetailsThread`, `EndsOK`, `TypeOK` and what the
abstract specifications promise.  Only the `TypeOK` of `FifoRequest` is, for it says what an answer
may hold.

### Bounds

- `CircularBuffer`: three slots let `head_` and `tail_` wrap at different times
  and the ring be empty, half full and full at every position; three items tell
  any two slots apart.
- `OutputPath`: `StartBuffer` 2 of 3 slots instead of 20 of 100, and outputs
  beyond it, so that holding back, the first drain and direct sending all
  happen; lengths that are and are not a multiple of the packet length.  A
  packet of three bytes can be accepted in every division.  `Init` chooses
  between the socket and a file (`tcp`) and between readers that accept whole
  outputs and any other (`whole`).  The theorems do not depend on the sizes.
- `CurlPool`: two instances for three threads, so that one is refused and idle
  instances are taken over; two hosts, so that taking over an instance changes
  its host and each may redirect to the other.  By `NothingPosted` the threads of
  `curl_pool` give no postdata, which only `curl_post` asks about.
  `PlainBesideFiles` lets the threads ask one host, which redirects nowhere, and
  give no option in those behaviours in which files are written or
  `curl_easy_init()` fails: the question there is whether an instance is taken
  while it is busy.  `curl_post` has two threads that write no files.  Clients and
  hosts are interchangeable; the run checks only safety, for which symmetry is
  sound.
- `ZattooSession`: two troubles are the least with which the session can expire
  and the login after that fail, or two expiries meet.  The safety theorems
  have no bound.
- `TsMuxer`: packets of 40 bytes instead of 188, whose first packet has room for
  9, 14, 17 or 22 bytes of a frame (video or audio, one or two timestamps) and
  later ones for 36.  The sizes cover every amount of stuffing in the first
  packet, 0, 1 and 2 bytes of it in the second, and frames of one, two and
  three packets.  `MaxPes` 60 lies inside the range, `CcSize` and `PmtInterval`
  are 3.  `age` is bounded by `TablesInTime` itself.
- `StreamPlay`: two representations whose lengths have four and two bytes, so
  that a converter opened for the wrong one cannot read the packets; three
  changes, so that one can undo another and a third comes with the flags both
  left; the video first, with a usable audio stream, with one that is passed
  over, and in Annex B form, and the audio first (`SomeLayouts`), so that the
  stream that is opened again is the one or the other; pictures of one and of two slices, with and
  without parameter sets, whole and broken.
- `PsiTables`: every counter of `ts_muxer`'s run, both streams that dash2ts
  sends, and for the stamps all times whose set bits are a range of the 33,
  which has every bit set and cleared beside each of its neighbours.
- `FifoRequest`: two channels, so that a license can be that of another; three
  viewers, the least with which two meet at the fifo beside one that has been
  answered or killed.  `FewerAtOnce` keeps all of that for viewers that take
  turns, and for viewers at once limits channels with a license to one and the
  pipe to two messages; after zattood has read an answer of its own, to one
  message, none and no restart.
- `ZattoodHttp`: three threads and two instances, so that one is refused and an
  instance is taken between `CloseRelease` and `CloseCookie` of its last user.
  By `TwoTalk` one thread is only refused, new sessions come with one of the
  two pages and the thread that writes files then makes no requests; by
  `OnePage` those who ask while `curl_easy_init()` may fail ask for one page, for
  nothing is claimed of them.
- `EpgRound`: a channel with two programmes, one without and one VDR does not
  have; descriptions of length 0 to 2, so that one can be shorter than the one
  before and a write can stop in the middle; every combination of cache files
  to begin with.  No step is bounded.

Deadlock is checked in `circular_buffer`, the runs of `CurlPool`, `ts_muxer`
and `epg_round`.  An output path and a packet loop end when the stream does, a
session stops at a fault, the viewers of a fifo are finite and zattood waits
for another, and a process that used `(void*)1` as a handle is gone; these runs
say so in their configurations.

### Fairness

- `OutputPath`: weak fairness of the steps inside a callback.  The thread runs,
  and the reader accepts at least one byte after some time: the loop repeats a
  failed `write()`, which is a stuttering step that weak fairness ends.  A
  reader that never reads again without closing the connection would block it.
- `ZattooSession`: weak fairness of each thread's steps, for the operating
  system schedules them and every request ends by an answer or a timeout; of
  `Elapse`, for waiting times end; and strong fairness of `SendHello`.  The
  last excludes one schedule only: that in every login another thread's
  `Reset()` clears the token between two adjacent statements.  A `Reset()`
  takes microseconds while logins are at least a minute apart.  Nobody has to
  send a request on the fifo, and troubles are bounded: liveness is about what
  happens when they are over.
- `FifoRequest`: weak fairness of zattood's loop with its restart, which
  `zattood.service` promises with `Restart=always`, and of the steps of each
  viewer that has begun.  The steps of `open()` and `read()` are enabled only
  when the other end is there: that is what can keep a process waiting.  The
  servers answer or refuse.
- `ZattoodHttp`: weak fairness of each thread that is in a request.  It means
  that a transfer ends, and `curl_open()` sets no limit but for connecting: it
  is the servers that must end it.  Whether a request is begun is left open.
- `EpgRound`: weak fairness of the details thread with the restart of zattood.
  `RoundsGoOn` is about behaviours that are `calm`; VDR being up is one of
  them, and everything else a round does is its own.
- `Wake` has a guard about timing: the details thread sleeps ten seconds before
  its first request while `main()` looks at the connection state every three,
  so `main()` sees the connected state before the details thread does anything.

## What is proved

`tlapm` checks all of these with no step left out.  `TypeOK` is part of each
inductive invariant, so that it holds under the conditions in the last column.

| module | theorem | for every |
| --- | --- | --- |
| `OutputPathProofs` | `RingSafety`: types, stored items | number of slots, item set |
| | `RingRefinement`: the ring implements `BoundedQueue` | same |
| | `LedgerHolds`, `Ownership`, `Order`; `RbufIsQueue`, `RingIsEnough` | number of slots, start buffer that fits in it, lengths, kind of write |
| | `NoneHeldBack` | same; what it says of the reader, if `whole` |
| | `Refinement`: implements `OrderedChannel`; `ReaderHasPrefix` | same, if `whole` |
| `CurlPoolProofs` | `PoolInvariant`, `Separation`, `LeasePoolRefinement`, `LentOnce` | numbers of instances, threads, hosts, if `http` |
| | `Connections`; `MemorySafety` | same |
| | `TypeCorrect`, `BusyUntouched` | numbers of instances, threads, hosts, also with files and failures of `curl_easy_init()` |
| `ZattooSessionProofs` | `SessionInvariant`, `DetailsThreadOwned`, `Served`, `OneThread`; `Refinement`: implements `ServedSession`; `Promise` | number of troubles, with and without VDR |
| `TsMuxerProofs` | `MuxerInvariant`, `WholePackets`, `Arrival`, `TrueLength`, `Continuity`, `TablesRepeat` | packet size above 31, sizes of frames, modulus, interval, largest length |
| | `StampsAreRead` | time of 33 bits and bits in front of it |
| `StreamPlayProofs` | `PlayInvariant`, `AlwaysDecodable`, `AlwaysParametersFirst`, `AlwaysRepeated`, `AlwaysWhole`, `TypeCorrect` | lists of streams, representations, widths of lengths, packets, number of changes, if `VideoFirst` |
| | `AlwaysOwnHeader` | same, without `VideoFirst` |
| `ZattoodHttpProofs` | `HttpInvariant`, `AnswersAreOwn`, `RequestsAreOwn`, `SessionsAreGiven` | numbers of instances, threads, pages, sessions, one thread that writes files, if `curl_easy_init()` does not fail |
| | `LeasePoolRefinement`, `LentOnce` | same, if `http` |
| | `TypeCorrect` | numbers of instances, threads, pages, sessions, also when `curl_easy_init()` fails |
| `FifoRequestProofs` | `TypeCorrect`, `EndsMatch`, `LicenseOfItsUrl`, `WaitsForReaders` | numbers of viewers, channels, kills and restarts, in whatever order the processes come |
| | `Refinement`: implements `Exchange`; `AnswersFit` | same, for viewers that take turns |
| `EpgRoundProofs` | `EpgInvariant`, `TypeCorrect`, `DetailsAreOwn`, `ClosedBetweenCalls` | guides, caches, channels of VDR, lengths of descriptions |

The assumptions are the named ASSUMEs of the modules, which TLC evaluates in
the runs, and a condition that theorems state themselves: `VideoFirst` (the only
video stream is the first of the list).  Other conditions are parts of the properties, and of
behaviours that `Init` chooses: `whole` (`write()` accepts all of an output),
`http` (no thread writes files and `curl_easy_init()` succeeds),
`turns`, `complete`, and in `WedgedByKill` that nobody was killed and none met.
They are needed: without them the properties are false, as described under
Findings and Observations.

The arguments:

- *CircularBuffer.*  `SlotFrom` contains `%`; the lemmas `SlotFromIs` and
  `FollowingIs` replace it by a case distinction, after which each step is
  linear arithmetic.  The invariant that the stored slots hold items is needed
  for the refinement: without it the contents are no sequence of items.
- *OutputPath.*  The path extends the ring, and its proofs use of the ring only
  that `Put` and `Get` are steps of a queue (`PutIs`, `GetIs`, from the invariant
  of the ring, which is part of the path's).  `CopiesOwned` alone is not
  inductive: it does not say which copy comes next.  `Ledger` says where each
  output is: the first `Done` ones have been through `sendpacket()`, one may be
  in its hands, the next are in the ring, the last one may be the latest.  That
  the ring never drops a copy follows from
  `startbuffer + Len(rbuf) <= StartBuffer <= TElemCount`, and with it
  `RingIsEnough`.  With whole writes `Len(wire) = Done` is added, which gives
  the channel.  Every step of the path is one of the ring or leaves it alone,
  whence `RbufIsQueue`.
- *CurlPool.*  `Marks` makes the status agree with who holds an instance (in
  both directions; one of them is needed for separation, the other for
  refusing), `Handles` excludes the `(void*)1` of files, and `Contents` says
  whose data an instance holds, none when it is not lent.  `Links` ties the name
  of an instance to the host of whoever has it and a connection to the name, for
  it was opened by requests for that host wherever they were redirected, and
  no connection to an instance without a handle: taking over an idle one closes
  its handle before it is renamed.  `Memory` says who can rely on the User-Agent
  of his instance, from the option to `close_file()`, which frees it and leaves
  the pointer.  `BusyUntouched` is about single steps and needs the types only.
- *ZattooSession.*  `Loc` is where the login thread is or goes on after
  `Reset()`.  The invariant ties the places of `SessionInitialized()` to the
  provider and says that `m_isConnected` is set only while the login thread
  polls or announces.  This is what makes the unprotected flag harmless:
  other threads only clear it.  For `ServedSession` two facts are added
  (`ThreadGoesOn`): a thread that is in `Reset()` does not end with it, and one
  that was not told to stop has not left its loop; with them each step of the
  three threads is a step of `ServedSession` or none.
- *What abstract specifications promise.*  `ServedSession!Served`,
  `OrderedChannel!Delivered`, `LeasePool!Exclusive`, `Exchange!Fitting` and
  `OneOpen` are proved from the abstract steps, and the types of what they are
  mapped to, and the refinement carries them to the code's model.  That a connected session has a details thread,
  without which nobody would get the 403 of an expired session
  (`SessionRecovers`), is such a consequence.
- *TsMuxer.*  `PacketProperties` proves about one packet, for every frame and
  position, that it is whole and what a reader takes out of it; the invariant
  adds that the reader's expectation of each PID agrees with the counter, and
  that the age of the tables is at most what `sendpmt` has gone down by.
- *StreamPlay.*  `Decodable` speaks of a frame that has been sent; the
  invariant speaks of the decoder between frames.  Its main part, `HeldOK`,
  says that unless the converter is going to add parameter sets to the next
  IDR picture, the decoder has those of the representation in use or finds them
  in the packet at hand.  That `Rearmed` needs a slice of another picture is
  what keeps parameter sets out of the middle of one, together with the
  assumption about H.264 packets.  `RepeatOK` ties the flags of the converter to
  what the decoder was given last: `first_idr` is set whenever that was no IDR
  picture.  `WholeOK` describes the output in the middle of a packet: a
  one-to-one map from the part of the packet that has been consumed to the units
  of the output that were not added, which `ConvertNal` extends by one; it is
  stated with a function and not with `SelectSeq`, a recursion the provers
  cannot unfold.  `HeaderOK` is an invariant of its own, without `VideoFirst`: of
  the two streams that are played one is the audio, and the headers describe it;
  when it is also the one that is opened again, they do so in its current
  representation.
- *FifoRequest.*  `EndsOK` says which end of the fifo a process has at each
  place of its program, and that one waits in `open()` only while nobody has the
  other end.  `UrlOK`: between two answers `url` is empty or ERROR, while one is
  given it is of the number that was asked for; `LicenseOK` then follows a url
  with its license through the list of channels, `main()`, the pipe and the
  answers.  `Awaited` counts who waits: while zattood has a request there is a
  viewer that has asked, one that will yet read, and one more for a request
  that is still in the pipe.  `InTurn` tells, from the place of the only
  viewer that is not at rest, where zattood is and what is in the pipe; each
  system call then is a step of `Exchange` or a stutter.
- *Stamps.*  What is appended to a sequence of bits does not change what is read
  in front of it, so that each of the three parts of a time is found where
  `writePts()` puts it.
- *ZattoodHttp.*  `Marks` as in `CurlPool`; the instance of a file is not
  marked, so that the invariant says of it only that nobody else holds it, and
  it needs `OneFileClient`: two threads that write files would share an
  instance.  `Cleared` says that an instance that can be taken has neither
  data to post nor a session or body in it; a status line it may have, and a
  cookie.  `Own` follows a request through its instance.  That the late
  `CloseCookie` harms no more than the cookie is the step in which two threads
  use one instance.  `Lent` is added for the pool: without files every busy
  instance is held by a thread that goes on.
- *EpgRound.*  `OwnDetails` speaks of what VDR has; the invariant adds the same
  of `epgdata`, and `NothingKept`: `details` is empty whenever it is not about
  to be written over.  The socket is its own invariant.

Only model-checked:

- liveness (`CallbackReturns`, `Reinit`, `SessionRecovers`, `MainServes`,
  `Served`, `DenialReported`, `RoundsGoOn`), for the prover does not treat
  fairness and ENABLED;
- `TablesAreRead` and the start codes of `HeaderIsRead`: what folds over bits
  and the checksum compute for every table is an induction over data, which the
  installed provers do not do.  What `HeaderIsRead` says of stamps is proved by
  `StampsAreRead`.

Every other property of a run that holds is stated by a theorem.

## Findings

Each is shown by a run that ends in a violation; the quoted lines are in
`PROJECT.json`.

1. `output_twice` - after a short `write()` the loop offers the output from its
   first byte again (`streamplayer.cpp:97`): the beginning is sent twice.
2. `curl_post` - `post` is never cleared, so that every later request on an
   instance that once posted is a POST with the old data (`curlhandler.cpp:298`).
   In the trace a thread gives post data, closes its handle and gets the same instance
   for a request to which no data are added.
3. `zattoo_deleted_twice` - `SessionInitialized()` leaves the deleted provider
   in `m_epgProvider` when `LoadChannels()` fails (`ZatData.cpp:1261`); the next
   login deletes it again.

Observations made while modelling that no document of the repository
contradicts and that have no run:

- Parameter sets that come in a packet set `idr_sps_pps_seen` without clearing
  `first_idr`, and the reset that would prepare for the next IDR picture is not
  reached again (`bitstreamconverter.cpp:742`, `755`): later IDR pictures go out
  without parameter sets of their own, though a decoder that has read the
  stream from its beginning has them (`Decodable` holds).
- `SelectStreams()` leaves -1 when there is no video or audio, and
  `StreamPlay()` uses it as an index (`streamplayer.cpp:285`): whatever lies in
  front of the array is then opened.
- The time stamps are computed anew from `pts / duration` of each packet
  (`streamplayer.cpp:340`): with a changed duration they jump, and a duration
  of 0 divides by it.
- Viewers that meet: zattood can be back at the fifo before a viewer has read
  its answer.  When another viewer opens it just then, zattood reads its own
  answer as a request, the first viewer gets nothing and zattood waits for a
  reader that is gone (`WedgedByKill` fails without `crossed`).
- A viewer killed between its request and its answer leaves zattood in `open()`
  (`zattood.cpp:181`), and every later viewer with it: they too begin by opening
  the fifo to write, and nobody is left who reads.
- A first request that fails is not answered, for `url` is empty
  (`zattood.cpp:178`); later failures are answered with ERROR.
- `license` keeps its value from one request to the next (`zattood.cpp:172`):
  without `watch_urls` in the answer a stream is sent with the license of
  another channel (`UrlWithItsLicense` needs `complete`).
- zattoostream takes a reply apart with `strtok()`, which skips an empty
  license, and does not look at what `read()` returned
  (`zattoostream.cpp:124-128`).
- A cache file that cannot be parsed is deleted and then still asked for its
  expiry (`Cache.cpp:140`), which the JSON library answers by an assertion;
  answers of the servers that are JSON but no objects do the same.  Such files
  come about because `open_file_for_write()` opens without `O_TRUNC`
  (`curlhandler.h:437`).
- The pool of zattood does not mark the instance of a file as busy either
  (`curlhandler.h:440`), clears the cookie after it has made the instance
  available (478), and cleans up `(void*)1` when a file could not be opened
  (461).
- The data of the last channel are sent to VDR once more between two `quit`
  commands (`ZattooEpgProvider.cpp:325`).
- The first 20 outputs are sent only by the 21st callback
  (`streamplayer.cpp:131`): a stream that ends before that sends nothing.
- The loop that waits for VDR's channels does not look at
  `m_detailsThreadRunning` (`ZattooEpgProvider.cpp:181`); while VDR does not
  answer, the destructor waits in the login thread and nobody logs in again
  (`Reinit` fails with `VdrRuns` FALSE).
- After a stream change it is always the first stream that is opened again
  (`streamplayer.cpp:313`, `streamplayer.h:24`).  If the video is another one,
  `m_to_annexb` stays set while nothing is converted, every later frame is an
  access unit delimiter alone, and `firstvideo` may copy from a null pointer.
  `SomeLayouts` has no list with audio before video that must be converted.
- The same line leaves the ADTS headers as they are when the audio is not the
  first stream: after a change of its representation they name the old profile,
  rate and channels (`audioconverter.cpp:87-93`).  `HeaderIsOwn` then claims the
  stream only.
- `ID_type` has 256 entries and every stream change adds one; nothing compares
  the index with the size (`addonhandler.cpp:78`).
- H.265 video is recognised, but its conversion is compiled out: frames of it
  are access unit delimiters alone.
- `open_file_for_write()` does not set the status of its instance
  (`curlhandler.cpp:406`), which is then lent again while the file is written;
  it returns an instance when `open()` has failed (410).  The properties of the
  pool claim nothing of behaviours with files but that a busy instance is left
  alone.
- `curl_open()` returns true whatever happened (`curlhandler.cpp:326`), and
  `curl_create()` returns the instance when `curl_easy_init()` failed (271): it is
  still marked as closed, and the next request is given it, too.  So it is in
  zattood (`curlhandler.h:281-291`).
- `close_file()` frees `useragent` and leaves the pointer (`curlhandler.cpp:436`): a
  later request on the instance that gives no User-Agent would hand freed memory
  to libcurl and free it again.  Whether one comes is up to the add-on.
- `curl_open()` follows redirects (`curlhandler.cpp:287`), so that an instance that
  is named for a host may keep connections to others as well.
- `close_file()` does not clear `m_protoLine` (441): a request whose transfer
  fails finds the status line of an earlier one on its instance.
- Sessions of the servers are assigned in the order in which requests return
  (`HttpClient.cpp:138`), not in which they were answered: with two threads an
  older session can be the last.
- A `Reset()` that is overtaken by a login may set the state to CONNECTING
  after it was CONNECTED while `m_isConnected` is true; `main()` then waits
  until the next login.  `zattoo_session` shows that `Wake`'s timing excludes
  this for the first wait of `main()`.
- `Session.cpp:74` replaces the waiting times of 60 and 300 seconds that
  `Login()` has set by 3600.
- The url of a channel is saved at its first request and sent to every later
  viewer until zattood ends, although the session it came with may have expired
  (`ZatData.cpp:437`).
- `Reset()` and the logins assign strings such as `m_appToken` in several
  threads without a lock (`Session.cpp:262`).
- After a failed `gethostbyname()` the static `sockfd` of `svdrpsend()` is 1,
  standard output, for the rest of the process (`ZattooEpgProvider.cpp:79`).
- A request that finds all instances of the pool busy is taken for a failure of
  the servers (zattood's `curlhandler.h:104`).
- `HttpClient::ClearSession()` clears no cookie.
- `TsHeader::decode()` assigns `mTransportErrorIndicator` twice and
  `mTransportPriority` never, `PATHeader::decode()` leaves `mReserved0`; dash2ts
  decodes nothing.
- `createPcr()`, `createNull()` and `h222Type` are not used by dash2ts.

## Not modelled

- *Contents and computations on bytes*: the bytes of NAL units and ADTS headers,
  base64, XML, JSON, MD5.  Sequential functions without state between calls.
- *Timestamps* of `StreamPlay()`: computed with doubles, whose rounding TLC
  cannot follow; a model with rationals would not be the code's computation.
  How they are written is in `PsiTables`.
- *The growth of the receive buffer* of a transfer and reading it in parts: a
  body is a value in `CurlPool` and `ZattoodHttp`, whole, cut or missing.
- *Seeking, chapters and times* of the add-on interface: `StreamPlay()` does not
  use them, and the functions pass their arguments through.
- *What the servers are asked for*: quality, DRM level, parameters of requests;
  `GetChannels()`, categories and the lists that are printed.
- *Titles, genres and times of the guide*: text that is passed on.
- *The strings that the threads of zattood assign without a lock*: undefined
  behaviour below the level of the model, which keeps whether they are empty.
- *Lengths of waiting times*: `wait` has none.
- *SQLite, files, settings, logging, argument parsing*: I/O without logic of
  their own.
- *The converter of HEVC*, which is compiled out, and zattood's sources that no
  Makefile compiles.
- *The vendored headers of Kodi* (`addons/kodi-dev-kit`) and rapidjson: the
  greater part of the lines of the repository, declarations and inline string
  functions of which dash2ts implements the few callbacks that are modelled.

## Plan

Order: what every user of dash2ts depends on first, then what runs for weeks.
Done are, in this order, `CircularBuffer`, `OutputPath` (composed with the
ring), `CurlPool`, `ZattooSession` (with `ServedSession`), `TsMuxer`,
`StreamPlay`, `PsiTables`, `ZattoodHttp`, `FifoRequest` and `EpgRound`.  All that
keep state have proofs.

What is left, most important first:

1. `CurlBody` - `write_callback()` and `read_file()` with the receive buffer, its
   limits and readers that take parts; abstract: a byte stream.  Theorem: what
   is read is a prefix of what arrived.
2. The composition of `FifoRequest` with `ZattooSession`: a request in the
   middle of a new login, and urls that were saved in an expired session.
