# AudioSync: a TLA+ model of synchronised audio playback

AudioSync (`src/app`) plays one audio file on several Android devices at the
same instant. One device runs the *sender*: it extracts compressed packets from
a file and streams them over RTP, each packet stamped with the time at which it
must be heard. Every other device runs a *receiver*: it decodes the packets into
a FIFO from which the OpenSL audio callback plays, skipping frames or inserting
silence to keep to the sender's clock, which it learns over SNTP. A music
player application around it picks the tracks and starts and stops sessions.

C++ paths below are relative to `src/app/src/main/jni`, Java classes are in
`src/app/src/main/java/de/rwth_aachen/comsys/audiosync`.

Contents: 1 inventory, 2 modules and their correspondence to the code, 3 runs,
4 fairness, 5 proofs, 6 deviations of the code, 7 what is not modelled, 8 plan.

## 1. Inventory

### Components

| Component | State | Operations | Talks to |
|---|---|---|---|
| FIFO, `audioutils/fifo.cpp` | `mFront`, `mRear` (free-running int32 indices), `mBuffer` | init, write, read, available | written by the receiver's network thread, read by the OpenSL callback, no lock |
| Mark queue, `readerwriterqueue` | a ring of blocks, each a ring buffer with copies of the other thread's index | enqueue, try_dequeue, peek, pop | the same two threads, no lock |
| Audio player, `audioplayer.cpp` | sync time, clock offset, playing and jumps flags, counts of queued and buffered frames, mark queue, `last_mark` | initPlayback, enqueuePCMFrames, syncPlayback, setSystemTimeOffset, monitorPlayback, stopPlayback, the buffer queue callback | FIFO, mark queue, OpenSL, network and SNTP threads of the receiver |
| Decoder and application packets, `decoder.c`, `apppacket.c` | codec with its input and output buffers, extractor | extract, enqueue, dequeue, flush, end flag; clock offset packets | both sessions |
| Sender session, `SenderSession.cpp` | `connectedSources`, destinations of the transmitter, timestamps | wait for clients, send frames, end marker, BYE; callbacks for new, leaving and vanished sources; SNTP server | RTP source table, extractor, SNTP |
| Receiver session, `ReceiverSession.cpp`, `AudioStreamSession.h` | `hasInput`, first timestamp, last sequence number, `isRunning`, averages of the clock offset | HI, receive loop, drain loop, BYE, SNTP client; Stop | RTP source table, decoder, audio player |
| RTP session, `rtpsession.cpp`, `rtppollthread.cpp` | five mutexes, poll thread, builders, BYE packets | Create, Destroy, BYEDestroy, sending, BeginDataAccess, ProcessPolledData | every thread of a session |
| UDP transmitters, `rtpudpv4transmitter.cpp`, `rtpudpv6transmitter.cpp`, and `rtpexternaltransmitter.cpp` | sockets, abort descriptors, destinations, accept and ignore lists, groups, unread packets | create, send, poll, WaitForIncomingData, AbortWait, destroy | poll thread, senders |
| RTP source table, `rtpsources.cpp`, `rtpsourcedata.cpp`, `rtpkeyhashtable.h` | per SSRC: validated, probation, highest number and cycles, waiting packets, addresses, BYE; counters of members | process RTP and RTCP packets, collisions, four time-outs, iteration | poll thread, session callbacks, scheduler |
| RTCP, `rtcpscheduler.cpp`, `rtcppacketbuilder.cpp`, `rtcpcompoundpacket*.cpp` | next report time, members, average packet size; parts of a packet | is it time, (reverse) reconsideration, BYE; build and parse | poll thread |
| RTP packets, `rtppacketbuilder.cpp`, `rtppacket.cpp` | CSRC list, sequence number, timestamp, counters | build, parse | sender, poll thread |
| libmsntp | socket, settings and buffers, global to the process; the run of a client | client request, estimate, adjustment; server | SNTP threads of both sessions |
| AudioCore, `AudioCore.cpp`, `AudioCore.java` | the global `audioSession`, the pool of one thread | init, start streaming (asset, URI), start listening, stop, deinit, getters | both sessions, the Java callers |
| LocalPlayback | MediaPlayer, state, focus, play-on-focus-gain | play, pause, stop, seek; prepared, completed, seek and focus callbacks | MusicService |
| MusicService, CastPlayback, QueueHelper | queue, index, playback in use, delayed stop, downloads | media session callbacks, switching playback | LocalPlayback, AudioCore, NsdHelper, notification, pictures |
| Music catalog, `MusicProvider`, `MediaIDHelper` | tracks by genre, state of loading | load, browse, search, make a queue of a media ID | MusicService, browsers |
| NsdHelper, StatisticsActivity | registration, discovered services | register, discover, resolve, listen | AudioCore |
| Main screen, full screen player | browser connection, controller, fragments, lists, pictures | activity lifecycle, connection, subscription and session callbacks | MusicService |
| TV screens, drawer, caller whitelist, fake transmitter of jrtplib | presentation; unused | | |

### How they interact

A receiver has four threads: network (receive loop, decoder, enqueue), SNTP,
the RTP poll thread, and OpenSL's callback. A sender has network, SNTP and
poll. A statistics thread of the application looks into either. Sessions are
created and stopped by the one thread of AudioCore's pool, except that local
tracks are started by the main thread itself. jrtplib has locks of its own:
source table, scheduler, builder, packets to send, transmitter. The player's
globals, `connectedSources`, `audioSession` and the reference to the session are
shared without one; FIFO and mark queue need none. libmsntp's state is global
to a process, whose sessions share it one after the other. The Java part is on
the main thread, with results of AsyncTasks, the media player and the media
session queued for it.

### What is hard, and what makes each part correct

* FIFO and mark queue: two threads, no lock, indices that wrap; the FIFO's skip
  values when the capacity is no power of two, the queue grows while it is read.
  Correct when they are queues.
* Player: the callback infers the media position from frame counts and marks
  produced by another thread, across packet loss, a full FIFO, late starts and a
  clock that moves. Correct when the inferred position is the real one, when
  corrections go towards the clock and never past it, and when it keeps playing.
* Decoder: a fixed number of buffers between two threads, frames of which only a
  part fits, an end flag. Correct when all that was accepted is heard.
* Membership: datagrams get lost, reordered and repeated while entries time out.
  Correct when the sender streams to exactly the receivers that are there, and
  starts when there is one.
* Reception: 16 and 32 bit numbers that wrap, sources on probation, loss and
  reordering. Correct when the decoder gets the stream in order, each frame with
  the time the sender meant, and when the end of the stream is noticed.
* Session: five threads, five mutexes taken in various orders, waits that one thread interrupts for
  another, and steps of creation of which any may fail. Correct when nothing is
  used that is destroyed, when a stop ends every thread, and when a failure leaves
  nothing behind.
* Clock: answers that are late, repeated or somebody else's, a socket that stays
  open from one run to the next. Correct when an accepted offset is as close as its
  error says and comes from the sender that is listened to.
* RTCP: times reckoned from numbers of members that change, packets of limited
  size, equal SSRCs. Correct when reports come neither too often nor too seldom, say
  the truth about losses, and when sessions part that drew the same SSRC.
* Lifecycle: calls from several threads, blocking joins, deletion. Correct when
  every stop finishes and leaves nothing running, when nothing is used after its
  deletion, and when the last call wins.
* Local playback, service and screens: several parties report to one thread through
  queues, so a report may be older than the request it meets. Correct when
  what is heard has the audio focus and is what the user asked for last, when what
  is streamed, announced and shown is what plays, when a list opens what
  it shows, and when a service that does nothing is stopped.

`PROJECT.json` lists the hazards line by line with the properties aimed at them.

## 2. Modules

| Module | Models |
|---|---|
| `BoundedFifo` | abstract specification: a queue with one writer and one reader whose calls are not atomic |
| `AudioFifo` | `audioutils/fifo.cpp`, implements `BoundedFifo` |
| `MarkQueue` | abstract specification: an unbounded queue between two threads |
| `ReaderWriterQueue` | `readerwriterqueue.h`, implements `MarkQueue` |
| `AudioPlayer` | `audioplayer.cpp` over both queues |
| `ReceiverDecoder` | the receiver's network thread with the codec and the drain loop |
| `StreamReception`, `MCStreamReception` | one stream: sending, the network, the source entry, the receive loop |
| `SenderMembership`, `MCSenderMembership` | who the sender streams to: callbacks of `SenderSession.cpp` under `rtpsources.cpp` |
| `RtpSession` | the threads that share a session, by its mutexes |
| `SessionCreation` | `RTPSession::Create` with every failure, and what is given back |
| `UdpTransmitter` | accept and ignore lists, groups, and received packets of the transmitter |
| `LocalAddresses` | the addresses a transmitter has of its own, and the name it gives itself |
| `Udp6Transmitter` | `rtpudpv6transmitter.cpp`: lists, destinations, waiting and lives, over `UdpTransmitter` and `LocalAddresses` |
| `ExternalTransmitter` | `rtpexternaltransmitter.cpp`: packets handed over by an injector, and who waits for them |
| `SourceDescription` | what a source says of itself, and how a table keeps it (`rtcpsdesinfo.cpp`, `rtpinternalsourcedata.cpp`) |
| `SourceTable` | `rtpsources.cpp`: entries, collisions, time-outs, counters |
| `KeyList` | abstract specification: a list of distinct keys with a cursor |
| `KeyHashTable` | `rtpkeyhashtable.h`, `rtphashtable.h`, implements `KeyList` |
| `RtcpReports`, `MCRtcpReports` | what reports tell a sender of losses; SSRC collisions between two sessions |
| `RtcpScheduler` | `rtcpscheduler.cpp` in numbers |
| `RtcpPackets`, `RtpPackets` | building, writing and parsing packets |
| `SdesItems` | the rounds in which `rtcppacketbuilder.cpp` adds the items of the own description, over `RtcpPackets` |
| `ClockSync`, `MCClockSync` | SNTP client and server, runs, sockets, accepted offsets |
| `AudioCoreLifecycle` | starting, stopping and deleting sessions |
| `LocalPlayback` | `LocalPlayback.java` with MediaPlayer, audio focus and the main thread's queue |
| `MusicService`, `MCMusicService` | the service with queue, cast, announcement, notification, pictures |
| `Catalog` | loading, browsing, searching, media IDs and queues |
| `MainScreen`, `PlayerScreen` | the screens that follow the media session |
| `MCStructures`, `MCScreens`, `MCSessionThreads` | several of the modules above for one run each |
| `StructuresProofs`, `AudioPlayerProofs`, `SessionThreadsProofs`, `RtpProofs`, `ClockSyncProofs`, `AppProofs`, `LocalPlaybackProofs`, `MusicServiceProofs` | theorems |

How they compose: along the path of a frame, `StreamReception` sends, loses and
orders packets and hands them on in order with gaps, which is what
`ReceiverDecoder` takes; it hands on runs of frames with gaps, which is
what `AudioPlayer` takes, whose queues are used in just the form that
`BoundedFifo` and `MarkQueue` promise and `AudioFifo` and `ReaderWriterQueue`
implement. A call to the FIFO settles its frame count when it begins, and the queue
changes when it returns; a mark is in the queue at once or not at all. The
player constructs its mark queue for 8192 (audioplayer.cpp:74), pops with a
`try_dequeue` whose result it drops, and asks `size_approx` only at rest
(405-410). `ClockSync` produces the offsets that `AudioPlayer` is given at any
time, one of the two error bounds that add up to how well devices agree.

Beside the path of a frame, `SenderMembership` decides to whom `StreamReception`'s
sender sends; what it takes from the source table, that an entry comes and goes
once for each validation, is what `SourceTable` shows of all sources, whose container
is `KeyHashTable`'s. `RtcpScheduler` says when members report, which
`SenderMembership` only takes as a thing that happens again and again;
`StaysMember` is the reason why it may. `RtpSession` has the threads whose inner life
is in the others, with the calls they make of the session; `SessionCreation` is
what comes before, `AudioCoreLifecycle` has the sessions as a few stages each, of which
`RtpSession` shows that those of a stop pass. `MusicService` gives `LocalPlayback` its
requests and `AudioCoreLifecycle` its starts and stops; the screens meet its media
session in every state.

Three MC modules hold more than one module: a behaviour is one of them at work
(`which`) while the others rest in an initial state. Their states add, they do
not multiply: they are separate objects in the program as well. Each property
is about its own module, and true of the resting ones. An MC module has the variables
of its modules under names of its own and gives the specification of the run
(`StreamSpec`, `ReportSpec`, `ScreensSpec`, `StructuresSpec`, `ThreadsSpec`) and the
assumption on the constants; the theorems are about that specification.

### AudioFifo

State and names are those of the code. A call is split where the other thread can
observe it: the load of the other thread's index and the clipping of the
count (`WriteBegin`, `ReadBegin`), `memcpy`, one step per frame (`WriteCopy`,
`ReadCopy`), and the release store of the own index (`WritePublish`,
`ReadPublish`). `audio_utils_fifo_sum` and `_diff` are operators with the width of
the index (`IndexRange`) and the fudge factor; `AssertionsHold` collects their
`ASSERT`s.

### ReaderWriterQueue

Blocks are records in a ring; `front`, `localTail` and the front block belong to the
consumer, `tail`, `localFront`, `next` and the tail block to the producer. A step
reads or writes at most one variable of the other thread, as the fences order
them. Elements are numbered, and what a slot holds is an element or nothing, so that
reading a slot too early would show. The refinement map follows the ring from
the front block to the tail block. `emptyAtCall` is a history variable for
what an answer "empty" means while the producer goes on.

### AudioPlayer

A frame is represented by its media time, and a clock tick is the length of one
frame. The network thread's steps are those of `audioplayer_enqueuePCMFrames`
(write begins, write returns, mark posted, then monitor, or sleep and start
over), `syncPlayback` and `monitorPlayback`. The callback goes through its reads
of shared variables one at a time: it starts or waits (`CbStart`), discards
what is too late (`CbSkipRead`, `CbSkip`), takes marks and settles what to
read (`CbDecide`), reads (`CbRead`), and drops frames and enqueues (`CbPlay`).
`device` is the one buffer OpenSL has; when it is empty there are no more callbacks,
as in OpenSL. `BufferFinishes` is where time passes; a buffer may last a
tick more or less than its length. `MonitorPlayback` leaves open whether its
waiting times are over. The statics that `initPlayback` does not reset have
in the initial state what an earlier session left (`LastDiffs`). `lost` and `cut` are
history variables: a packet was lost on the way, or entered in part.

### ReceiverDecoder

`stage` is where the network thread is, from the first HI through receiving,
draining and playing to its end. One packet goes to the codec piece by piece (`Large` frames take two buffers); a piece
that finds no buffer within 5 ms is dropped with the rest of its packet, as are
outputs that a flush throws away. The source lock is held from the first packet of
a batch to the last. The codec takes the pieces in order beside it (`Decode`) and
is the only thing that is external. The end flag is read from an info
that was not written when there was no output, so it may be either value then.

### StreamReception

The sender builds packets with the timestamp increment jrtplib applies after
building (`BuildPacket`), so timestamps lag by one packet. The network gives copies
to the poll thread (`ReceivePacket`), which numbers, validates and queues them as
`rtpsourcedata.cpp` and `rtpinternalsourcedata.cpp` do (`OnProbation`,
`AcceptFirst`, `AcceptNext`, `InsertPacket`). `BeginDataAccess` to `EndDataAccess`
hold the source lock, so no packet arrives in between; `TakePacket` is one round of
the loop, with the error status of the decoder as its input. `decoded` records
what the decoder was given and for when.

### SenderMembership

`source` is the state of an SSRC in the source table, `destinations` the
transmitter's set, `connectedSources` the counter the network thread waits on.
`Receive` is the whole of processing a datagram, up to the session callbacks it
leads to (`OnNewSource`, `Disconnect` for OnBYEPacket); `TimeOut` is
MultipleTimeouts with OnRemoveSource. Datagrams are a set, so that they overtake
each other; a receiver that restarts has a new SSRC at the same address. `trial`
tells which receivers a behaviour may have and whether datagrams get repeated, so
that one run covers both and each property names what it needs.

### RtpSession

A call is the sequence of what it does with mutexes and shared state, and `todo` is
what each thread still has to do of its call: lock, unlock, or something within.
What happens inside a critical section without wanting another mutex is one
step (`Within`). So the order in which `rtppollthread.cpp`, `rtpsession.cpp` and the
transmitter take their mutexes is that of the code, and a deadlock would show as
such. Receiving leads to the callbacks of the session, which call the session
again under the source lock. `coming` are the datagrams that may still arrive, known
by what they make the poll thread do. `missed` records an AbortWait nobody was waiting
for, `wrong` what was used after it was destroyed, or walked over while it
changed. `waitmutex` is left out: only the poll thread waits. A sender's SNTP
server does not use the session.

### SessionCreation, and the transmitters

`SessionSteps` is the list of what `Create` makes, in order, each with what it gives
back when it fails; `held` is what a session has of each kind, `boundTo` who has a
port. Three sessions compete for ports. `UdpTransmitter` has the calls that keep
lists: `PortInfo` by host with its `all` flag, `acceptignoreinfo`, groups by socket,
and the removal of waiting packets. `asked` is what the calls, taken by
what they are named, would have asked for. `LocalAddresses` has what is found out about
the own host when a transmitter is created, by asking the interfaces or the resolver.

AudioSync creates the IPv4 transmitter only; `Udp6Transmitter` and `ExternalTransmitter`
are its two siblings under the same session. The IPv6 one keeps lists and groups in the same
way, so it uses `UdpTransmitter` for them (`Lists`), and adds what goes wrong between
two lives: `Destroy` while another thread waits, `AbortWait`, and what a second `Create`
finds. The external one has no socket: an injector of another thread puts packets into
`rawpacketlist` under the main mutex and wakes who waits for them.

### SourceTable, KeyHashTable

`SourceTable` processes a packet of a kind, SSRC and host, with the addresses of RTP and
RTCP learned separately, `CheckCollision`, `ProcessBYE`, and the four time-outs in the
order of `MultipleTimeouts`. `owndata` is the session's own SSRC, which changes when
it collides. `totalcount`, `sendercount` and `activecount` are the code's counters.
`KeyHashTable` has the pointers of elements, both lists each is in, and the cursor.

### RtcpReports, RtcpScheduler, and the packets

`RtcpReports` counts what a receiver got, with probation, cycles and the numbers saved
at the last report, and makes the block with its fraction and its signed 24 bit
difference; `trial` tells whether numbers wrap, whether packets are reordered and
who draws which SSRC. A collision goes through `ProcessRTCPCompoundPacket`,
`CreateNewSSRC`, the BYE of the old SSRC and the sender's callbacks.
`RtcpScheduler` has times relative to now, integer arithmetic in hundredths, and
all of `CalculateTransmissionInterval`'s cases. `RtcpPackets` follows the sizes
the builder reckons with and the bytes it writes, so that the one is compared
with the other; a field is a token followed by filling bytes. `RtpPackets` does the
same for CSRCs, payload and extension. `SdesItems` continues `BuildNextPacket` where
every source has been reported: the items that are due then, in the order of
`FillInSDES`, over as many packets as they need. `SourceDescription` is the other end of
it: what a session keeps of the items another source sends, the private ones by prefix.

### ClockSync

`net` keeps every datagram for ever: it may arrive late, again, or never. A run of the
client (`run`) opens the socket, or keeps the one that is open, sends, takes or
rejects answers, times out, and keeps the estimate with the least error; the session
averages the offset with the one before and hands it to the player. The client goes on
when it gets no socket, and fails when it empties it (`FlushFails`). A sender's server gets
its socket (`StartServer`), finds one still open (`AlreadyOpen`), or gets none
(`SocketFails`, `BindFails`); it answers, until an answer cannot be sent (`WriteFails`), or
until what arrives is rejected or cannot be received (`RejectRequest`). All of these but
`SocketFails` end the thread with the socket open: `broken` remembers that such a failure
has happened in the process. `now` is the listener's clock, `Skew` the distance of a
sender's.

### AudioCoreLifecycle

Main thread: `CastPlayback` (assets, downloads, pause, stop), `StatisticsActivity`
(listen, leave), `MusicService.onDestroy`. Pool thread: `tasks` is its queue; a start
is creation and then the store to `audioSession`, a stop is `Stop()` step by step
with its two joins, a cleanup also deletes. Sessions: stages of the network thread
(`starting`, `streaming`, `bye`, `playing`, `ended`) and of the SNTP thread.
`playAsset` occupies the main thread between creating the session and storing it.
Stopping a session that was deleted is undefined behaviour; the model puts the
pool into the state `crashed`.

### LocalPlayback

The code's fields keep their names; `player`, `seeking`, `position` and `source` are
the MediaPlayer as its documentation's state diagram has it, as far as this class
uses it (external), and `systemFocus` is what AudioManager has granted. Requests
(`PlayItem`, `PlayFromSearch`, `UserPauses`, `UserStops`, `SeekTo`) are whole handlers
with all they call (`Play`, `Pause`, `Stop`, `ConfigMediaPlayerState`). What the player
and the focus report goes into `messages` and is handled later, in order (`OnPrepared`,
`OnSeekComplete`, `OnCompletion`, `OnError`, `OnAudioFocusChange`, and the pause command
of the noisy receiver). `reset()` and `release()` make the player's waiting reports
void. A call MediaPlayer answers with an exception sets `crashed`, and nothing
happens any more. `settled` and `disturbed` are history variables.

### MusicService, Catalog

The requests are `MediaSessionCallback`'s, whole, with `handlePlayRequest`,
`handlePauseRequest`, `handleStopRequest` and `updateMetadata`. The playback is one of
two, of which the service sees state, current item and callbacks; switching takes
position and state from the one to the other. AsyncTasks run one after the other
(`TaskRuns`) and their results wait for the main thread (`Result`): the catalog,
pictures, downloads. `stream` is the last call AudioCore got, `announced` what NsdHelper
registered. The delayed stop is a message that may be removed.

`Catalog` has the lists `onLoadChildren` makes, the media IDs of `MediaIDHelper` as
sequences of words and separators, and the queue and index `QueueHelper` finds for an
ID that comes back later, perhaps after another load. `getHierarchy` drops the last parts
as long as they are empty, as `String.split` does; opening a genre that leaves no second
part ends the process (`ArrayIndexOutOfBounds`, `crashed`).

### MainScreen, PlayerScreen

Activities as the system drives them (`onCreate` to `onDestroy`, recreation, a stop
while messages are on their way), the connection to the browser, the registration of
controller callbacks, fragments and subscriptions; each connection has
another controller, and a callback is registered with one of them. Pictures are
fetched beside the main thread.

## 3. Runs

Passing runs (distinct states in parentheses). A property is a conjunction of named
parts where they are about one question:

* `structures` (760 000): one structure at a time, with all its operations in any
  order.
  * FIFO (30 000): three slots in generations of four, 16 index values, so indices
    skip a value and wrap around; up to four frames per call, more than fit.
    Refinement of `BoundedFifo`. Larger sizes, and powers of two, are covered by
    the proofs.
  * Mark queue (380 000): one block of two slots that grows to blocks of four, and
    five reserved blocks of two; nine enqueues, so that the ring is gone round while
    a block is added to it. Refinement of `MarkQueue`; no allocation within the
    size the queue was made for.
  * Hash table (600): three keys, two of them in one bucket. Refinement of `KeyList`.
  * Source table (140 000): two hosts, two SSRCs that both may use, one of which the
    session may draw. Counters are right, no entry mixes hosts (`SourcesConsistent`).
  * RTCP packets (400): sizes at and around the limits. What the sizes reckon
    with is what is written, is read back, and a source that did not fit gets its turn in
    a later packet; RTP packets (24 000): three CSRCs where two fit.
    SDES items (5 000): two that may be due every time or every other time, with
    three sources whose blocks leave room for one of them or none; what is due is sent
    once, in its order, after every source was reported. Descriptions (20 000): a value is
    the first one said or the last one, by item (all in `BuiltIsRead`).
  * Scheduler (90 000): four members, two BYEs. Not more often than the bandwidth
    allows (`NotTooSoon`), and often enough not to be timed out (`StaysMember`),
    if no more than `MaxLeaves` members leave between two packets.
  * Creation (20 000): three sessions, any step failing. `NothingLeft`.
  * Transmitters (700, 44 000 and 600): one host, two ports (one for IPv6), one group; up
    to two packets and two aborts. Lists and groups are those asked for, in every life; a
    thread that waits for packets does not sleep while there is one; addresses (30): the
    name that a transmitter gives is one of its own addresses (`ListsWhatWasAsked`).
* `screens` (525 000): main screen (220 000), full screen player (290 000), catalog
  (16 000). Two starts, two changes of the session (three in the player), two loads of
  five possible catalogs with separators inside, at the start and at the end of names, a
  genre without a name, a double ID and a bad entry.
  The screen that is visible shows the session and the opened list once the messages are
  handled, and commits no fragment when it must not; the picture is the
  track's; every item a loaded catalog lists can be opened or played, in the queue and at
  the index it came from, unless its genre has no name (`Nameless`: two exceptions, both
  of which occur in this run, section 6).
* `members` (109 000): three runs of receivers on two devices, so that one
  restarts, and two receivers without restart whose datagrams are repeated; loss,
  delay, reordering, BYE, timeout. The count is right without repeats, the
  destinations without restarts; a running receiver is served at last and one
  that is gone is dropped, if no other has its address. `MaxDeficit` bounds how far
  repeats drive the count below 0.
* `reception` (990 000): five frames of varying length and the end marker; sequence
  numbers modulo 16, timestamps modulo 32, both wrapping within the stream; five
  combinations of first sequence number, whether the CNAME is known before
  (no probation), up to two copies per packet, and reordering. Taken in order and
  flushes only at gaps (`DecoderGetsStream`), schedule within one frame, and the
  end marker ends the loop. The comparison of distances that tells wraps from late
  packets behaves for 6 packets modulo 16 as for fewer than 2^15 packets modulo
  2^16.
* `core` (750 000): two sessions, five user actions out of all kinds. Stop returns
  and leaves no thread, what the pool started is not deleted under its threads, and
  a start that comes last in the pool stands. Three sessions with four actions
  were also explored for the invariants (5.7 million states).
* `playback` (1 030 000): two tracks, two positions, four requests and two changes of
  the audio focus, every interleaving with preparing, seeking, failing, the end of
  a track and the queue. Two changes are a loss and a return, or two losses. What
  is heard has the focus; a pause holds, the current track plays, a stopped
  playback holds nothing (`RequestsHold`); and buffering ends. Five requests with
  three focus changes were also explored for the invariants (9 million states).
* `player` (1 460 000): FIFO of 4, three packets of 2 frames, any of them lost, buffers
  of 3 frames that are on time or slow, start ahead of time or too late, SNTP moving
  the clock back and forth. As long as every packet fit (`~cut`) marks match their
  frames and the position never runs ahead; it is exact while nothing was lost
  (`KnowsPosition`). A late start catches up and corrections do not overshoot
  (`CorrectsTime`); frames keep being taken and a write that did not fit gets done
  unless the output starves (`KeepsPlaying`). `LastMarkBehind` holds even when
  packets are cut. The stream is longer than the FIFO and than a buffer, so that
  marks are overtaken, met, and still to come. `MaxBuffered` stops the count of
  frames posted again and again by retries, `MaxClock` the time.
* `service` (430 000): four requests, one local and one remote track, so that catalog,
  picture and download come between any two of them; two ports. The session shows
  the metadata and picture of what plays, results find the queue they need
  (`ArtworkIsCurrent`); the cast streams and announces the current track
  (`CastsWhatPlays`); a started service that does nothing has a stop due
  (`StopIsDue`); connecting ends.
* `threads` (204 000): the receiver's network thread with six frames, two of them
  split, three input and two output buffers (52 000): when the codec ends the draining
  nothing is left in it (`AllHeardAtEnd`). Or the threads of a session with the
  datagrams of a member that comes and goes, or of a session with our SSRC (152 000):
  nothing destroyed is used and nothing is walked over while it changes, but by the two
  threads the property names (`SharesSafely`). In both, a stop ends the threads
  (`ThreadsEnd`), which excludes a deadlock of the mutexes.
* `clock` (1 380 000): two senders 14 ahead of and 10 behind the listener, two streams of a
  server each, datagrams that are lost, late, repeated, reordered and rejected, and
  failures to open, to bind, to receive and to send; either two
  sessions and three runs of two answers with no time for a second try, or one run
  with time for the best of two answers. An accepted offset is within half its
  error; a run asks its own sender unless the one before failed, and a sender that
  streams serves unless it got no socket or one of those failures has left a socket open,
  in this session or an earlier one, after which none serves any more
  (`SocketsInOrder`); the run of a
  stopped listener ends. A second is 8 ticks, a millisecond 2.
* `rtcp` (650 000): five trials: wrap without reordering, reordering without wrap,
  repeats, equal SSRCs from the start and later. Numbers modulo 16, lost packets
  modulo 32 with a sign. What the sender is told is what was lost (`LossIsReported`),
  and equal SSRCs get different (`CollisionSettles`).

`offset_in_full` refutes what a comment says; section 6 has it. It has the bounds of
`clock`.

Deadlock is not checked: every system here may stop, the player when the output
starves, the stream when it is over, the bounded number of calls, requests,
datagrams or receivers. Where everyone waiting on everyone is the hazard, `ThreadsEnd`,
`TasksFinish` and `KeepsPlaying` would show it.

Each checked property has a mutant in `PROJECT.json`: a definition of the code,
changed as a mistake would change it (the operators commented "Mutated form"),
under which the run refutes the property.

## 4. Fairness

* `AudioFifo`, `BoundedFifo`, the other structures, the screens and the catalog: none,
  only safety.
* `AudioPlayer`: OpenSL plays what is queued and the callback does not block, so
  `Callback` is weakly fair; the network thread finishes the call it is in. That
  packets keep coming is not assumed.
* `ReceiverDecoder`: the thread and the codec go on (weak). That an end flag nobody
  wrote ends the draining is not assumed.
* `SenderMembership`: receivers report as long as they run (weak); a report sent again
  and again gets through (strong, the usual assumption on a lossy network);
  an entry that is heard of no more times out (weak, only for receivers
  that are gone).
* `StreamReception`: the receiver's network thread polls (weak). Nothing about the
  sender or the network.
* `RtpSession`: the network and the SNTP thread get on if one of them can again and again
  (strong, for the two together: pthread mutexes do not exclude a waiter for
  ever in practice, though no standard says so); the poll thread goes on (weak), since it
  repeats for ever whatever the others do; loops are left when `isRunning` is false,
  because all waits in them have a timeout. Datagrams are not assumed.
* `ClockSync`: the client's steps, of which a timeout is one (weak). No datagram
  is assumed to arrive.
* `RtcpReports`: reports and BYEs are sent when due (weak) and one of those sent again
  and again arrives (strong).
* `MusicService`: AsyncTasks run and their results are handled (weak). Requests, ends of
  tracks and changes of the route are not assumed.
* `AudioCoreLifecycle`: the pool thread, the return of `startPlayingAsset`, and the
  threads of a session once `isRunning` is false: every wait in them has a timeout
  after which it looks at the flag. User actions, downloads, streams that end by
  themselves and senders that get clients are not assumed.
* `LocalPlayback`: MediaPlayer ends a preparation (or fails) and a seek, and the main
  thread works off its queue (weak). That a track ends or that the focus
  returns is not assumed.

## 5. Proofs

All theorems hold for every value of the constants that satisfies the named
assumption of the module.

`StructuresProofs` is about what `MCStructures` puts to work, under the specification of
the run. The FIFO (from `FifoAssumption`: `FrameCountP2` at least the capacity and
dividing the index range, which is more than twice as large). First arithmetic:
`sum` keeps indices out of the skipped values (`SumGood`), sums compose
(`SumOfSum`), `diff` undoes `sum` (`DiffOfSum`), slots of up to `FrameCount`
consecutive frames differ (`SlotsDistinct`). The inductive invariant is
`Inv == TypeOK /\ IndexInv /\ ClaimsBacked`, where `IndexInv` says that `mRear` is
`mFront` advanced by the fill level. The asserts alone are not inductive: they do
not tell where `mRear` is relative to `mFront` once the indices wrap, nor that a
write in progress still has its room. From
`Inv`: `TypeCorrectness`, `AssertionsAlwaysHold`, `ClaimsStayBacked`,
`NeverOverwrites`. With `CopyInv` (what has been copied is in its slot) every step
maps to a step of `BoundedFifo` or a stutter: `Refinement`. The refinement map
takes the frames between `mFront` and `mRear` for the queue; `FifoIsBounded` is the
same under the specification of the run.

The source table (from `TableAssumption`: the session and the missing address are
no hosts, the multipliers are natural numbers): `SourcesAreConsistent`. Counters and hosts
by entry are inductive once the entries have their types and the own one is
in the table (`TableInv`). Each operation writes one entry, removes some, or lets all
grow older, so the proof is lemmas on what these do to the number of entries with
a property (`CountChanges`, `WriteKeeps`) and to the host of an entry
(`TakesOneHost`); what an operation adds to its counters is then compared with that.

The creation of a session (from `CreationAssumption`: the value for a free port is no
session): `FailedCreationsLeaveNothing`. `NothingLeft` says nothing of a session that is being
created. `CreationInv` says what it has before each of the 17 steps (`PartsBefore`), and
which ports it may be bound to; `StepList` compares every step with that: what it takes is
what the next finds, and what it gives back when it fails is all there is.

The transmitters (no assumption): `TransmittersKeepTheirLists`. The lists of both UDP
transmitters change by the same two calls (`ListsChange`), their groups by both sockets
at once (`GroupsChange`). The invariant `ListsInv` adds that an entry for all
ports keeps a port in its list only if it was deleted while all were listed. The other
parts are inductive as they stand, the external transmitter's with `aborts` a number.

The scheduler (from `SchedulerAssumption`: sizes and factors are natural numbers, the
bandwidth is positive, the factors have a least): `ReportsAreNotTooSoon`. What the
scheduler compares is `since`, which reverse reconsideration scales down; that it is never
more than the time that really passed (`SchedulerInv`) needs the share of a time to be
no longer than the time (`ShareIsLess`), and that a session with itself has members left.
`ByesInv`, that a BYE is scheduled only while there is one to send, tells which packets
were sent after the full interval.

`SessionsStayMembers` states `StaysMember`: a session that has sent a packet sends the next
before others take it for gone. It holds if the longest interval there can be, with half of
it more for each member that may leave between two packets, is no longer than five least
ones (`SilenceAssumption`; where the five seconds of the code are the interval, its factors
reach 1.23, so that with short ticks six may leave; without a bound `StaysMember` fails). The scheduler forgets time whenever
reconsideration scales `since` down. `SilenceInv` says how much: at
most half of the longest interval per member that left, because all but one of the members
have at least half of any time (`ShareIsMost`), and that what the scheduler has waited and
has yet to wait is one interval. No interval is longer than the longest, whoever sends
(`IntervalIsBounded`), which is arithmetic on quotients (`QuotientBelow`).

Descriptions (from `DescriptionAssumption`: items and private items differ, and the CNAME
is one that is set once): `ParticipantsAreDescribed`, each value is the first or the last
one said, by item. The invariant adds types, that an item nobody mentioned is empty, and
that private items are listed once, so that changing one leaves the others alone.
RTP packets (from `PacketAssumption`: payload types and lengths are natural numbers):
`PacketsAreReadBack`, what is built is read back, any CSRCs and extension included. Both are
parts of `BuiltIsRead`.

`AudioPlayerProofs` (from `PlayerAssumption`): `MarkNeverAhead`, that
`last_mark.frameCount <= queuedFrames`. The code subtracts them and would stop
following marks if it failed. The inductive invariant is `PlayerInv == Numbers /\
FifoFits /\ CallbackLocals /\ LastMarkBehind`. The property needs that
`queuedFrames` never falls, so that FIFO reads return natural numbers, so that the
callback's requests are natural, so types and the ranges of the callback's
locals; and that the mark it takes is one it has reached, from the largest
element of a bounded set of naturals (`LargestNatural`).

`PositionKnown` states `KnowsPosition`. `MarksMatchFrames` is not inductive: it says
nothing of the mark the callback works from, which gives the position, nor of what the
network thread has counted, which is what the next mark will say. `PositionInv` says of
every mark the callback may still work from (`Known`: those to come, `last_mark`, and the
start of the stream, which is a mark that needs no post) that the frames follow it
(`Follows`), that the frames counted by the network thread are those written
(`PostsMatchFifo`), and which frame the mark to be posted is for (`EndIsNamed`). It holds
until a packet is cut; a lost packet only turns equalities into inequalities.

`CorrectionsHitTheClock` states the action properties of `CorrectsTime`.
`CorrectionInv` keeps what the callback's steps hand on to one another: nothing is
taken before playback begins (`Playing`), what is still to be discarded is what is missing
to the clock (`Discards`), and the request settled between deciding and playing is a
full buffer, or more by at most the difference, or less by all of it (`Decided`). A
start is only late by the clock if nothing was cut while it waited, which is
why `CatchesUp` has that premise as well.

`AudioPlayerProofs`, of the queue of its marks (from `MarksAssumption`: the size asked for is
positive and below 65536, blocks have more than one slot): `MarksAreAQueue`, that
every step of the two threads is a step of `MarkQueue` or a stutter, that the asserts
of the code hold, and that it allocates only beyond the size it was made for. The refinement map
follows the ring from the front block to the tail block, so the inductive invariant
`MarksInv` numbers the blocks in that order (`Ring`) and says of each how many
elements of the queue come before it (`Contents`); an element is then where that and the
distance from `front` put it. `GoodBlock` says how far the copies lag: `localTail` is
between `front` and `tail`, and `localFront` is before `front`, so that who finds room or
an element by a copy is right although the original has moved on. `Producing` and
`Consuming` say what a thread may still rely on between two of its steps. That "empty" is
right needs that every block used after the first holds an element, so
that who finds the front block empty has to look again only once. The bound on allocation
compares what the queue had when the producer began (`lengthAtEnqueue`) with the blocks that
were full then (`FullWhenBegun`): each but the first was left with `Least` elements, because the
consumer takes from a later block only when all before are empty.

`SessionThreadsProofs`, of the receiver's codec (from `DecoderAssumption`): `TypeCorrectness`, `EndIsLast`
(nothing enters the codec behind the end flag) and `HeardToTheEnd`: when the codec
ended the draining, it has been given the end marker and nothing of the track
is left in it. The inductive invariant is `IInv == TypeOK /\ Order /\ InHand /\
EndGiven /\ Finished`. The property alone says nothing before the end; the invariant
follows the end flag from the packet in hand through input and output buffers and says
what is before it.

`SessionThreadsProofs`, of the session's threads (from `SessionAssumption`: `NULL` is no
thread and no mutex): `SessionIsShared`, that is `SharesSafely`, for any interleaving and any
number of rounds. The property says what went wrong and who is in the source table, and
nothing of what a thread still has before it, which decides both. The
inductive invariant is `SessionIInv` with `Incoming` (the datagrams and the BYE packets
under way). What a thread has to do is the sequence `todo`, which calls and loops
extend, so `Shapes` says of each thread which sequences these may be: what it may do,
in which order the steps of an end come, and that it gives back the source table it takes
(`PollShape`, `StreamShape`, `EndShape`, `EarlyShape`, `SntpShape`, `StatsShape`). From
what the ending thread has left, `Ending` tells how far the end is: `stop` is set once
the request is behind it; once AbortWait is behind it, the poll thread will be woken
(`PollWoken`) or the call was `missed`; and before the table is cleared it has
ended. `Deleted` says that with the transmitter deleted all that remains is to clear
and free, so that only the SNTP thread is left to use it; `Clearing`, with
`SourcesHeld`, that whoever clears the table without the mutex is alone. `Begun` keeps the
creating thread and the network thread apart. Lemmas say what taking a step and pushing
its calls do to a sequence (`Pushes`), and what each step keeps; steps that only run
down a call are proved together.

`SessionThreadsProofs`, of the table that these threads find their sources in (from
`HashAssumption`: there are finitely many keys, and a lost cursor is no number):
`KeysAreAList`, that every call of `KeyHashTable` is the same call of `KeyList`, with the
same answer, for any number of keys and any hash. The inductive invariant is `HashInv`:
elements can be given places in time (`Stands`), so that the links through the list go to the
neighbours among all elements and the links of a chain, which run the other way, to the
neighbours in its bucket. With places it is no matter of walking any more what adding
and deleting do to links (`AddedStands`, `DeletedStands`); the writes to up to four
neighbours, some of which may be none, are `AddsOne` and `DeletesOne`. That a number is left
for a new element is a matter of cardinality (`OneIsFree`). The walk through the list
(`WalkIsOrder`) and the search of a chain (`FindsKey`) are recursive functions. In place of an
induction there is a least counterexample: of the elements from which they go wrong the
one nearest to the end takes one step, to an element from which they go right.

`RtpProofs`, of who the sender streams to (from `MembershipAssumption`): `CountIsRight`, that
without repeated datagrams the counter is the number of connected sources. It is
not inductive: a BYE of a receiver already disconnected would count twice. The
invariant `IInv == Types /\ Counted /\ Unstarted /\ ByesAreFirst` adds that a BYE
under way belongs to a receiver that runs no more and has not been taken for left.
`TrialStays` carries the premise, that the trial has no repeats, from the first
state through the behaviour. `DestinationsAreRight`, that the destinations are the
addresses of the connected sources while no receiver restarted at an address, holds with
repeats as well: its invariant `DestInv == Heard /\ Matched` needs of the history only
that a source is not known before it has run.

The stream (from `StreamAssumption`: the times of frames increase and span less than a turn of
the timestamp; both moduli are positive): `StreamInOrder`, that the decoder is given the
packets in their order and flushed only at gaps, and `StreamWithinOneFrame`, that each
frame is scheduled within the duration of one from the time meant. What was decoded
says nothing of what waits. `PacketsInv` says which packet is which: the timestamp of the one
sent k-th, also behind the increment that jrtplib applies late, that the copies under
way are of packets sent, and when the loop took its base. `OrderInv` says, while the network
keeps the order, that what is decoded, what waits and what is under way follow each
other, and that the extended number is the highest accepted (`Extended`).
Both properties are false of every stream the constants allow, and the theorems name what is
missing. `NamesATime`: no packet carries 2^32 - 1, which the receive loop
takes for none (ReceiverSession.cpp). `NumbersContinue`, of each packet accepted: its
number is less than half the range after the one accepted before, that is no 32768 packets
were lost in a row, since jrtplib cannot tell such a jump from a late packet
(rtpinternalsourcedata.cpp); and numbers do not wrap while packets wait for the end
of the probation, where the code puts them out of order (section 6). It is an action
formula because it is about numbers when they meet, not about the constants; every
step of the `reception` run satisfies both, as TLC confirms with the invariants.

The reports (from `ReportAssumption`: a trial sends less than half of what the
sequence numbers and a quarter of what the 24 bits of the loss count can tell apart; probation
is not empty): `LossesAreReported`, that the count of losses the sender reads is the true
one and the fraction has eight bits. The invariant is `ReportInv == Drawn /\ Numbered /\
Delivered /\ Said`. `Numbered` relates what the code knows to the truth: all packets
numbered under an SSRC differ from their index by one offset, whoever has that
SSRC after a collision, so the receiver's difference of extended numbers is a
number of packets. `Delivered` is a budget: packets counted and copies to come are at most
twice those sent, so that repeats make the loss negative by less than the sign of its 24
bits can show. The fraction needs that an entry with new reports has counted a packet
(`Kept`).

`ClockSyncProofs` (from `ClockAssumption`): `ErrorBoundsOffset`, that an accepted offset is
within half its error of the truth, `AsksItsSender` and `ServesUntilBroken`, and
both together as `OnlyFailuresMisdirect`. The inductive invariant is `IInv ==
TypeSenders /\ TypeSession /\ TypeRun /\ TypeNet /\ Passed /\ WithinError /\ Sockets /\
ServerSockets`. `WithinError` needs that no time in a datagram or in the client's
hands is ahead of the clock it was read from (`Passed`), since the error is the
round trip; the arithmetic with its halves is a lemma of its own
(`EstimateWithin`). Which sender is asked needs to know when a socket is open and
for whom (`Sockets`), and whether a sender answers, that a socket outlives its thread only
after a failure (`ServerSockets`).

`AppProofs`, of the sessions' lives (from `LifecycleAssumption`): `StopWaits`, a session whose stop is
over has no running thread; `DeletesQuietSessions`, nothing the pool started is deleted
under a thread; together `StopIsClean`; and `LastStartRuns`, a start that the pool took last
stands. The inductive invariant is `IInv == TypeOK /\ Made /\ Stopping /\ LastStart
/\ Threads`: sessions that do not exist yet have no threads, at each step of a
stop which of the joins has passed, that `audioSession` is what the last start stored
until it is stopped, and that threads that have ended do not begin again.

The screens (from `ScreensAssumption`: the command to go back is no media ID):
`MainScreenFollows`, `FullScreenFollows`. `MainScreenIsCurrent` and
`FullScreenIsCurrent` speak of a visible screen whose messages are handled, and nothing
is inductive about that. `FullScreenInv` and `MainInv` say, for each topic (state, track) and
each callback registered, that the last news on its way is the session's, or if there
is none, that the screen shows it (`Settles`, with lemmas on what appending, taking and joining
do to it). Of the main screen this is needed for every registration apart
(`LastIsCurrent`), since controls of an earlier controller still get news; and that the
activity's own is called back by the current controller only while it is started
(`CalledBackBy`), which is why a commit after a stop does not happen. The seek bar stands
still while playing only if news or a command to pause are to come (`BarMoves`).

The catalog (from `CatalogAssumption`: the local catalog is finite, an answer of the
server is none or a sequence of tracks and bad entries, names are sequences of words):
`CatalogFollows`, that whatever is listed can be opened, or played from its media ID, in the
queue and at the index it came from, and that the lists by genre and by ID agree. It is for
names of any length, with separators anywhere, but for genres of which nothing is left
before their first "|" once separators are dropped (`Nameless`). `CatalogInv` keeps that everything ever listed is a way to a
track that is still in its genre, or a category (`Ways`), also when the answer has an ID twice, and
that no list counts while another is loaded (`Loading`). The rest is about media IDs:
where the separators of a built ID are (`createMediaID`, `extractMusicIDFromMediaID`,
`getHierarchy`), by the sequence in which the positions of a separator are cut and by the
last part that is not empty (`TwoParts`).

`LocalPlaybackProofs` (of the step relation alone, no assumption on the constants is
needed). `StoppedStaysReleased` and `TrackIsCurrent` are inductive as they stand.
`PauseLasts` is not: a pause could be undone by a focus change that resumes, or by
a seek that ends. `Held` adds that after an effective pause the state is PAUSED and
no resumption is due, and no handler leaves PAUSED by itself without one.
`LastRequestHolds` is the three together.
`HeardWithFocus` is not inductive either: whether the end of a preparation or a seek
may start the player depends on why the state is BUFFERING. `InStep` says, while
nothing disturbed a seek, that PLAYING has the focus, that a player started while
BUFFERING is seeking, and that whoever seeks while BUFFERING has the focus. It is
about a report that may still be in the queue, so `Queue` (the queue is a sequence of
messages) and lemmas on what appending, taking and a reset do to it come first.

`MusicServiceProofs` (of the step relation, no assumption on catalog, queues, tracks
and ports). `TypeCorrect` already needs more than `TypeOK`: a picture or a
download that arrives has the track it was asked for with (`Asked`, `Answered`), and the
notification's item comes from it. `ShowsWhatPlays` is `ArtworkIsCurrent`. That the
picture's callback finds an item is a fact about the index when the picture was asked
for, and the index and the queue change while it loads: `ShowsInv` says that the index is in
the queue or where a track was not found (`Placed`), that the item at the index is
the one shown (`ItemIsShown`), and that while a picture is under way there is
such an item or a request has stranded the index (`PictureFindsItem`).
`StopStaysDue`, that an idle service has its stop due, is inductive with the types.
`CastsTheCurrentTrack` is `CastsWhatPlays`, which says nothing while downloads are
under way; `CastInv` adds that until then the last download asked for is the one for the
current track at the current port (`Asks`, by `Due`), that a cast is announced from the moment
it plays (`Announces`), and that what waits while none plays would race (`Quiet`).
Lemmas on what appending a task, taking a task and taking an answer leave alone
(`LastIsFor`, `SameDownloads`, `NoNewPicture`) carry the three over the handlers.

Only model-checked:

* all liveness and what rests on fairness: `EndMarkerEndsLoop`, `CollisionSettles`,
  `EventuallyRight`, `ThreadsEnd`, `TasksFinish`, `KeepsPlaying` and the like, out of the
  prover's reach;
* the parts of `BuiltIsRead` about RTCP packets and SDES items: they are put together and
  taken apart by folds over sequences and by `SelectSeq`, and that needs induction over
  the sequences. RTP packets and descriptions are proved.

The FIFO's assertions are only proved; its refinement is checked and proved.

## 6. Where the code deviates from what it says

Shown by a run of this project (`findings` in `PROJECT.json`):

* `offset_in_full`: libmsntp makes milliseconds of the part of the clock offset below a
  second and stores them in `tv_usec` (libmsntp.c:70), and ReceiverSession.cpp:233 adds
  that as microseconds, though apppacket.h:38 says "in microseconds". That part is a
  thousand times too small. `WithinError` is about the offset before it is converted.

Met while modelling. Where a checked property holds only under a condition because
of one of these, it is named.

Player and decoder:

* Marks count all frames of a packet even if only some were written, and again for
  each retry; hence `~cut` in `KnowsPosition`.
* With silence in front and too few frames behind, the buffer is enqueued with
  what an earlier use left in it (`Stale` in `CbPlay`).
* `enableJumps` is read twice in one callback; a drop of zero then divides by zero
  (`crashed` in `CbPlay`).
* A write to a full FIFO retries for ever when OpenSL has run out of buffers
  meanwhile (audioplayer.cpp:455-458); hence the starved output in `KeepsPlaying`.
* A second session starts with the last differences of the first (`LastDiffs`).
* The end flag is read from an info that was not written when no output was ready
  (decoder.c:264, against decoder.h:50), so draining may stop early; hence "written" in
  `AllHeardAtEnd`.
* An end marker that finds no input buffer is dropped; draining then goes on until the
  session is stopped, without monitoring the player.
* An error of enqueuing is forgotten with the next packet of the batch; the rest of a
  split frame is read from `buffer + capacity` of the input buffer (decoder.c:229) rather
  than where the packet goes on; a flush at a gap also throws away frames that were
  intact.

Sender, receiver, membership:

* The increment passed to `SendPacket` is applied after the packet is built, so each
  packet carries the timestamp of its predecessor while its extension carries its own
  time (SenderSession.cpp:60). A receiver that got the first packet plays the rest
  one frame early, which audioplayer.h:33 does not expect. `WithinOneFrame` holds.
* A BYE delivered twice counts twice, so `connectedSources` may become -1 and the sender
  starts without a client; hence `~trial.repeats` in `CountMatchesSources`.
* The old entry of a receiver that restarted times out and takes the shared
  destination away from the new one; hence the premise of `EventuallyRight`.
* A first timestamp of 2^32 - 1 is taken for "none". The runs avoid it.
* Sequence numbers that wrap during probation put the stored packets out of order.
  The runs let them wrap only for a source that is known.
* `lastSeqNum + 1` is an int (ReceiverSession.cpp:89), so 0 is never taken to follow 65535;
  where the numbers wrap, the decoder is flushed if a frame is longer than 50 ms. Hence
  the premise of `FlushOnlyAtGap`.
* A packet from before the first one taken gets a difference that wraps; hence
  `WithinOneFrame` is for networks that keep the order.
* A late packet from before a wrap may be queued behind the end marker and set
  `hasInput` again. The trial with reordering does not wrap.
* StartStreaming sets no media format, so the sender never sends one
  (SenderSession.cpp:208) and the receiver keeps its default.

Clock:

* The socket that a failed run leaves open has the address of the sender before; the
  first run of the next session asks that one. Hence the exception in `SocketsInOrder`.
* The average with `lastOffsetUs` goes across sessions with different senders.
* A write error or a datagram it rejects ends the SNTP thread of a sender
  (SenderSession.cpp:259), and so does a socket that cannot be bound (250-253,
  socket.c:96-101). The socket stays open, so `open_socket` refuses it in every later
  session (socket.c:53), and this process serves no time again. When there is no socket at
  all, only this session does not serve. Each is in `SocketsInOrder`.

Lifecycle and session:

* Local tracks start on the main thread, so a stop requested before may be carried
  out after the start, and a cleanup may delete the new session; hence the
  conditions in `StartedAtLast` and `StopsCleanly`.
* A second start overwrites `audioSession` and the first session runs on; there is no
  property that a stop leaves nothing running.
* `deinitAudio` leaves `audioSession` pointing to the deleted session, and a stop after
  it uses it (`crashed`).
* `BYEDestroy` destroys the transmitter while the SNTP thread of the receiver may be
  sending its offset with it; getAudioDestinations walks over the source table without
  `BeginDataAccess` (AudioCore.cpp:137, against rtpsession.h:267); an AbortWait that comes
  before the poll thread waits is lost, and after five seconds the thread is killed
  with whatever mutex it holds. These are the exceptions of `SharesSafely`.
* `_checkerror` only writes to the log, so threads go on to run on a session that could not
  be created. The transmitter's `Destroy` with somebody waiting unlocks its mutex twice
  (rtpudpv4transmitter.cpp:372-383); nobody waits when it is called. The login name is
  asked for late (rtpsession.cpp:385-398) and its failure has everything to give back.

RTCP and source table:

* The receiver's clock offset under a new SSRC may precede the queued BYE of its old one,
  whose DeleteDestination then leaves a live receiver unserved. A new SSRC of the
  sender restarts the timestamps, which the receiver's `beginTimestamp` no longer fits.
* A late packet from before a wrap raises the highest number by 65535
  (rtpsourcedata.cpp:156-160). Reordering is only in trials that do not wrap.
* An APP packet is handled even when its SSRC collides. Every packet that collides
  again refreshes the entry in the collision list (rtpcollisionlist.cpp:72). A second
  receiver with the SSRC of another is ignored and never served. SetCSRC validates
  without counting the source as active; AudioSync sends no CSRCs.
* The destinations' names that the statistics show are always empty: the name is set
  (SenderSession.cpp:282) but no interval to send it.
* Without a bound on members that leave between two packets `StaysMember` fails, and
  with fewer than 50 members a BYE is sent at once and makes the calculated BYE
  interval 0. `pmembers` has no value before the first call.
* The first SDES source is added without asking whether there is room; a smaller packet
  than AudioSync allows would be needed for it to matter. A port that is deleted while
  all ports are listed cannot be added again (rtpudpv4transmitter.cpp:1341), and
  SetReceiveMode forgets the entries; AudioSync uses neither.
* The hash table's constructor leaves the cursor without a value and `Clear` leaves it
  dangling; callers set it first.

LocalPlayback:

* Play, pause, play the same track before it is prepared: the second play takes the
  player for paused and `start()`s it while it prepares (LocalPlayback.java:321, against
  185). A focus that returns meanwhile does the same.
* `pause()` while a seek buffers does not pause the player, a loss of the
  focus then goes unnoticed, and `onSeekComplete` starts without looking at the focus;
  hence `disturbed` in `PlaysWithFocus`.
* A pause during preparation, or while the focus is lost for now, leaves
  `mPlayOnFocusGain` set, so playback begins after it; hence `settled` is only about
  pauses with no resumption due.
* The WiFi lock is not taken again on a resume, nor the noisy receiver registered
  again when the return of the focus resumes.
* `onError` says it resets the player and does not; a play after a pause then calls
  `start()` on a failed player. A seek while the player prepares throws as well
  (`crashed`).
* A stop while the focus is lost does not abandon the focus, and a change to ducking
  then sets the volume of a null player (`crashed = "null"`).
* A failed `setDataSource` leaves STATE_BUFFERING; hence the exceptions in
  `BufferingEnds`.

MusicService and catalog:

* A picture that arrives when the index no longer fits the queue makes the callback
  throw; `ArtworkIsCurrent` says that this is the only way. A queue item that is no longer in the
  queue sets the index to -1, with nothing due to stop the service.
* The notification is not shown when playing begins while one is being removed
  (MediaNotificationManager:44). Stopping a cast leaves the stream and its announcement;
  a stop followed by a play keeps announcing the old port; a download that ends after a
  pause, or after the start of an asset, replaces the stream. Each is an exception of
  `CastsWhatPlays`. `onDestroy` leaves the service registered.
* A search sets STATE_CONNECTING while casting as well.
* The catalog is not retried as MusicProvider.java:245-248 and 272-277 say: a load that
  fails leaves it uninitialised until the next request (256-262). Genre lists keep the old
  metadata of a track whose metadata was updated. A query with "|" breaks the music ID;
  hence the condition in `QueuedIsKnown`, a part of `CatalogPlays`.
* `getHierarchy` (MediaIDHelper.java:89) takes what is between the first and the second "/"
  for the genre, and `split` drops empty parts at the end. A genre such as "rock/metal"
  therefore opens the list of "rock" (none if there is no such genre), "rock/" too. An
  empty genre, or "/", leaves one part: opening it throws an
  ArrayIndexOutOfBoundsException that nothing catches (MusicService.java:361). "/x" opens
  the list of the empty genre, whose tracks then have no queue (QueueHelper.java:47-50).
  These two are the exceptions of `ListedPlays` (`Nameless`).

Screens:

* A search intent is played again when the activity is recreated
  (MusicPlayerActivity.java:176-178, against 64 and 126-130).
* PlaybackControlsFragment leaves its callback on the old controller after a stop and a
  start (107), and does not check whose picture it fetched (158-168).
* MediaBrowserFragment may use its activity after it was detached when a title is not
  found (320), and does not unsubscribe when it is found.
* FullScreenPlayerActivity: a click before it is connected meets no controller (164); a
  description without an icon keeps the old picture; a seek while paused begins to
  move the seek bar, and `onStop` leaves that task scheduled.

## 7. Not modelled

* Of the player: playback rate control, device latency, the averaging of samples around
  a dropped one, OpenSL errors. Of `LocalPlayback`: volumes, metadata, the foreground
  service, and a failure to abandon the focus. A search before the catalog has been
  loaded is in `MusicService`.
* The extractor and media formats: data. What statistics show of the reports.
* Of jrtplib: the fake transmitter, a copy of the IPv4 one without sockets, which AudioSync
  does not create; jitter and round trip times; what a name resolves to, sockets and
  multicast as far as the system does it.
* Of libmsntp: broadcasts, the daemon, the drift and save file of `main.c`, and setting a
  clock. A device that changes between sending and listening shares libmsntp's one
  socket between client and server; devices keep their role in `ClockSync`.
* jthread is a wrapper of pthreads and appears as the mutexes of `RtpSession`.
* NSD discovery and the list of StatisticsActivity: what they end in, the request to
  listen, is in `AudioCoreLifecycle`. resolveService twice at a time fails, as a TODO
  there says.
* `MainScreen` does not model `onNewIntent`, nor a search that is recreated over an opened
  list; MusicService is taken to live while the activity is stopped.
* Readers of `audioSession` (statistics, presentation time): they change nothing.
* TV screens, drawer, caller whitelist, bitmaps, favourites: presentation and
  platform I/O; no state the streaming depends on.
* Memory ordering below sequential consistency; torn 64 bit words.

## 8. Plan

1. A second session in `AudioPlayer` that runs beside the first, as after a start
   without a stop; readers of `audioSession`; discovery.
2. Devices that change their role, with libmsntp's state shared by both SNTP threads.
3. Proofs: that `RtcpPackets` reads what it builds, by least counterexamples as for the
   hash table.
