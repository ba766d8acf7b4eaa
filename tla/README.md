# C8051band in TLA+

C8051band turns a C8051F020 board into an instrument that several people play
together: web pages ask a Linux server for sounds, the server mixes them, and the
board plays what the server sends. This directory holds TLA+ modules of the
program, the TLC configurations that check them and proofs for TLAPS. File names
and line numbers below refer to the repository (`mcuproj/labfinal.c:184`).

## 1. The system

| part | source | state | operations | talks to |
|---|---|---|---|---|
| audio of the board | `mcuproj/labfinal.c:39-54, 115-131, 178-188` | ring `audio_buf` with two indices, `mode`, `audio_tmp` | `Timer4_ISR` 8000 times a second, receive half of `UART0_ISR` | transmit side (one request per tick), serial line |
| transmit side | `labfinal.c:105-148, 209-217` | `charfifo`, two `unsigned char` indices, `putchar_stopped`, `TI0` | `____putchar` from `main()` and from `Timer4_ISR`, `UART0_ISR` | UART |
| received text | `labfinal.c:150-208` | `strbuf`, `stri`, two indices | `UART0_ISR`, `handle_one_command` in `main()` | log and TFT display (library outside the repository) |
| keyboard | `labfinal.c:89-98, 342-370` | last key | `Get_Newkey`, `printf("p%c\n")` | transmit side |
| mode display | `labfinal.c:246-259` | `_mode` | `show_mode` | `mode` |
| serial thread | `server.cpp:189-255` | `inbuf`, `u16buf`, `indat` | clear, read 128 bytes, cut commands, mix, encode, write | serial line, plays, screen queue |
| plays and mixing | `server.cpp:63-100, 377-419` | `plays`, `plays_mutex` | `play_add`, `play_remove`, `MyAudioCallback` | both threads |
| MQTT callbacks | `server.cpp:274-324` | static buffers | `play`, `stop`, `query` | broker, plays |
| screen queue | `server.cpp:114-144` | `screen_queue` | `screen_println`, `screen_sendone` | both threads |
| byte formats | `mcuproj/protocol.h`, `server.cpp:246-251` | - | codecs of samples and rectangles | both ends of the line |
| Mario page | `html/mario/index.html`, `html/libband.js` | `wait_id`, `record_id` | `play`, `mqtt_message_arrive` | broker |
| piano and start pages | `html/piano/index.html`, `html/index.html` | timers of the start page | `play`, delayed `stop` | broker |
| loading of sounds | `server.cpp:326-375`, `minimp3_ex.h` | `sounds`, `info` and its buffer | `load_mp3s`, `mp3dec_load` | decoder |
| serial library | `serial.cc`, `unix.cc` (vendored) | port name, descriptor, settings, two locks | `open`, `close`, `setPort`, `read`, `readline`, `readlines`, `write`, flushes, setters | kernel |
| MP3 decoder | `minimp3.h` (vendored) | last header, reservoir, size of free format | frame search, side information, decoding | loading |

A sample goes round a loop: each timer tick sends one request byte `0x8F`; the
server reads up to 128 of them at once, mixes that many samples and returns two
bytes for each; the receive interrupt puts them together and stores them; a later
tick plays them. Nothing else paces the two sides. That is what makes the code
interesting: the amount stored plus the amount on its way decides whether the ring
over- or underruns, the transmitter is started and stopped by two interrupts and
`main()` together, and neither side is told when the other restarts.

What makes each part correct:

* audio: the ring is never full when a sample arrives (the interrupt would loop for
  ever, `labfinal.c:184`); while nothing is lost, playing starts and is not
  interrupted; samples are whole, in order, none twice; a fault spoils at most one.
* transmit side: bytes leave once, in order and in the end; nobody spins with the
  interrupts locked out; a byte is written to the UART only when it is idle.
* received text: commands are carried out once, in order and as received while the
  interrupt keeps writing; lines are shown as sent.
* key commands: every key is played, wherever reads cut the text; nothing is made up.
* plays: IDs are distinct, every play advances by what was mixed, and ends.
* pages: a page stops only its own plays and can always stop its theme.
* formats: what is encoded is decoded, and bytes cannot be mistaken for each other.
* serial library: a read takes its bytes all at once and a write puts its own
  together, whichever threads share the object; what `pselect` has seen is still true
  when it is used; a setter that runs alone leaves the device with the settings of its
  object; calls return.
* loading and decoder: nothing is read or written outside its buffer, a frame is
  decoded from bytes that belong to it, a good file is decoded whole, loading ends,
  and a sound never gets the samples of another file.

## 2. Modules

| module | models | role |
|---|---|---|
| `AudioFlow` | audio path, counted in samples | abstract specification |
| `AudioPath` | audio path with bytes, indices, passes of the server | implements `AudioFlow` |
| `AudioFlowProofs`, `AudioPathProofs` | | proofs for every size and delay, and that the second implements the first |
| `ByteQueue` | what a buffered transmitter promises | abstract specification |
| `TxFifo` | transmit side | implements `ByteQueue` |
| `TxFifoProofs` | | proofs for every FIFO, banner and rate |
| `RxText` | received text and commands | |
| `RxTextProofs` | | proofs for every number and width of rows; `WireFormat` for every sample, corner and colour |
| `WireFormat` | codecs of samples and rectangles | |
| `MillisecondTimer` | deadline of a read or write | |
| `Termios` | `reconfigurePort`: settings to options of a device | |
| `ReadLines` | `readline` and `readlines` on a stream | |
| `Mp3Header`, `Mp3Bands` | headers, side information, tables of a frame | |
| `MCFormats` | runs through the inputs of the six modules before | |
| `KeyCommands` | key messages, from `printf` to the notes | |
| `PlayPool`, `MCPlayPool` | `plays`, its mutex and two threads; sizes of sounds | |
| `ScreenQueue`, `MCScreenQueue` | text for the board's screen, two threads | |
| `ServerThreads` | the two threads that share the last two | |
| `ServerProofs` | | proofs for any plays, IDs and sounds, for any lines, and for any keys and losses |
| `MarioBand` | Mario pages, broker and server | |
| `MarioBandProofs` | | proofs for every number of pages |
| `ByteStream` | what the serial library promises to threads | abstract specification |
| `SerialPort` | one `Serial` object, its threads, kernel and devices | implements `ByteStream` |
| `SerialPortProofs` | | proofs for any threads, ports, sizes and timeouts; `MillisecondTimer`, `Termios` and `ReadLines` for any arguments |
| `FrameStream` | frame search, side information's checks and reservoir | operators |
| `SoundLoader`, `MCSoundLoader` | `load_mp3s` over `mp3dec_load` and `FrameStream`; files | composition |
| `SoundLoaderProofs` | | proofs for files of any contents |

### AudioFlow

`length` is `audio_length()`, `outstanding` counts requests neither answered nor
lost, wherever they are. `Tick` is `Timer4_ISR`, `Arrive` the receive interrupt on
the second byte of a sample. `Lose` and `Reset` are the faults: requests or answers
that disappear, also because a starting server clears its buffer
(`server.cpp:194-199`), and a reset of the board. `MaxDelay` is the environment's
part: an answer comes, or is lost, within that many ticks; since each tick makes one
request, that is also the largest `outstanding`. `rxisr = "spins"` is
`if (audio_full()) while(1)`. The safety part and `Fairness` are apart, so that an
implementation can be shown for each: `AudioPath`'s `Flow` (proved and run) and
`KeepsGoing` (run). `ByteQueue` is divided in the same way into `QSafe` and `QLive`.

### AudioPath

Two processes and the lines between them: `Timer4_ISR` and `UART0_ISR` on the board,
`ReadFull`/`ReadTimeout`, `Write`, `Clear`, `Start` in the serial thread, `Uplink` for
the way there, `down` for the way back with the kernel's output buffer. A pass of
the thread is two actions, because requests keep arriving between the read and the
write. A sample is a number carried by both its bytes, so halves that do not belong
together show (`torn`). The refinement maps `length` to the difference of the ring
indices and `outstanding` to what is in the FIFO, the input buffer, the batch and
on the line. Faults: `Crash` (what was written gets out in part), `Reset` (`xdata` is
not cleared by `STARTUP.A51`, so `audio_buf` keeps its contents), `LoseByte`.

### TxFifo

The indices are `unsigned char` and wrap; `fifocount()` and `fifofull()` compute in
`int`, so the first is negative after a wrap and the second never sees a full FIFO
at the last index. Both are modelled as they are. `main()` reads `fifowrite` and
`fiforead` in two steps. `ReadWrite`, `Compare` and `PutChar` are one call of
`____putchar`, whose part between `EA = 0` and `EA = 1` is one action, as is
`Timer4_ISR`: the two interrupts have the same priority. A tick between the two reads
of `main()` is left out; it changes only `fifowrite`, which has already been read, so
it comes to the same as one after the comparison. Time is in `sent` and `idle`: there
is a tick only after `Rate` bytes could leave (460800 baud: 5.76).

### RxText

`Newline`, `Tab` and `Character` are the branches of `UART0_ISR` for bytes below
0x80, in any order and number up to `MaxChars`. `Look` and `Draw` are
`handle_one_command` before and after the moment it starts to draw, so the interrupt
can write into `strbuf` between. `strbuf` starts with zeros or with anything else.
`RowText` is the string from a row; of a row without a terminating zero only the
row itself is known (`RUN` stands for the rest). A received byte 0 is not among the
characters: it ends the text of its row early, which the sender never does.

### ScreenQueue

`Store` and `Advance` are one `push`, `SendOne` and `Pop` are `screen_sendone`, which runs
once a pass of the serial thread. Nothing guards the queue, so the threads interleave
between these steps; when two pushes overlap, `finish` may be set from a stale value.
The blocks of a deque are left out. Its `ScreenSpec` has its name, as have those of
`KeyCommands`, because `ServerProofs` extends both modules and `PlayPool`.

### KeyCommands

`Scan` is the `for` loop over `indat` with its index: after a command is cut out, the
string gets shorter and the index goes on. `Pass(k)` is a pass of the serial thread
with `k` of the waiting characters. The loop is a recursive function over its rounds
(`Round` is one of them); its values are sets of one record each.

### PlayPool

Each call is a `job` that first takes the mutex; with it, every access to `plays` is a
step of its own, so an implementation without the lock would show. `age` is a
history variable: the samples mixed since a play was added. `rand()` is any of `IDs`.

### MarioBand

Every page is subscribed to `band/#` and hears the answers to all pages. `Click` is
`play(i)`, `Arrive` is `mqtt_message_arrive`; `Play` and `Stop` are `message_callback`.
`Careful` are the pages whose user clicks only on the theme, and only when the last
click is answered; the others click anything at any time. Users may stop clicking,
so its configurations do not check deadlock. Left out are a `play_add` that returns 0
because it knows no such sound or finds no free ID (the pages ask only for sounds there
are), and IDs that come back after their play has ended (31 random bits).

### WireFormat, MillisecondTimer, Termios, ReadLines, Mp3Header, Mp3Bands

Pure parts, translated as operators. Shifts and masks are arithmetic; the tables of
the decoder are the source's numbers. `MillisecondTimer` keeps the cast to `int`
(`unix.cc:65`) and counts in milliseconds; what the cast gives beyond its range is
undefined and any number here. `Termios` knows a device's flags as a set, of which
each setting changes some, and its speed and divisor. `ByteTimeNs` is the code's
`byte_time_ns_` with the nanosecond cut off each bit (`unix.cc:444`); `HalfBits` is what
the line makes of a byte. A rate without a constant (14400, 250000) changes only the
divisor, which counts only at a speed of 38400 (`RateAsAsked`). `ReadLines` has the loop of `readlines` as a recursive function
over the bytes read (`Round` is one of them), and keeps the comparison with the bytes
before the buffer (`serial.cc:177`) by an argument that says what is there. `MCFormats`
is only a counter whose values are the arguments of these operators.

### SerialPort

Each thread runs one call at a time. `pc` is where it is: before a lock, in the body,
in `pselect` (`"wait"`), between `pselect` and `::read` or `::write` (`"ready"`), or
between the closing and the opening of `setPort` (`"reopen"`). `Fetch` is one `::read`
with the loop around it; `WriteReady` one `::write`, which may take any part of the
data. `Leave` is the end of a call by return or exception: the scoped locks go.

The setters hold no lock, so `SetStore`, `SetTest` and the steps of `reconfigurePort`
happen between any steps of other threads: `GetAttr` (`tcgetattr`, which throws
without a device), `ReadMember` (one member read into `snap`, the options being made, or
refused with an exception) and `SetAttr` (`tcsetattr`, which may take any part of them,
since its result is not looked at). The `open` in `setPort` goes through the same steps.
`close` may fail (`CloseFails`): the descriptor is gone, but `is_open_` stays true and
`fd_` keeps its number. `overlapped` and `untaken` are history variables: the last setter or
`setPort` to begin found another going on; the last `tcsetattr` was not carried out in
full. What is left to the caller, because the code does not say, is that `open` and
`close` are not called while any call is going on, and so each of them is one step. The kernel
has a buffer per port and direction; `Unplug` empties them and makes every open
descriptor of that device dead, `Plug` brings the device back with its default
settings. Time is `left` per call, which `Tick` lowers; `readline` gets a new timeout for
each byte, as in the code. `inter_byte_timeout` and interrupted waits only begin the
wait again (`unix.cc:551-561`), and so are no steps.

The refinement of `ByteStream`: a byte counts as pending while it is in the kernel or in
the buffer of a read that has not returned; what a write has put counts when the
write ends. A written byte is known by its call, its port and its place in the call's
data, and `Put` is one step for all bytes of a call that has put none before, so a
write that lets another's bytes between its own does not implement it.

### FrameStream and SoundLoader

A file is a sequence of cells, each a header with what its bits ask for, or data.
`mp3d_find_frame`, `mp3d_match_frame`, the free format and `mp3dec_decode_frame` are
operators on the file, a position and the decoder; the reservoir holds bytes known by
their file and place, so that a wrong one shows. `SoundLoader` has `Open`, `First` and
`Rest` (one call of the decoder each) and `Store`. `dec` and `info` are locals of a loop
body which the code does not clear, so they keep what the file before has left.
The bytes of a frame are not decoded: a frame gives one sample per channel. A frame of
another rate is decoded behind the samples that are kept and not counted; the room for
it was made before, like for any other. An empty file cannot be mapped and ends like one
that cannot be opened (`Mapped`).

## 3. What is checked

| run | shows | bounds |
|---|---|---|
| `flow` | `NeverFull` under all faults; `NoUnderrun` and `EventuallyConnected` while there are none | ring 64, start above 32, delay 30: the largest delay for which the ring has room |
| `path` | `AudioPath` implements `AudioFlow`, with two faults at any points: `Flow` is its safety, `KeepsGoing` its fairness; `PlayedInOrder`; `Resync` | ring 6, start above 1, delay 3: the ring is filled exactly; two requests per read; 6 numbers tell all samples apart that are stored or on their way |
| `tx` | `NoSpin`, `Wakeup`; `InOrder`: `TxFifo` implements `ByteQueue`; `Printed`: `main()` gets its text out, and no byte waits for ever | FIFO 8, thresholds 2 and 5, banner 2, message 1, rate 2: the indices wrap and the threshold is reached |
| `rx_text` | `CommandsInOrder`, `LinesAsSent`, `CommandsHandled` | three rows of two characters, commands of two, seven bytes: enough for three commands, which overrun the ring, and for rows that are used twice |
| `formats` | `AllBytesArrive`, `TimerOnTime`, `LinesAsAsked`, `AllLinesSplit`, `FramesFit`, `TablesFit` | a 16-bit number runs through all its values, and its digits are the arguments: all samples, every coordinate and colour, timeouts to 8.1 s, every combination of five parities, three stop bits, three flow controls and four sizes with five rates (with a constant and without) on devices with any of six old flags, at 9600 or 38400 baud, with a divisor of their own or none, streams of five bytes cut by calls of one to six, all headers |
| `screen` | `LinesWhole`, `LinesSent` | three lines of two lengths: overlapping calls, and a third line after the first two |
| `keys` | `NoKeyLost`, `PlayedInOrder`, `AlwaysQuiet` | four keys of a digit, a letter and one without a note; bursts of three; three lost characters, which can make `pp` and end the server by its assert, so deadlock is not checked |
| `pool` | `UniqueIDs`, `InStep`, `EveryPlayEnds` | three plays of two lengths, three IDs, two tries: all IDs can be taken |
| `mario` | `StopsOwn`, `ThemeCanBeStopped` | a careful page and one that is not, four plays |
| `serial` | `TypeOK`, `ReadyHolds`, `InForce`, `StreamsKept` (`SerialPort` implements `ByteStream`), `CallsReturn` | two threads, two ports, three kinds of programs (`Programs`): with `read`, `readline`, `setPort` and `flushInput`, with `read`, `write`, `setPort`, `flush` and `flushOutput`, and with the setters and `setPort`; three calls (two that overlap and one after them), reads and writes of two bytes, an output buffer of one (so writes go out in parts), a timeout of one tick, two bytes that arrive, one plug pulled, two descriptors; one setting with three values, one of which is refused. 1088340 states, between three and four minutes |
| `mp3` | `InBounds`, `RightBytes`, `AllDecoded`, `OwnSounds`, `LoadEnds` | every file of up to four chunks of ten kinds (frames that leave bytes, take them, take too many, are stereo, have another rate or layer, are broken, free format, garbage), or a run of four frames and up to two chunks after it (so that a rate or layer changes behind a run), or one that is empty or cannot be opened, then one of three kinds. 53338 states |
| `mario_coin` | violated, see findings | one page, two buttons |

Rings in small runs are not powers of two; the code's masks are the same as `%` there.
The setters have a program of their own in `serial`, because they take no lock, never
wait and touch no buffer, so beside reads and writes they add only interleavings; the
proofs of section 4 are for all operations together and any settings. The calls of
`serial` and the files of `mp3` come to an end, so these runs do not check deadlock.

Each property has a mutant, a small change of one definition as a bug would make it,
with which its run fails. The changed forms stand before the definitions, marked
"Mutant".

### Fairness

* Timer and UART are hardware, and interrupts are served: weak fairness of
  `Timer4_ISR`, `UART0_ISR`, `Shifted`.
* `main()` runs whenever no interrupt does: weak fairness of its steps.
* The serial thread runs for ever and its reads return: weak fairness of `ReadFull`,
  `Write`, `Pass`. The timeout of a read is not counted on. In `AudioFlow` and
  `AudioPath` nothing is assumed after a fault. A pass of the serial thread sends one
  character (`SendOne`, `Pop`), and calls return (`Store`, `Advance`).
* `SerialPort`: while some thread can go on, one does (weak fairness of all their steps
  together, no more is asked of the scheduler), the line takes bytes from the output
  buffer, and time passes. Data need not come and devices need not be plugged in again.
* `SoundLoader` assumes none: that loading ends is the bound `LoadEnds` on its rounds.
* `PlayPool`: a thread that has the mutex goes on (weak); one that waits for it gets
  it if it is free again and again (strong: neither thread holds it for ever or takes
  it again at once, since the serial thread blocks in its read and the mqtt thread on
  its socket between two calls); the serial thread mixes some samples again and again
  (strong, because empty passes are possible in between).

### Findings

* `mario_coin`: `play()` waits for an ID after every button (`html/mario/index.html:74`),
  so a coin's ID replaces the theme's, and the theme's button then stops the coin.

Noticed and without a run of its own.

Board, server and pages:
* `labfinal.md:15` makes the queue 2048 bytes for a delay of 100 ms. As playing starts
  above 512 samples, there is room for 510 requests on their way, 63.75 ms; with more
  the ring fills and the interrupt hangs. The proof of `NeverFull` gives the exact
  condition, `StartLevel + MaxDelay + 1 < AudioSize`.
* `server.cpp:220` shortens the string but not the index, so the second and third of
  three messages in one pass become one command and no note; `NoKeyLost` is
  therefore stated for at most two messages waiting (`burst`).
* Two quick clicks on the theme start it twice and only one can be stopped (the reason
  for careful pages to wait); key 8 has no note; one character of the screen's text leaves
  per pass, so with more than about three notes a second its queue grows; an empty command
  blocks all later ones and the sixteenth that waits overruns the rows (`Spoiled` in
  `RxText`); the rectangle `screen_drawrect` sends (nine bytes) is not the
  one `handle_one_command` accepts (a `d` and eight), and nothing calls it.

Serial library:
* Of the "safe baudrates" in the comment of `setBaudrate` (`serial.h:486-489`) 14400, 28800
  and 56000, and of the others 128000, 153600 and 256000, have no constant on Linux. They
  set a divisor (`unix.cc:302-333`) but not the speed of 38400 at which a divisor counts,
  so a device at 9600 baud stays there. `RateAsAsked` says so.
* A timeout of three seconds or more that carries overflows the cast in `unix.cc:65`;
  `serial.h:107` knows no such limit. `TimerOnTime` is stated below that; the server's
  timeout is one second.
* With an end of line of two bytes `readline` and `readlines` compare bytes before their
  buffer (`serial.cc:177, 218`), so a second byte alone may end a line.
* `CMSPAR` is set for mark and space and never cleared, and a custom divisor stays in
  force (`SPD_CUST`) but counts only at 38400: `LineAsAsked` and `RateAsAsked` except these
  devices by name. 500000 is treated as custom although Linux has a constant for it, and
  0 divides by zero.
* The time of a byte is computed from whole nanoseconds per bit (`unix.cc:444`), so at 460800
  baud it falls short of the byte's own by about a nanosecond; `TimeOfByte` says by how
  much at most. Below 4 baud it does not fit a `uint32_t`.
* Two setters at once can leave the device with the older settings, and a `tcsetattr`
  that fails is not noticed: `InForce` says what holds nevertheless.
* A `::close` that fails leaves the object open for ever, and every `setPort` throws.
* `readline` with a size of 0 reads past its buffer of no bytes.
* A `read` that throws loses what it had read (`Lose` in `ByteStream`); the default
  `Timeout()` writes nothing; `open` leaves its descriptor open when `reconfigurePort`
  throws (`descriptors` against `is_open_`).
* `read` goes on after `inter_byte_timeout`, which `serial.h` says ends it.

Loading of sounds and decoder:
* The `info` of a file that cannot be opened is whatever the stack holds
  (`server.cpp:340-347`): its sound may be that of the file before, or any pointer.
  `OwnSounds` holds for the files that were opened.
* A file with an ID3v1 tag loses its last frame; a frame of another rate ends the
  loading; the bands of a mixed block at 8 kHz are not those its `n_long_sfb` says.

## 4. What is proved

All with TLAPS, for every value of the constants that satisfies the named assumptions.

* `AudioFlowProofs`. `NeverFull` under `RoomForDelay` (`StartLevel + MaxDelay + 1 <
  AudioSize`). It is not inductive: the ring being not full now says nothing about what
  is on its way. `FlowInv` bounds `length + outstanding`: while
  `"wait"` lasts by `StartLevel + MaxDelay`, and one more once `"connected"`, when a tick
  moves one sample from the ring to the requests and the sum stays. Losses and resets only lower it.
  `NoUnderrun` under `StartOutlastsDelay` (`MaxDelay <= StartLevel + 2`): `ReserveInv`
  says the sum stays at least `StartLevel + 2` while connected, and if so the ring is not
  empty at a tick, because `outstanding < MaxDelay` there.
* `TxFifoProofs`. `NoSpin` and `Wakeup` under `TxAssumption`. The load (waiting, on the
  line and still to print) is bounded by the banner, one message and one request:
  between two ticks either `Rate` bytes left or the FIFO was empty. That an empty FIFO
  bounds the load needs `Wakeup` (nothing is on the line when the interrupt finds it
  empty), and `Wakeup` needs the bound (or the enqueue would spin), so the two are
  proved together.
  `InOrder`, the refinement of `ByteQueue`: the queue is the cells between the two indices
  modulo the size, and its mapped steps follow from what a step does to the ring
  in general (a cell written at the end appends, an index moved drops the first).
* `AudioPathProofs`. `Flow`: the map counts a request in the FIFO, in the input buffer, in the
  batch, or as a second half on the way back; the lemmas on `Los` say how that count
  changes when bytes are appended, taken from the front or cut off, so that each step
  moves a request, loses some or stutters. `PathInv`, the ranges, suffices. `NeverSpins`
  is `NeverFull` brought down the refinement, with the same `RoomForDelay`. `Resync`: behind
  the first byte of the line a second half always follows its own first half
  (`Paired`), so a fault spoils at most the sample being received (`ResyncInv`).
  `PlayedInOrder`: as long as there was no fault, ring, line, batch and the next number
  go on from the sample played last without a gap (`OrderInv`), through every wrap.
* `MarioBandProofs`. `StopsOwn`, for any pages, buttons and clicks. Nothing in the state
  says whose an ID is once its play is over, so `OwnInv` says it of the plays there are:
  every ID recorded, announced to a page or asked to be stopped is at most the last one
  given, and if a play has it, it is that page's. A new play has a new ID and so
  disturbs none of these. The IDs are counted in `MarioBand`; that random ones are
  distinct among the plays is `UniqueIDs` of `PlayPool`. `ThemeCanBeStopped` for a careful page:
  `SwitchInv` has one case for each stage of such a page (settled, asking, about to
  hear, stopping), and in none of them can another page's answer be taken for its own.
* `ServerProofs`. `UniqueIDs` and `InStep`, for any plays, IDs and lengths. `PoolInv`
  says what the thread that has the mutex may count on: the ID it has chosen is still
  free when it pushes, the plays before its place in the pass are mixed and those from
  there on are not yet.
  `LinesWhole`, for any finite set of lines and any number of them: unless two calls
  overlap, the cells before `finish` hold the text so far, the one thread that prints has
  the rest of it, and what was sent is a beginning (`QueueInv`). The lines are put
  together by a recursive function; that one line more puts its characters at the end is
  `FlattenMore`.
  `PlayedInOrder` and `NoKeyLost` of `KeyCommands`, for any keys and losses. `KeyInv` has two
  parts. `Traced`: every note played, and every key's character that is still in `indat` or
  on the line, stands for a pressed key, in the order of the keys; losses only take
  characters away, so it holds with them, and it gives `PlayedInOrder`. `Waiting`: as long as
  nothing was lost and there was no burst, what was played is what all keys but the last
  two at most play, and what waits are the whole messages of these. Then the
  loop cuts out the first message and ends, since its index goes on from where it was
  (`server.cpp:220`), at or past the end of what is left; the second waits for a later pass.
* `RxTextProofs`. `CommandsInOrder` and `LinesAsSent`, for any number and width of rows
  and any bytes; the round trips of `WireFormat` for every sample, corner and colour, and
  with them `AllBytesArrive`. The first two compare a
  list that the interrupt has received with rows it has written, in a ring that it
  shares with `main()`. `LinesInv` says that the log and the row being written together are the
  lines received, cut at the width; `CommandsInv` that the rows between the two indices are
  the commands not yet carried out, as long as the ring has never been full, and
  that the command `main()` is drawing is still in its row.
* `SerialPortProofs`. `TypeOK`, `ReadyHolds` and `InForce`, under `SerialAssumption` alone.
  `ReadyHolds` is not inductive: that a reader's data are not taken by another thread
  needs `LockInv` (who is inside a call that reads holds `read_mutex`, and who waits for
  the second lock has the first), and that `setPort` does not change `fd_` under it needs
  both locks (`SetPortAlone`). `WaitInv` says that waiting calls have an open port, `PortInv`
  that an open port has a descriptor of its name whose device is there unless the
  descriptor is dead. `SerialInv` is their conjunction with the types; one lemma per
  action. `InForce` needs that a setter which runs alone has read only
  members that are still what they were (`SetterInv`), and rests on the order in which `open` and
  the setters store, configure and raise `is_open_`. The bound of `TypeOK` on the buffers of the callers needs `RoomInv`
  (a call that goes on has moved less than it was asked to, and a thread outside a call
  nothing), which is proved on top of `SerialInv`. `StreamsKept`, the refinement of
  `ByteStream`: what is pending is the buffer of the kernel behind the buffer of the reading
  call, so a `::read` only moves the border between them, and the end of the call takes
  a beginning of the whole. For the writes: the one that is begun and unfinished holds
  `write_mutex` (`OwnerInv`), its bytes are the last of those accepted and in the order of its
  data (`PutInv`), and none of its call is before them (`SenderInv`).
  `TimerOnTime`, `LinesAsAsked` and `AllLinesSplit` follow from theorems for all arguments:
  `TimerAlwaysExact` for every moment and timeout, `LineAlwaysAsAsked` for every device (any
  flags, sizes, speeds, divisors) and every rate, with the exceptions it names, `LinesAlwaysSplit` for every stream, room and
  junk. The last assumes `Plain`: an eol of one byte, or of two different ones of which the
  first is not the byte before the buffer. Without it `readlines` may see an end before
  the buffer's begin or, with two equal bytes, one that overlaps the end before.
  `LinesInv` says after each byte read that the lines so far are what comes before
  `start_of_line`, and that no eol ends between there and the last byte.
* `SoundLoaderProofs`. `InBounds`, `LoadEnds` and `OwnSounds`, for files of any contents.
  The bounds on `pos` follow from lemmas on the frame search: the frame that is found
  ends within what is left of the file, and so does one that goes on a run. The room
  in `info.buffer` is there because it is grown before a frame is decoded and `allocated`
  never is below the most that one frame gives; that a round which goes on passes over
  at least one byte gives `LoadEnds`.

  `RightBytes`: as long as the decoder is in a run of frames, its reservoir is what came
  directly before in the same file (`ReservoirInv`), and any other frame is decoded from
  its own data alone. An earlier form of `RightBytes` did not hold behind a run whose
  last frame is followed by one of another kind; TLC's files were too short to show it
  and the proof did. The property now says what the code keeps, and the run has
  files in which this happens. `AllDecoded`: of a file of equal frames `DecodedInv` says that
  the samples so far are those of the frames before `pos`. The frame search looks
  ahead in a recursive function over the hops from frame to frame; that it finds a frame
  at every place where one begins is shown from a least counterexample (`LeastBelow`).

Only model-checked:

* liveness: `EventuallyConnected`, `KeepsGoing`, `Printed`, `EveryPlayEnds`, `CommandsHandled`,
  `LinesSent`, `AlwaysQuiet`, `CallsReturn`. Fairness is made of ENABLED, which is beyond
  the prover;
* `FramesFit` and `TablesFit`: they are about tables of numbers, not about steps, and their
  run goes through every header and every row, so that there is nothing larger to prove.

The library's induction theorems take an operator as a parameter, which no prover here
can instantiate. Where a proof needs induction it uses `LeastMember` and `SetInduction`,
on a set of naturals, and shows first that the recursive function exists
(`RoundsExist`, `ChainExists`, `Iterates`).

## 5. Not modelled

* Outside the repository, modelled from its use: the UART's shift register, the
  kernel's buffers of the serial port, the broker, `log_push` and `draw_rectangle`.
* Register setup, the character and TFT displays, scanning of the key matrix: output
  to pins without state to check.
* `show_mode`: it copies the mode to a display that nothing reads back.
* The arithmetic of mixing: a saturating sum of SDL, a library, without state.
* The MQTT `query`, connecting and reconnecting: a list of names, and the library's own
  doing. The start page's delayed `stop`: whether it hits another play depends on how
  soon a random number of 31 bits comes again, which few IDs cannot show.
* Of the serial library: the modem lines and breaks (`sendBreak` to `getCD`) and
  `waitForChange`, single `ioctl`s without state of their own; `available` and the waits
  called from outside; an `ioctl` that fails half-way through `reconfigurePort`.
  The server calls none of these. `list_ports_linux.cc`, which it does not call either.
* Of the decoder: Huffman decoding, stereo, IMDCT and synthesis, numerical code without
  state to check; layers 1 and 2, which the build leaves out (`MINIMP3_ONLY_MP3` is why a
  frame of another layer is passed over); seeking, iterating and writing (`minimp3_ex.h`),
  which nothing calls.
* Third-party scripts and project files.
