----------------------------- MODULE AudioPath -----------------------------
(***************************************************************************)
(* The way of a sample: requested by Timer4_ISR, read and answered by the  *)
(* server's serial thread a buffer at a time, sent as two marked bytes,    *)
(* put together by UART0_ISR, kept in the ring audio_buf and played.       *)
(*                                                                         *)
(* A sample is the number of the request the server answered with it; both *)
(* its bytes carry that number, so a sample made of bytes that do not      *)
(* belong together shows.  The bytes of key messages and of log lines are  *)
(* left to other modules: they share the lines but touch nothing here.     *)
(***************************************************************************)
EXTENDS Integers, Sequences, FiniteSets

CONSTANTS
  AudioSize, StartLevel, MaxDelay,  \* as in AudioFlow
  INBUF_SIZE,  \* bytes the server asks for in one read (128)
  Numbers,     \* BOUND: samples are numbered modulo this
  MaxFaults    \* BOUND: crashes, restarts, resets and lost bytes

ASSUME PathAssumption ==
  /\ AudioSize \in Nat \ {0}
  /\ StartLevel \in Nat
  /\ MaxDelay \in Nat \ {0}
  /\ INBUF_SIZE \in 1 .. MaxDelay
  /\ Numbers \in Nat \ {0}
  /\ MaxFaults \in Nat

VARIABLES
  \* the microcontroller
  mode, audio_read, audio_write, audio_buf, audio_tmp,
  DAC1,    \* the last sample played
  rxisr,   \* as in AudioFlow
  fifo,    \* requests in charfifo or on the line to the server
  \* the server
  server,  \* "down", "clearing" its serial buffer, or "serving"
  inq,     \* requests in the kernel's serial buffer
  batch,   \* samples mixed in this pass and not written yet
  number,  \* the number of the next sample
  \* the line to the microcontroller, with the kernel's output buffer
  down,
  \* history
  faults,  \* faults so far
  torn     \* samples stored that the server never sent

ring == <<audio_read, audio_write, audio_buf>>
host == <<server, inq, batch, number>>
history == <<faults, torn>>
vars == <<mode, ring, audio_tmp, DAC1, rxisr, fifo, host, down, history>>

Inc(i) == (i + 1) % AudioSize

\* (Mutant: one sample early.)
audio_empty_early == Inc(audio_read) = audio_write
audio_empty == audio_read = audio_write
audio_full == Inc(audio_write) = audio_read
audio_length == (audio_write + AudioSize - audio_read) % AudioSize

Hi(n) == [half |-> "hi", n |-> n]   \* 0x80 | dat >> 6
Lo(n) == [half |-> "lo", n |-> n]   \* 0xC0 | dat & 0x3F
\* (Mutant: the halves are swapped.)
EncodedSwapped(n) == <<Lo(n), Hi(n)>>
Encoded(n) == <<Hi(n), Lo(n)>>
Whole(n) == [hi |-> n, lo |-> n]

\* The two bytes of every sample in turn.
Bytes(samples) ==
  [i \in 1 .. 2 * Len(samples) |-> Encoded(samples[(i + 1) \div 2])[2 - (i % 2)]]

\* Requests neither answered by a stored sample nor lost.
Los(bytes) == {i \in 1 .. Len(bytes) : bytes[i].half = "lo"}
outstanding == fifo + inq + Len(batch) + Cardinality(Los(down))

McuInit ==
  /\ mode = "wait"
  /\ audio_read = 0 /\ audio_write = 0
  /\ audio_tmp = 0
  /\ rxisr = "returns"
  /\ fifo = 0

Init ==
  /\ McuInit
  /\ audio_buf = [i \in 0 .. AudioSize - 1 |-> Whole(0)]
  /\ DAC1 = Whole(Numbers - 1)
  /\ server = "serving" /\ inq = 0 /\ batch = <<>> /\ number = 0
  /\ down = <<>>
  /\ faults = 0 /\ torn = 0

-----------------------------------------------------------------------------
\* One more sample is asked for.  (Mutant: only while playing.)
RequestOnlyConnected == fifo' = IF mode = "connected" THEN fifo + 1 ELSE fifo
RequestSample == fifo' = fifo + 1

\* audio_put.  (Mutant: the index is incremented before the sample is stored.)
audio_put_ahead(s) ==
  /\ audio_buf' = [audio_buf EXCEPT ![Inc(audio_write)] = s]
  /\ audio_write' = Inc(audio_write)
audio_put(s) ==
  /\ audio_buf' = [audio_buf EXCEPT ![audio_write] = s]
  /\ audio_write' = Inc(audio_write)

\* Timer4_ISR.  The bound is that of AudioFlow: answers come within MaxDelay ticks.
Timer4_ISR ==
  /\ rxisr = "returns"
  /\ outstanding < MaxDelay
  /\ \/ /\ mode = "wait"
        /\ mode' = IF audio_length > StartLevel THEN "connected" ELSE "wait"
        /\ UNCHANGED <<audio_read, DAC1>>
     \/ /\ mode = "connected" /\ audio_empty
        /\ mode' = "wait"
        /\ UNCHANGED <<audio_read, DAC1>>
     \/ /\ mode = "connected" /\ ~ audio_empty
        /\ DAC1' = audio_buf[audio_read]
        /\ audio_read' = Inc(audio_read)
        /\ UNCHANGED mode
  /\ RequestSample
  /\ UNCHANGED <<audio_write, audio_buf, audio_tmp, rxisr, host, down, history>>

\* UART0_ISR on a byte with bit 7 set: the first half is kept in audio_tmp, the
\* second completes the sample.
UART0_ISR ==
  /\ rxisr = "returns"
  /\ down # <<>>
  /\ down' = Tail(down)
  /\ LET c == Head(down) IN
     IF c.half = "hi"
       THEN /\ audio_tmp' = c.n
            /\ UNCHANGED <<audio_write, audio_buf, rxisr, torn>>
       ELSE IF audio_full
              THEN /\ rxisr' = "spins"
                   /\ UNCHANGED <<audio_tmp, audio_write, audio_buf, torn>>
              ELSE /\ audio_put([hi |-> audio_tmp, lo |-> c.n])
                   /\ torn' = torn + (IF audio_tmp = c.n THEN 0 ELSE 1)
                   /\ UNCHANGED <<audio_tmp, rxisr>>
  /\ UNCHANGED <<mode, audio_read, DAC1, fifo, host, faults>>

\* A request reaches the server's machine; without an open port it is lost.
Uplink ==
  /\ fifo > 0
  /\ fifo' = fifo - 1
  /\ inq' = IF server = "down" THEN inq ELSE inq + 1
  /\ UNCHANGED <<mode, ring, audio_tmp, DAC1, rxisr, server, batch, number, down,
                 history>>

\* ser.read of k bytes, and MyAudioCallback for that many samples.
Read(k) ==
  /\ server = "serving" /\ batch = <<>>
  /\ inq' = inq - k
  /\ batch' = [i \in 1 .. k |-> (number + i - 1) % Numbers]
  /\ number' = (number + k) % Numbers
  /\ UNCHANGED <<mode, ring, audio_tmp, DAC1, rxisr, fifo, server, down, history>>

\* ser.read returns when the buffer is full, or with less after its timeout.
ReadFull == inq >= INBUF_SIZE /\ Read(INBUF_SIZE)
ReadTimeout == inq \in 1 .. INBUF_SIZE - 1 /\ Read(inq)

\* The samples are encoded and written.
Write ==
  /\ batch # <<>>
  /\ down' = down \o Bytes(batch)
  /\ batch' = <<>>
  /\ UNCHANGED <<mode, ring, audio_tmp, DAC1, rxisr, fifo, server, inq, number,
                 history>>

-----------------------------------------------------------------------------
\* A server starts by throwing away what is in its serial buffer, until it finds
\* the buffer empty.
Clear ==
  /\ server = "clearing"
  /\ IF inq > 0
       THEN /\ inq' = IF inq > INBUF_SIZE THEN inq - INBUF_SIZE ELSE 0
            /\ UNCHANGED server
       ELSE /\ server' = "serving"
            /\ UNCHANGED inq
  /\ UNCHANGED <<mode, ring, audio_tmp, DAC1, rxisr, fifo, batch, number, down,
                 history>>

Start ==
  /\ server = "down"
  /\ server' = "clearing"
  /\ UNCHANGED <<mode, ring, audio_tmp, DAC1, rxisr, fifo, inq, batch, number, down,
                 history>>

Fault ==
  /\ faults < MaxFaults
  /\ faults' = faults + 1

\* The server stops at any point, with the port's buffers: what it had written
\* may get out in part.
Crash ==
  /\ Fault
  /\ server # "down"
  /\ server' = "down"
  /\ inq' = 0 /\ batch' = <<>>
  /\ \E k \in 0 .. Len(down) : down' = SubSeq(down, 1, k)
  /\ UNCHANGED <<mode, ring, audio_tmp, DAC1, rxisr, fifo, number, torn>>

\* The microcontroller starts again.  xdata is not cleared and the DAC holds its
\* value.
Reset ==
  /\ Fault
  /\ mode' = "wait"
  /\ audio_read' = 0 /\ audio_write' = 0 /\ audio_tmp' = 0
  /\ rxisr' = "returns"
  /\ fifo' = 0
  /\ UNCHANGED <<audio_buf, DAC1, host, down, torn>>

\* The byte that arrives is lost, or the request that leaves.
LoseByte ==
  /\ Fault
  /\ \/ down # <<>> /\ down' = Tail(down) /\ UNCHANGED fifo
     \/ fifo > 0 /\ fifo' = fifo - 1 /\ UNCHANGED down
  /\ UNCHANGED <<mode, ring, audio_tmp, DAC1, rxisr, host, torn>>

Next ==
  \/ Timer4_ISR \/ UART0_ISR \/ Uplink
  \/ ReadFull \/ ReadTimeout \/ Write \/ Clear \/ Start
  \/ Crash \/ Reset \/ LoseByte

Spec == Init /\ [][Next]_vars

\* Interrupts are served, the lines deliver, and the server's thread runs, at
\* least as long as there was no fault.  No timeout of a read is counted on.
FairSpec ==
  /\ Spec
  /\ WF_vars(faults = 0 /\ Timer4_ISR)
  /\ WF_vars(faults = 0 /\ UART0_ISR)
  /\ WF_vars(faults = 0 /\ Uplink)
  /\ WF_vars(faults = 0 /\ ReadFull)
  /\ WF_vars(faults = 0 /\ Write)

-----------------------------------------------------------------------------
(* Properties. *)

\* The indices of the ring, the two bytes of a sample and the server's passes
\* keep what AudioFlow promises: nothing is asked, stored or played twice, also
\* across crashes, resets and lost bytes, and so the ring never fills.
F == INSTANCE AudioFlow WITH
       length <- audio_length,
       faults <- IF faults = 0 THEN "none" ELSE "some"
Flow == F!Spec

\* Without faults the requests keep coming and every one is answered, although
\* the server reads only full buffers of them: so the board gets connected.
KeepsGoing == F!Fairness

\* Without faults the samples are played whole, in the order of the requests
\* they answer, none left out and none twice, also where the ring wraps.
PlayedInOrder ==
  [][audio_read' # audio_read /\ faults' = 0
       => DAC1' = Whole((DAC1.lo + 1) % Numbers)]_vars

\* A lost byte, a reset or a crash spoils at most one sample: the marks in the
\* bytes get the receiver back in step (labfinal.c:182-188, server.cpp:249-250).
Resync == torn <= faults
=============================================================================
