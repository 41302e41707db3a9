---------------------------- MODULE AudioPlayer ----------------------------
(***************************************************************************)
(* The player of c/cl_ca/audio.c: the buffers it hands to an audio queue,  *)
(* the callback that refills them and the listener that hears the queue    *)
(* start and stop.  Both run on the run loop of main, one after another in *)
(* the order of their events; the queue plays meanwhile.  The queue, the   *)
(* run loop and the file are external.  Module Tools runs it.              *)
(***************************************************************************)
EXTENDS Integers, Sequences, SequencesExt

CONSTANTS MaxPackets,           \* bound: the longest file, in packets
          bufferSizeInSamples   \* packets of one buffer

ASSUME SizeAssumption == MaxPackets \in Nat \ {0} /\ bufferSizeInSamples \in Nat \ {0}

kNumberBuffers == 3

VARIABLES
    phase,      \* main: "start", "loop" (CFRunLoopRun), "end"
    packets,    \* length of the file
    mAudioFile, \* the file is open
    mBuffers,   \* the buffers the player knows; a buffer is a number
    data,       \* the packets in each buffer allocated so far
    freed,      \* buffers given back
    mCurrentPacket, currentPacket, \* where the listener and the callback read
    queue,      \* buffers to play
    running, stopping, \* the queue runs; it stops when all is played
    pending,    \* events for the run loop: a buffer was played, or 0: started or stopped
    played      \* packets heard (auxiliary)

playerVars == <<mBuffers, data, freed, mCurrentPacket, currentPacket>>
queueVars  == <<queue, running, stopping>>
vars == <<phase, packets, mAudioFile, playerVars, queueVars, pending, played>>

Slot == 0 .. kNumberBuffers - 1
IsRunning == 0

Init ==
    /\ phase = "start" /\ packets \in 0 .. MaxPackets /\ mAudioFile = FALSE
    /\ mBuffers = [s \in Slot |-> 0] /\ data = <<>> /\ freed = {}
    /\ mCurrentPacket = 0 /\ currentPacket = 0
    /\ queue = <<>> /\ running = FALSE /\ stopping = FALSE
    /\ pending = <<>> /\ played = <<>>

-----------------------------------------------------------------------------
\* AudioFileReadPacketData: a buffer's worth of packets, fewer at the end of the file.
read(from) == [k \in 1 .. (IF from >= packets THEN 0
                           ELSE IF from + bufferSizeInSamples <= packets THEN bufferSizeInSamples
                           ELSE packets - from) |-> from + k - 1]

\* AudioQueueEnqueueBuffer refuses an empty buffer.
Enqueue(q, b, d) == IF d[b] = <<>> THEN q ELSE Append(q, b)

Play ==
    /\ phase = "loop" /\ running /\ queue # <<>>
    /\ played' = played \o data[Head(queue)]
    /\ queue' = Tail(queue)
    /\ pending' = Append(pending, Head(queue))
    /\ UNCHANGED <<phase, packets, mAudioFile, playerVars, running, stopping>>

Halt ==
    /\ phase = "loop" /\ running /\ stopping /\ queue = <<>>
    /\ running' = FALSE
    /\ pending' = Append(pending, IsRunning)
    /\ UNCHANGED <<phase, packets, mAudioFile, playerVars, queue, stopping, played>>

-----------------------------------------------------------------------------
\* The file does not open, or the queue is not created.
OpenFails ==
    /\ phase = "start"
    /\ phase' = "end"
    /\ UNCHANGED <<packets, mAudioFile, playerVars, queueVars, pending, played>>

\* main: the file, three buffers, and the start of the queue, whose failure nobody
\* looks at: main waits in its run loop all the same.
Start ==
    /\ phase = "start"
    /\ mAudioFile' = TRUE
    /\ mBuffers' = [s \in Slot |-> s + 1]
    /\ data' = [b \in 1 .. kNumberBuffers |-> <<>>]
    /\ running' \in BOOLEAN
    /\ pending' = IF running' THEN <<IsRunning>> ELSE <<>>
    /\ phase' = "loop"
    /\ UNCHANGED <<packets, freed, mCurrentPacket, currentPacket, queue, stopping, played>>

Event(e) == phase = "loop" /\ pending # <<>> /\ Head(pending) = e /\ pending' = Tail(pending)

\* The queue has started: allocate three buffers, fill them with the beginning of
\* the file and hand them over.
Fill ==
    /\ Event(IsRunning) /\ running
    /\ LET new   == [s \in Slot |-> Len(data) + s + 1]
           first == read(0)
           from(s) == IF s = 0 THEN 0 ELSE IF s = 1 THEN Len(first)
                      ELSE Len(first) + Len(read(Len(first)))
           add(q, s) == Enqueue(q, new[s], data')
       IN  /\ mBuffers' = new
           /\ data' = data \o [k \in 1 .. kNumberBuffers |-> read(from(k - 1))]
           /\ mCurrentPacket' = from(2) + Len(read(from(2)))
           /\ queue' = add(add(add(queue, 0), 1), 2)
    /\ UNCHANGED <<phase, packets, mAudioFile, freed, currentPacket, running, stopping, played>>

\* It has stopped: close the file, free the buffers, end the run loop.
Finish ==
    /\ Event(IsRunning) /\ ~running
    /\ stopping' = TRUE
    /\ mAudioFile' = FALSE
    /\ freed' = freed \cup {mBuffers[s] : s \in Slot}
    /\ mBuffers' = [s \in Slot |-> 0]
    /\ phase' = "end"
    /\ UNCHANGED <<packets, data, mCurrentPacket, currentPacket, queue, running, played>>

\* Mutants of AQTestBufferCallback: a short read is taken for the end; the end is
\* not seen; another buffer is handed over.
CallbackShort(b) ==
    /\ Event(b)
    /\ data' = [data EXCEPT ![b] = read(currentPacket)]
    /\ currentPacket' = currentPacket + Len(data'[b])
    /\ IF Len(data'[b]) < bufferSizeInSamples
       THEN stopping' = TRUE /\ UNCHANGED queue
       ELSE queue' = Enqueue(queue, b, data') /\ UNCHANGED stopping
    /\ UNCHANGED <<phase, packets, mAudioFile, mBuffers, freed, mCurrentPacket, running, played>>
CallbackEndless(b) ==
    /\ Event(b)
    /\ data' = [data EXCEPT ![b] = read(currentPacket)]
    /\ currentPacket' = currentPacket + Len(data'[b])
    /\ queue' = Enqueue(queue, b, data')
    /\ UNCHANGED <<stopping, phase, packets, mAudioFile, mBuffers, freed, mCurrentPacket, running, played>>
CallbackFirst(b) ==
    /\ Event(b)
    /\ data' = [data EXCEPT ![mBuffers[0]] = read(currentPacket)]
    /\ currentPacket' = currentPacket + Len(data'[mBuffers[0]])
    /\ IF data'[mBuffers[0]] = <<>>
       THEN stopping' = TRUE /\ UNCHANGED queue
       ELSE queue' = Enqueue(queue, mBuffers[0], data') /\ UNCHANGED stopping
    /\ UNCHANGED <<phase, packets, mAudioFile, mBuffers, freed, mCurrentPacket, running, played>>

\* A buffer was played: refill it from where the callback reads, or stop the queue
\* at the end of the file.  (mDone is never set.)
Callback(b) ==
    /\ Event(b)
    /\ data' = [data EXCEPT ![b] = read(currentPacket)]
    /\ currentPacket' = currentPacket + Len(data'[b])
    /\ IF data'[b] = <<>>
       THEN stopping' = TRUE /\ UNCHANGED queue
       ELSE queue' = Enqueue(queue, b, data') /\ UNCHANGED stopping
    /\ UNCHANGED <<phase, packets, mAudioFile, mBuffers, freed, mCurrentPacket, running, played>>

RunLoop == Fill \/ Finish \/ \E b \in 1 .. Len(data) : Callback(b)
Done == phase = "end" /\ UNCHANGED vars

Next == OpenFails \/ Start \/ RunLoop \/ Play \/ Halt \/ Done

-----------------------------------------------------------------------------
(* Properties                                                              *)

TypeOK ==
    /\ phase \in {"start", "loop", "end"} /\ packets \in 0 .. MaxPackets
    /\ mAudioFile \in BOOLEAN /\ running \in BOOLEAN /\ stopping \in BOOLEAN
    /\ mBuffers \in [Slot -> 0 .. Len(data)]
    /\ freed \subseteq 1 .. Len(data)
    /\ mCurrentPacket \in 0 .. packets /\ currentPacket \in 0 .. packets
    /\ queue \in Seq(1 .. Len(data)) /\ pending \in Seq(0 .. Len(data))

\* Everything in the file is heard, in order, before the player ends.  (The first
\* three buffers are heard twice: the callback starts at the first packet again,
\* because it does not use the position the listener has advanced.)
WholeFile ==
    phase = "end" /\ played # <<>> => IsSuffix([k \in 1 .. packets |-> k - 1], played)

\* A buffer is in the queue or with the callback, never both, so that no buffer is
\* refilled while it is heard ("Buffers are reused in turns", audio.c:105).
InTurns ==
    /\ IsInjective(queue)
    /\ \A k, l \in DOMAIN pending : pending[k] = pending[l] /\ pending[k] # IsRunning => k = l
    /\ \A k \in DOMAIN queue, l \in DOMAIN pending : queue[k] # pending[l]

\* A player whose queue has started ends, and the queue has stopped by itself
\* (audio.c:52, 142).  An empty file is left out: no buffer is accepted, none comes
\* back, and nothing stops the queue.
Ends == running /\ packets > 0 ~> phase = "end"
=============================================================================
