----------------------------- MODULE HalStream ------------------------------
(***************************************************************************)
(* The poll loop of the Android HAL (sensors_mpl.cpp, MPLSensor.cpp): how  *)
(* it takes the driver's packets out of the IIO buffer, hands them to the  *)
(* data builder, reads the events back and completes flushes, while        *)
(* another thread calls flush.  The stream is counted in units of eight    *)
(* bytes, of which a packet has one, two or three; the first is its        *)
(* header.                                                                 *)
(***************************************************************************)
EXTENDS Integers, Sequences, FiniteSets

CONSTANTS Kinds,         \* the kinds of packets the driver writes
          Handles,       \* the sensors that are flushed
          Answers,       \* what the driver may answer to a flush
          MaxPipe,       \* bound: units in the IIO buffer when a packet is added
          MaxFlush,      \* bound: flushes under way
          Serials,       \* bound: packets are numbered modulo this
          Count          \* room for events in one poll
ASSUME StreamAssumption ==
    /\ Kinds \subseteq {"gyro", "accel", "compass", "quat", "overflow", "step", "gyroStep", "pedometer"}
    /\ Answers \subseteq {"END", "EMPTY", "fails"}
    /\ MaxPipe \in Nat /\ MaxFlush \in Nat /\ Serials \in Nat \ {0} /\ Count \in Nat \ {0}

VARIABLES pipe,          \* units in the IIO buffer
          next,          \* serial number of the next packet
          running,       \* some sensor is on
          left,          \* mLeftOverBuffer
          flags,         \* mSkipReadEvents, mFlushBatchSet, mDataMarkerDetected
                         \* (mEmptyDataMarkerDetected matters only to
                         \* what the completion of a flush turns off)
          flushes,       \* mFlushSensorEnabledVector
          fakes,         \* pending_flush_items_head
          pc,            \* where the poll thread and a flush call are
          parsed,        \* the packet built by the last buildMpuEvent, or none
          last,          \* serial number of the last packet built
          steps,         \* a step is to be reported: mPedUpdate
          events         \* what the last poll returned
streamVars == <<pipe, next, running, left, flags, flushes, fakes, pc, parsed, last, steps, events>>

Markers == {"END", "EMPTY"}
Size(k) == IF k = "quat" THEN 3 ELSE IF k \in Markers \cup {"overflow"} THEN 1 ELSE 2
Packet(k, n) == [i \in 1..Size(k) |-> [kind |-> k, id |-> n, part |-> i]]
MarkerUnit(m) == <<[kind |-> m, id |-> -1, part |-> 1]>>
MaxRead == 3
NoPacket == [kind |-> "none", id |-> -1]

StreamInit ==
    /\ pipe = <<>> /\ next = 0 /\ running = FALSE
    /\ left = <<>> /\ flushes = <<>> /\ fakes = <<>>
    /\ flags = [skip |-> FALSE, batchSet |-> FALSE, marker |-> FALSE]
    /\ pc = [poll |-> "poll", flush |-> "idle", sent |-> FALSE]
    /\ parsed = NoPacket /\ last = Serials - 1
    /\ steps = FALSE /\ events = <<>>
-----------------------------------------------------------------------------
(* ------------------------------ the driver ----------------------------- *)
driverRest == <<left, flags, flushes, fakes, parsed, last, steps, events>>
(* inv_push_8bytes_buffer, inv_push_16bytes_buffer: a packet is added. *)
Arrive(k) == /\ running /\ Len(pipe) < MaxPipe
             /\ pipe' = pipe \o Packet(k, next) /\ next' = (next + 1) % Serials
             /\ UNCHANGED <<running, pc, driverRest>>
Start == ~running /\ running' = TRUE /\ UNCHANGED <<pipe, next, pc, driverRest>>
(* set_inv_enable(false): what is in the FIFO, here none, and a marker. *)
Stop == /\ running /\ running' = FALSE /\ Len(pipe) < MaxPipe /\ pc.flush = "idle"
        /\ pipe' = pipe \o MarkerUnit("END")
        /\ UNCHANGED <<next, pc, driverRest>>
(* ------------------------------ flush thread --------------------------- *)
(* MPLSensor::flush up to the read of flush_batch: two writes to what the
   poll thread uses, without a lock. *)
FlushPush(h) ==
    /\ running /\ pc.flush = "idle" /\ Len(flushes) < MaxFlush /\ Len(pipe) < MaxPipe
    /\ flushes' = Append(flushes, h) /\ pc' = [pc EXCEPT !.flush = "pushed"]
    /\ UNCHANGED <<pipe, next, running, left, flags, fakes, parsed, last, steps, events>>
FlushClear ==
    /\ pc.flush = "pushed" /\ pc' = [pc EXCEPT !.flush = "reading"]
    /\ flags' = [flags EXCEPT !.batchSet = FALSE]
    /\ UNCHANGED <<pipe, next, running, left, flushes, fakes, parsed, last, steps, events>>
(* inv_flush_batch_data: the FIFO's packets, here at most one, and a marker
   that tells whether there were any; the call returns 0 even if this fails. *)
FlushDriver ==
    /\ pc.flush = "reading" /\ pc' = [pc EXCEPT !.flush = "idle"]
    /\ \/ "END" \in Answers /\ \E k \in Kinds :
             /\ pipe' = pipe \o Packet(k, next) \o MarkerUnit("END")
             /\ next' = (next + 1) % Serials
       \/ "EMPTY" \in Answers /\ pipe' = pipe \o MarkerUnit("EMPTY") /\ UNCHANGED next
       \/ "fails" \in Answers /\ UNCHANGED <<pipe, next>>
    /\ UNCHANGED <<running, driverRest>>
(* poll__flush of the step counter: inv_pending_flush, whatever flush said. *)
FlushStepCounter ==
    /\ fakes = <<>> /\ fakes' = Append(fakes, "stepCounter")
    /\ UNCHANGED <<pipe, next, running, left, flags, flushes, pc, parsed, last, steps, events>>
(* ------------------------------ poll thread ---------------------------- *)
(* A marker for the flushes under way, if there are any. *)
BatchNotSet == flags.batchSet
BatchSet == flags.batchSet \/ flushes # <<>>
(* buildMpuEvent with less than a full read: a marker at the head is taken,
   the rest is kept. *)
AfterShortDeaf(buf) ==
    [left |-> IF Head(buf).kind \in Markers THEN Tail(buf) ELSE buf, packet |-> NoPacket,
     flags |-> [flags EXCEPT !.skip = TRUE]]
AfterShort(buf) ==
    LET k == Head(buf).kind
    IN  [left |-> IF k \in Markers THEN Tail(buf) ELSE buf, packet |-> NoPacket,
         flags |-> [flags EXCEPT !.skip = TRUE,
                                 !.batchSet = IF k \in Markers THEN BatchSet ELSE @,
                                 !.marker = @ \/ k = "END"]]
(* buildMpuEvent with a full read: the packet at the head, then a marker
   right after it, of either kind, is taken, and the rest kept.  A header
   that is none drops the buffer. *)
AfterFullDropped(buf) ==
    [left |-> <<>>, packet |-> [kind |-> Head(buf).kind, id |-> Head(buf).id], flags |-> flags]
AfterFull(buf) ==
    LET hd == Head(buf)
        rest == SubSeq(buf, Size(hd.kind) + 1, Len(buf))
        follows == rest # <<>> /\ Head(rest).kind \in Markers
    IN  IF hd.part # 1
          THEN [left |-> <<>>, packet |-> NoPacket, flags |-> [flags EXCEPT !.skip = FALSE]]
        ELSE [left |-> IF follows THEN Tail(rest) ELSE rest,
              packet |-> IF hd.kind \in Markers THEN NoPacket ELSE [kind |-> hd.kind, id |-> hd.id],
              flags |-> [flags EXCEPT !.skip = hd.kind \in Markers,
                                      !.batchSet = IF hd.kind \in Markers \/ follows THEN BatchSet ELSE @,
                                      !.marker = @ \/ hd.kind = "END" \/ follows]]
(* The step bit of a packet, or its being a step packet. *)
StepsAfter(p) == steps \/ p.kind \in {"step", "gyroStep", "pedometer"}
(* buildMpuEvent: a read that may catch the driver in the middle of a packet. *)
BuildMpuEvent ==
    /\ pc.poll \in {"poll", "mplRead"} /\ pipe # <<>> /\ fakes = <<>>
    /\ \E n \in 1..(MaxRead - Len(left)) :
          /\ n <= Len(pipe)
          /\ pipe' = SubSeq(pipe, n + 1, Len(pipe))
          /\ LET buf == left \o SubSeq(pipe, 1, n)
                 r == IF Len(buf) < MaxRead THEN AfterShort(buf) ELSE AfterFull(buf)
             IN  /\ left' = r.left /\ flags' = r.flags /\ parsed' = r.packet
                 /\ last' = IF r.packet = NoPacket THEN last ELSE r.packet.id
                 /\ steps' = StepsAfter(r.packet)
    /\ pc' = [pc EXCEPT !.poll = "mplBuilt"] /\ events' = <<>>
    /\ UNCHANGED <<next, running, flushes, fakes>>
(* The descriptor of an external compass is ready, in the same poll after the
   driver's or in one of its own: buildCompassEvent. *)
BuildCompassEvent ==
    /\ running
    /\ pc.poll = "mplRead" \/ (pc.poll = "poll" /\ fakes = <<>>)
    /\ flags' = [flags EXCEPT !.skip = FALSE]
    /\ parsed' = [kind |-> "compass", id |-> -1]
    /\ pc' = [pc EXCEPT !.poll = "compassBuilt"] /\ events' = <<>>
    /\ UNCHANGED <<pipe, next, running, left, flushes, fakes, last, steps>>
(* readEvents: unless nothing is to be read, the new sample, if the packet is
   more than a step, and the step; then the flushes, if a marker was seen for
   them.  The step's event is counted but the pointer is not moved past it:
   the next event overwrites it and the last slot is left as it was. *)
Samples == IF parsed.kind \in {"none", "step", "pedometer", "overflow"} THEN <<>> ELSE <<"sample">>
Completed == IF flags.marker /\ flags.batchSet THEN flushes ELSE <<>>
Written ==
    IF flags.skip THEN Completed
    ELSE IF ~steps THEN Samples \o Completed
    ELSE Samples \o (IF Completed = <<>> THEN <<"step">> ELSE Completed \o <<"stale">>)
ReadEvents ==
    /\ pc.poll \in {"mplBuilt", "compassBuilt"}
    /\ pc' = [pc EXCEPT !.poll = IF pc.poll = "mplBuilt" THEN "mplSent" ELSE "compassSent",
                        !.sent = Completed # <<>>]
    /\ events' = SubSeq(Written, 1, IF Len(Written) <= Count THEN Len(Written) ELSE Count)
    /\ steps' = (steps /\ flags.skip) /\ parsed' = NoPacket
    /\ flushes' = SubSeq(flushes, Len(Completed) + 1, Len(flushes))
    /\ UNCHANGED <<pipe, next, running, left, flags, fakes, last>>
(* The end of readEvents: if flushes were completed and no other came in
   between, the marks are taken back. *)
CheckFlushes ==
    /\ pc.poll \in {"mplSent", "compassSent"}
    /\ pc' = [pc EXCEPT !.poll = IF pc.poll = "mplSent" THEN "mplRead" ELSE "poll", !.sent = FALSE]
    /\ flags' = IF flushes = <<>> /\ pc.sent
                THEN [flags EXCEPT !.batchSet = FALSE, !.marker = FALSE] ELSE flags
    /\ UNCHANGED <<pipe, next, running, left, flushes, fakes, parsed, last, steps, events>>
(* pollEvents returns a pending flush of the step counter before all else. *)
FakeFlush ==
    /\ pc.poll \in {"poll", "mplRead"} /\ fakes # <<>>
    /\ events' = <<Head(fakes)>> /\ fakes' = Tail(fakes)
    /\ pc' = [pc EXCEPT !.poll = "poll"]
    /\ UNCHANGED <<pipe, next, running, left, flags, flushes, parsed, last, steps>>

Poll == BuildMpuEvent \/ BuildCompassEvent \/ ReadEvents \/ CheckFlushes \/ FakeFlush
Driver == Start \/ Stop \/ \E k \in Kinds : Arrive(k)
StreamNext == \/ Poll \/ Driver \/ FlushClear \/ FlushDriver \/ FlushStepCounter
              \/ \E h \in Handles : FlushPush(h)
(* The poll thread polls again and again and serves the driver's descriptor
   in every poll that is not taken by a flush of the step counter, of which
   there is no endless row; a flush call returns, and a sensor that is on
   delivers. *)
StreamFairness == /\ SF_streamVars(BuildMpuEvent) /\ WF_streamVars(ReadEvents \/ CheckFlushes \/ FakeFlush)
                  /\ WF_streamVars(FlushClear \/ FlushDriver)
                  /\ WF_streamVars(\E k \in Kinds : Arrive(k))
StreamSpec == StreamInit /\ [][StreamNext]_streamVars /\ StreamFairness
-----------------------------------------------------------------------------
(* No packet is lost, built twice, out of order or cut (the left-over buffer
   of buildMpuEvent): what is kept and what is still in the IIO buffer are
   whole packets and markers, and from the last packet built over the ones
   ahead to the next one the driver makes each carries the number after that
   of the one before. *)
Ahead == left \o pipe
Number(n) == <<[kind |-> "none", id |-> n, part |-> 1]>>
Line == Number(last) \o Ahead \o Number(next)
IsHeader(u) == u.kind \notin Markers /\ u.part = 1
Whole(units) ==
    /\ units # <<>> => units[1].part = 1 /\ units[Len(units)].part = Size(units[Len(units)].kind)
    /\ \A i \in 1..(Len(units) - 1) :
          IF units[i].part = Size(units[i].kind) THEN units[i + 1].part = 1
          ELSE units[i + 1] = [units[i] EXCEPT !.part = @ + 1]
Numbered(units) ==
    \A i, j \in 1..Len(units) :
       /\ i < j /\ IsHeader(units[i]) /\ IsHeader(units[j])
       /\ \A k \in (i + 1)..(j - 1) : ~IsHeader(units[k])
       => units[j].id = (units[i].id + 1) % Serials
StreamIntact == Whole(Ahead) /\ Numbered(Line)

(* A flush under way and not yet answered, or one whose marker is still to
   come, or one that the next readEvents completes: none is forgotten, and
   a marker that was taken for one is not lost when another thread asks for
   the next flush (flush, buildMpuEvent and readEvents share the flags
   without a lock). *)
FlushNotForgotten ==
    flushes # <<>> => \/ pc.flush \in {"pushed", "reading"}
                      \/ \E i \in DOMAIN Ahead : Ahead[i].kind \in Markers
                      \/ pc.poll \in {"mplBuilt", "compassBuilt"} /\ Completed = flushes

Holds(list, h) == \E i \in DOMAIN list : list[i] = h
(* Every flush of a sensor that stays on is answered by a completion event
   (MPLSensor::flush: "Send empty event when: 1. batch mode is not enabled
   2. no data in HW FIFO"). *)
FlushCompletes == \A h \in Handles : Holds(flushes, h) ~> Holds(events, h) \/ ~running
=============================================================================
