------------------------- MODULE CompassPollProofs -------------------------
(***************************************************************************)
(* Proofs about the stand-alone compass drivers: whichever accesses fail   *)
(* and however the stores of buffer/enable fall between the polls.         *)
(***************************************************************************)
EXTENDS CompassPoll, TLAPS

(* Every variable of the compass drivers keeps its type. *)
THEOREM PollTypeCorrect == PollSpec => []PollTypeOK
<1>1. PollInit => PollTypeOK
  BY ChipsAssumption DEF PollInit, PollTypeOK
<1>2. PollTypeOK /\ [PollNext]_pollVars => PollTypeOK'
  <2> SUFFICES ASSUME PollTypeOK, [PollNext]_pollVars PROVE PollTypeOK'
    OBVIOUS
  <2> USE DEF PollTypeOK
  <2>1. CASE SetAxes
    BY <2>1 DEF SetAxes, chipVars, driverVars, amiVars
  <2>2. CASE EnableBegin
    BY <2>2 DEF EnableBegin, chipVars, driverVars, amiVars
  <2>3. CASE DisableBegin
    BY <2>3 DEF DisableBegin, chipVars, driverVars, amiVars
  <2>4. CASE MeasureDone
    BY <2>4 DEF MeasureDone, hostVars, driverVars, amiVars
  <2>5. CASE PostEnable
    BY <2>5 DEF PostEnable, AkStart, AmiStart, YasStart, AmiEnable, AmiSearch, Slips,
                Aged, Request, driverVars, amiVars
  <2>6. CASE PreDisable
    BY <2>6 DEF PreDisable, driverVars, amiVars
  <2>7. CASE WorkStart
    BY <2>7 DEF WorkStart, chipVars, driverVars, amiVars
  <2>8. CASE WorkRun
    BY <2>8 DEF WorkRun, Read, AkRead, AmiRead, YasRead, YasResume, HandUp, Request, chipVars, driverVars,
                amiVars
  <2>9. CASE UNCHANGED pollVars
    BY <2>9 DEF pollVars, hostVars, chipVars, driverVars, amiVars
  <2>10. QED
    BY <2>1, <2>2, <2>3, <2>4, <2>5, <2>6, <2>7, <2>8, <2>9 DEF PollNext
<1>3. QED
  BY <1>1, <1>2, PTL DEF PollSpec

(* While the buffer is off no poll is due, and none waits when a store that
   enables it comes to postenable; until a store is done, the buffer counts
   as enabled. *)
IdleWhenOff == (store # "idle" => enabled) /\ (~enabled \/ store = "post" => ~queued /\ worker = "idle")
(* An offset search that need not be repeated has reached its end, and that
   of an ami that is polled need not. *)
SearchedOnce == chip = "ami" => (~late => fine = "best") /\ (queued \/ worker = "start" => ~late)
(* What the next poll finds in the registers when it is not a new reading: a
   measurement still runs, or the request for it failed, or the yas drops
   the first reading, or an offset of the ami slipped. *)
NotNew == {"handed", "stale", "trial"}
OldIsExcused ==
    /\ (queued \/ worker = "start") /\ data \in NotNew =>
           \/ failed
           \/ measuring /\ (chip # "yas" => worker = "idle")
           \/ chip = "yas" /\ firstRead
           \/ chip = "ami" /\ data = "trial" /\ slipped # {}
    /\ chip = "ami" /\ (queued \/ worker = "start") =>
           /\ data = "stale" => measuring /\ worker = "idle"
           /\ data = "trial" => slipped # {} \/ (measuring /\ worker = "idle")
SampleTypeOK == sample.failed \in BOOLEAN
PollInv == /\ SampleTypeOK /\ IdleWhenOff /\ SearchedOnce /\ OldIsExcused
           /\ PollNeverStops /\ ReadingsAreSound

\* The invariant of the polling holds at the start.
LEMMA PollInvInit == PollInit => PollInv
  BY ChipsAssumption DEF PollInit, PollInv, SampleTypeOK, IdleWhenOff, SearchedOnce, OldIsExcused, NotNew,
     PollNeverStops, ReadingsAreSound, SamplesAreNew, OffsetsSearched

\* Every step keeps the invariant of the polling.
LEMMA PollInvStep == PollTypeOK /\ PollInv /\ [PollNext]_pollVars => PollInv'
<1> SUFFICES ASSUME PollTypeOK, PollInv, [PollNext]_pollVars PROVE PollInv'
  OBVIOUS
<1>a. /\ axes \in BOOLEAN /\ enabled \in BOOLEAN /\ queued \in BOOLEAN /\ measuring \in BOOLEAN
      /\ firstRead \in BOOLEAN /\ late \in BOOLEAN /\ failed \in BOOLEAN
      /\ chip \in {"ak89xx", "ak09911", "ami", "yas"} /\ store \in {"idle", "post", "pre"}
      /\ worker \in {"idle", "start"} /\ data \in {"handed", "fresh", "stale", "trial", "over"}
  BY ChipsAssumption DEF PollTypeOK
<1> USE <1>a DEF PollInv, SampleTypeOK, IdleWhenOff, SearchedOnce, OldIsExcused, NotNew,
            PollNeverStops, ReadingsAreSound, SamplesAreNew, OffsetsSearched
<1>1. CASE SetAxes
  BY <1>1 DEF SetAxes, chipVars, driverVars, amiVars
<1>2. CASE EnableBegin
  BY <1>2 DEF EnableBegin, chipVars, driverVars, amiVars
<1>3. CASE DisableBegin
  BY <1>3 DEF DisableBegin, chipVars, driverVars, amiVars
<1>4. CASE MeasureDone
  BY <1>4 DEF MeasureDone, Misplaced, hostVars, driverVars, amiVars
<1>5. CASE PostEnable
  <2> USE <1>5 DEF PostEnable, Aged, Request, driverVars, amiVars
  <2>1. CASE ~axes
    BY <2>1
  <2>2. CASE axes /\ Ak /\ AkStart
    <3>1. PICK ok \in BOOLEAN : measuring' = ok /\ failed' = ~ok
      BY <2>2 DEF AkStart
    <3>2. measuring' = TRUE \/ failed' = TRUE
      BY <3>1
    <3>3. queued' = TRUE /\ UNCHANGED <<chip, enabled, firstRead, amiVars, axes, worker, sample>>
      BY <2>2 DEF AkStart
    <3>4. QED
      BY <2>2, <3>2, <3>3 DEF Ak
  <2>3. CASE axes /\ chip = "ami" /\ AmiStart
    <3>1. PICK ok \in BOOLEAN : AmiEnable(ok) /\ queued' = ok /\ enabled' = ok
                               /\ (ok => measuring' /\ ~failed')
      BY <2>3 DEF AmiStart
    <3>2. (late' \/ fine' = "best") /\ (ok => ~late')
      BY <2>3, <3>1 DEF AmiEnable, AmiSearch
    <3>3. CASE ok
      BY <2>3, <3>1, <3>2, <3>3 DEF AmiStart
    <3>4. CASE ~ok
      BY <2>3, <3>1, <3>2, <3>4 DEF AmiStart
    <3>5. QED
      BY <3>3, <3>4
  <2>4. CASE axes /\ chip = "yas" /\ YasStart
    BY <2>4 DEF YasStart
  <2>5. QED
    BY <2>1, <2>2, <2>3, <2>4
<1>6. CASE PreDisable
  BY <1>6 DEF PreDisable, driverVars, amiVars
<1>7. CASE WorkStart
  BY <1>7 DEF WorkStart, chipVars, driverVars, amiVars
<1>8. CASE WorkRun
  <2> USE <1>8 DEF WorkRun, HandUp, Request, chipVars
  <2>1. CASE ~enabled
    BY <2>1
  <2>2. CASE enabled /\ Ak /\ AkRead /\ UNCHANGED firstRead
    <3>1. CASE UNCHANGED chipVars
      BY <2>2, <3>1 DEF Ak
    <3>2. ASSUME NEW ok \in BOOLEAN, Request(ok), IF ok THEN HandUp(failed) \/ UNCHANGED <<data, sample>>
                                                        ELSE UNCHANGED <<data, sample>>
          PROVE  PollInv'
      <4>1. CASE ok
        BY <2>2, <3>2, <4>1 DEF Ak
      <4>2. CASE ~ok
        BY <2>2, <3>2, <4>2 DEF Ak
      <4>3. QED
        BY <4>1, <4>2
    <3>3. QED
      BY <2>2, <3>1, <3>2 DEF AkRead
  <2>3. CASE enabled /\ chip = "ami" /\ AmiRead /\ UNCHANGED firstRead
    <3>1. PICK ok \in BOOLEAN :
             /\ measuring' = ok /\ failed' = ~ok
             /\ \/ data # "handed" /\ HandUp(slipped # {})
                \/ UNCHANGED <<data, sample>>
      BY <2>3 DEF AmiRead
    <3>2. measuring' = TRUE \/ failed' = TRUE
      BY <3>1
    <3>3. queued' = TRUE /\ worker' = "idle" /\ UNCHANGED <<chip, axes, enabled, store, amiVars>>
      BY <2>3
    <3>4. CASE data # "handed" /\ HandUp(slipped # {})
      <4>1. data # "stale" /\ (data = "trial" => slipped # {})
        BY <1>8, <2>3
      <4>2. /\ sample'.what = data /\ sample'.failed = (slipped # {}) /\ data' = "handed"
            /\ UNCHANGED <<chip, slipped>>
        BY <2>3, <3>3, <3>4 DEF amiVars
      <4>3. SamplesAreNew' /\ SampleTypeOK'
        BY <2>3, <3>4, <4>1, <4>2
      <4>4. QED
        BY <2>3, <3>2, <3>3, <4>2, <4>3 DEF amiVars
    <3>5. CASE UNCHANGED <<data, sample>>
      <4>1. data # "stale" /\ (data = "trial" => slipped # {})
        BY <1>8, <2>3
      <4>2. QED
        BY <2>3, <3>2, <3>3, <3>5, <4>1 DEF amiVars
    <3>6. QED
      BY <3>1, <3>4, <3>5
  <2>4. CASE enabled /\ chip = "yas" /\ YasRead
    <3>1. /\ queued' = TRUE /\ worker' = "idle" /\ UNCHANGED <<chip, axes, enabled, store, amiVars>>
      BY <2>4
    <3>2. PICK ok \in BOOLEAN :
             IF firstRead
             THEN firstRead' = FALSE /\ Request(ok) /\ UNCHANGED <<data, sample>>
             ELSE \/ Request(measuring \/ ok) /\ UNCHANGED <<data, sample, firstRead>>
                  \/ /\ ok /\ ~measuring
                     /\ sample' = [what |-> data, failed |-> failed]
                     /\ \/ data' = "handed" /\ Request(TRUE) /\ UNCHANGED firstRead
                        \/ YasResume
      BY <2>4 DEF YasRead
    <3>3. CASE firstRead
      <4>1. measuring' = TRUE \/ failed' = TRUE
        BY <3>2, <3>3
      <4>2. QED
        BY <2>4, <3>1, <3>2, <3>3, <4>1
    <3>4. CASE ~firstRead /\ Request(measuring \/ ok) /\ UNCHANGED <<data, sample, firstRead>>
      <4>1. measuring' = TRUE \/ failed' = TRUE
        BY <3>4
      <4>2. QED
        BY <2>4, <3>1, <3>4, <4>1
    <3>5. CASE /\ ~firstRead /\ ~measuring /\ sample' = [what |-> data, failed |-> failed]
               /\ data' = "handed" /\ Request(TRUE) /\ UNCHANGED firstRead
      BY <2>4, <3>1, <3>5
    <3>6. CASE ~firstRead /\ ~measuring /\ sample' = [what |-> data, failed |-> failed] /\ YasResume
      BY <2>4, <3>1, <3>6 DEF YasResume
    <3>7. QED
      BY <3>2, <3>3, <3>4, <3>5, <3>6
  <2>5. QED
    BY <2>1, <2>2, <2>3, <2>4 DEF Read
<1>9. CASE UNCHANGED pollVars
  BY <1>9 DEF pollVars, hostVars, chipVars, driverVars, amiVars
<1>10. QED
  BY <1>1, <1>2, <1>3, <1>4, <1>5, <1>6, <1>7, <1>8, <1>9 DEF PollNext

(* While the buffer is enabled with an axis on, a poll is always to come. *)
THEOREM PollingGoesOn == PollSpec => []PollNeverStops
<1>1. PollInv => PollNeverStops
  BY DEF PollInv
<1>2. QED
  BY <1>1, PollInvInit, PollInvStep, PollTypeCorrect, PTL DEF PollSpec

(* A sample handed up was measured after the last enable, with offsets searched
   to the end, and not handed up before, unless a failure (a request's, or an
   offset write's of the ami) went unnoticed; and an ami that runs has searched
   its offsets to the end. *)
THEOREM ReadingsSound == PollSpec => []ReadingsAreSound
<1>1. PollInv => ReadingsAreSound
  BY DEF PollInv
<1>2. QED
  BY <1>1, PollInvInit, PollInvStep, PollTypeCorrect, PTL DEF PollSpec
=============================================================================
