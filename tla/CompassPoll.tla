---------------------------- MODULE CompassPoll ----------------------------
(***************************************************************************)
(* The stand-alone compass drivers of                                      *)
(* drivers/staging/iio/magnetometer/inv_compass: a delayed work item polls *)
(* the compass and hands a sample to the kfifo, and the IIO core's         *)
(* buffer/enable starts and stops it.  The core holds mlock around         *)
(* postenable and predisable, and the work item takes mlock to poll, so    *)
(* mlock is held by a store exactly while store # "idle".                  *)
(*                                                                         *)
(* A bus access may fail.  What a measurement left in the chip's data      *)
(* registers is "fresh" until it is handed up, "stale" when it was taken   *)
(* before the last enable, "trial" when it was taken with another offset   *)
(* than a search that ended found, "over" when the field was too strong.   *)
(***************************************************************************)
EXTENDS Naturals

CONSTANT Chips          \* the compasses that may be fitted
ASSUME ChipsAssumption == Chips \subseteq {"ak89xx", "ak09911", "ami", "yas"}

VARIABLES chip,         \* the one that is fitted
          axes,         \* some in_magn_*_en is on
          enabled,      \* iio_buffer_enabled
          store,        \* the writer of buffer/enable: "idle", "post" or "pre"
          queued,       \* the delayed work waits for its time
          worker,       \* the work function: "idle", or "start" before mlock
          measuring, data,   \* the chip
          firstRead,    \* yas: first_read_after_reset
          late, fine,   \* ami: late_initialize; how far the search for fine offsets came
          slipped,      \* ami: where an offset of X or Y was not written ("search",
                        \* "start"); the code does not know it
          failed,       \* the last request for a measurement failed, or left a trial offset
          sample        \* the last sample handed up, and whether a failure unnoticed spoilt it

hostVars == <<axes, enabled, store, queued, worker>>
chipVars == <<measuring, data, failed, sample>>
amiVars == <<late, fine, slipped>>
driverVars == <<firstRead, amiVars>>
pollVars == <<chip, hostVars, chipVars, driverVars>>

PollTypeOK ==
    /\ chip \in Chips
    /\ {axes, enabled, queued, measuring, firstRead, late, failed} \subseteq BOOLEAN
    /\ store \in {"idle", "post", "pre"} /\ worker \in {"idle", "start"}
    /\ data \in {"handed", "fresh", "stale", "trial", "over"}
    /\ fine \in {"none", "part", "best"} /\ slipped \subseteq {"search", "start"}

PollInit ==
    /\ chip \in Chips
    /\ axes = FALSE /\ enabled = FALSE /\ store = "idle" /\ queued = FALSE /\ worker = "idle"
    /\ measuring = FALSE /\ data = "handed" /\ failed = FALSE
    /\ sample = [what |-> "none", failed |-> FALSE]
    /\ firstRead = FALSE /\ late = TRUE /\ fine = "none" /\ slipped = {}

Ak == chip \in {"ak89xx", "ak09911"}

-----------------------------------------------------------------------------
(* The IIO core: scan_elements are refused while the buffer is enabled, and
   a failing postenable takes the buffer back to direct mode. *)
SetAxes == /\ store = "idle" /\ ~enabled
           /\ axes' = ~axes
           /\ UNCHANGED <<chip, enabled, store, queued, worker, chipVars, driverVars>>
EnableBegin == /\ store = "idle" /\ ~enabled
               /\ store' = "post" /\ enabled' = TRUE
               /\ UNCHANGED <<chip, axes, queued, worker, chipVars, driverVars>>
DisableBegin == /\ store = "idle" /\ enabled
                /\ store' = "pre"
                /\ UNCHANGED <<chip, axes, enabled, queued, worker, chipVars, driverVars>>

(* The chip ends a measurement.  That of an ami is good with all its offsets
   searched to the end and written. *)
Misplaced == chip = "ami" /\ (fine # "best" \/ slipped # {})
MeasureDone == /\ measuring
               /\ measuring' = FALSE
               /\ data' \in {"over", IF Misplaced THEN "trial" ELSE "fresh"}
               /\ UNCHANGED <<chip, hostVars, failed, sample, driverVars>>

(* What is left of an earlier session; asking for a measurement. *)
Aged(d) == IF d \in {"fresh", "over"} THEN "stale" ELSE d
Request(ok) == measuring' = ok /\ failed' = ~ok

-----------------------------------------------------------------------------
(* postenable of the ak compasses: a trigger that fails is only logged. *)
AkStart == /\ \E ok \in BOOLEAN : Request(ok)
           /\ data' = Aged(data)
           /\ queued' = TRUE
           /\ UNCHANGED <<enabled, driverVars>>

(* ami306_write_offset writes X, Y and Z and returns the result of Z's write:
   an X or Y that kept another offset slips by, in a search for good, at a
   start until the next. *)
Slips(places) == \E xy \in SUBSET places : slipped' = (slipped \ places) \cup xy

(* The fine offset search over the 96 offsets: a failing access, but for an X
   or Y, or an overflow leaves the best so far; each measurement is read. *)
AmiSearch(ok) == fine' = IF ok THEN "best" ELSE "part"

(* set_ami306_enable: the search, unless an earlier enable ended one, and the
   start, which writes the offsets found.  An access may fail before, between
   and after them. *)
AmiEnableTriedOnce(ok) ==
    \/ /\ late /\ late' = FALSE
       /\ \E found \in BOOLEAN : AmiSearch(found) /\ (ok => found)
       /\ Slips({"search", "start"})
    \/ (~late \/ ~ok) /\ UNCHANGED <<late, fine>> /\ Slips({"start"})
AmiEnable(ok) ==
    \/ /\ late
       /\ \E found \in BOOLEAN :
             /\ AmiSearch(found)
             /\ late' = ~found
             /\ ok => found
       /\ Slips({"search", "start"})
    \/ (~late \/ ~ok) /\ UNCHANGED <<late, fine>> /\ Slips({"start"})

(* An ami that does not start fails the store, and the core disables. *)
AmiStart ==
    \E ok \in BOOLEAN :
        /\ AmiEnable(ok)
        /\ IF ok THEN Request(TRUE) ELSE UNCHANGED <<measuring, failed>>
        /\ data' = Aged(data)
        /\ queued' = ok /\ enabled' = ok
        /\ UNCHANGED firstRead

(* The yas does not touch the chip here: the first poll asks it. *)
YasForgetsFirst == /\ UNCHANGED firstRead
                   /\ data' = Aged(data) /\ queued' = TRUE
                   /\ UNCHANGED <<enabled, measuring, failed, amiVars>>
YasStart == /\ firstRead' = TRUE
            /\ data' = Aged(data) /\ queued' = TRUE
            /\ UNCHANGED <<enabled, measuring, failed, amiVars>>

PostEnable ==
    /\ store = "post" /\ store' = "idle"
    /\ IF axes THEN (Ak /\ AkStart) \/ (chip = "ami" /\ AmiStart) \/ (chip = "yas" /\ YasStart)
               ELSE UNCHANGED <<enabled, queued, measuring, data, failed, driverVars>>
    /\ UNCHANGED <<chip, axes, worker, sample>>

(* predisable: cancel_delayed_work_sync waits for a work function that has
   started.  An ak is powered down, which may fail. *)
PreDisable ==
    /\ store = "pre" /\ worker = "idle"
    /\ store' = "idle" /\ enabled' = FALSE /\ queued' = FALSE /\ axes' = FALSE
    /\ \E off \in BOOLEAN : /\ off => Ak
                            /\ measuring' = (measuring /\ ~off)
    /\ UNCHANGED <<chip, worker, data, failed, sample, driverVars>>

-----------------------------------------------------------------------------
(* A poll.  HandUp stores what the registers hold; a read that fails hands
   up nothing.  The ak and the ami count on a delay (at least 10 ms) longer
   than a measurement. *)
HandUp(spoilt) == sample' = [what |-> data, failed |-> spoilt] /\ data' = "handed"

(* A reading is handed up when no error flag is set and the next request
   succeeds; the data ready bit decides nothing.  The ak09911 keeps ST2 past
   the end of its buffer, so what it sees of the flag is not determined. *)
AkRead ==
    \/ UNCHANGED chipVars                                      \* the read fails
    \/ \E ok \in BOOLEAN :
          /\ Request(ok)
          /\ \E flagged \in IF chip = "ak09911" THEN BOOLEAN ELSE {data = "over"} :
                IF ok /\ ~flagged THEN HandUp(failed) ELSE UNCHANGED <<data, sample>>

(* Only a ready reading is handed up; the next one is always forced. *)
AmiRead ==
    \E ok \in BOOLEAN :
        /\ Request(ok)
        /\ \/ data # "handed" /\ HandUp(slipped # {})
           \/ UNCHANGED <<data, sample>>

(* A coil reset searches the offset again: it ends with first_read set, or
   stops on a failing access, which nobody looks at (one before the search
   leaves everything as it was). *)
YasResume ==
    \/ firstRead' = TRUE /\ data' = "trial" /\ measuring' = FALSE /\ failed' = FALSE
    \/ data' = "trial" /\ measuring' = FALSE /\ failed' = TRUE /\ UNCHANGED firstRead

(* The first read after a reset is dropped, and so is one of a busy chip. *)
YasRead ==
    \E ok \in BOOLEAN :
        IF firstRead
        THEN firstRead' = FALSE /\ Request(ok) /\ UNCHANGED <<data, sample>>
        ELSE \/ Request(measuring \/ ok) /\ UNCHANGED <<data, sample, firstRead>>
             \/ /\ ok /\ ~measuring
                /\ sample' = [what |-> data, failed |-> failed]
                /\ \/ data' = "handed" /\ Request(TRUE) /\ UNCHANGED firstRead
                   \/ YasResume                  \* out of range, or disturbed for 3 s

Read == \/ Ak /\ AkRead /\ UNCHANGED firstRead
        \/ chip = "ami" /\ AmiRead /\ UNCHANGED firstRead
        \/ chip = "yas" /\ YasRead

WorkRunOnSuccess ==
    /\ worker = "start" /\ store = "idle"
    /\ worker' = "idle"
    /\ IF enabled THEN Read /\ queued' = (data' # data \/ ~failed')
                  ELSE UNCHANGED <<queued, chipVars, firstRead>>
    /\ UNCHANGED <<chip, axes, enabled, store, amiVars>>
WorkStart == /\ queued /\ worker = "idle"
             /\ chip = "yas" \/ ~measuring
             /\ queued' = FALSE /\ worker' = "start"
             /\ UNCHANGED <<chip, axes, enabled, store, chipVars, driverVars>>
WorkRun ==
    /\ worker = "start" /\ store = "idle"
    /\ worker' = "idle"
    /\ IF enabled THEN queued' = TRUE /\ Read
                  ELSE UNCHANGED <<queued, chipVars, firstRead>>
    /\ UNCHANGED <<chip, axes, enabled, store, amiVars>>

(* A scan axis is chosen, then the buffer enabled and disabled, from user space. *)
PollNext == \/ SetAxes \/ EnableBegin \/ DisableBegin \/ MeasureDone
            \/ PostEnable \/ PreDisable \/ WorkStart \/ WorkRun
PollSpec == PollInit /\ [][PollNext]_pollVars

-----------------------------------------------------------------------------
(* A sample handed up was measured after the last enable, with the offsets
   that a whole search found, and was not handed up before (ak89xx_read,
   ami306_read and measure_int with first_read_after_reset).  The exceptions
   are failures that nobody notices: of a request for a measurement (ak, yas),
   of a search (yas), of an offset's write (ami: never an old sample, but one
   measured with a wrong offset). *)
SamplesAreNew ==
    sample.what \in {"handed", "stale", "trial"} =>
        sample.failed /\ (chip = "ami" => sample.what = "trial")

(* While the buffer is enabled with an axis on, a poll is always to come:
   no failing access stops the polling (the work function reschedules
   itself before it reads). *)
PollNeverStops == enabled /\ axes /\ store = "idle" => queued \/ worker = "start"

(* An ami that runs has searched its offsets to the end: a search that stopped
   half-way is repeated at the next enable (late_initialize).  That X and Y
   were written at each step of it is not known (Slips). *)
OffsetsSearched == chip = "ami" /\ enabled /\ axes /\ store = "idle" => fine = "best"

(* "Measurement has been completed and data is ready to be read": an ak
   hands up a measurement it has not handed up before. *)
ReadyWhenHandedUp == Ak => sample.what \notin {"handed", "stale"}

(* What a compass hands up is a fresh measurement, made with offsets that
   were searched to the end, unless a failure went unnoticed. *)
ReadingsAreSound == SamplesAreNew /\ OffsetsSearched
=============================================================================
