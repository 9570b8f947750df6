------------------------------ MODULE CalStore ------------------------------
(***************************************************************************)
(* The storage manager of mllite (storage_manager.c) and the calibration   *)
(* file (ml_stored_data.c), with the three boxes of the data builder and   *)
(* those of the closed library's modules.  A box of n cells is a header    *)
(* and n cells, the first with its content; a checksum is the cells it     *)
(* covers.  The power may go at any time; the file is never synced, so any *)
(* end of what was written since may be missing afterwards.                *)
(***************************************************************************)
EXTENDS DataBuilder

CONSTANTS OtherKeys,     \* boxes of the closed library
          Versions,      \* software versions: the size of every box, in cells
          MaxBoxes,      \* NUM_STORAGE_BOXES
          NoFile         \* there is no calibration file
Keys == {"db", "mpl", "accel"} \cup OtherKeys
ASSUME StoreAssumption == /\ Versions \subseteq [Keys -> Nat \ {0}] /\ MaxBoxes \in Nat
                         /\ OtherKeys \cap {"db", "mpl", "accel"} = {}

VARIABLES boxes,         \* the registered boxes, in order: keys and sizes
          file,          \* the cells of the calibration file, or NoFile
          synced,        \* how many of them a power failure leaves
          toWrite,       \* cells of a store that are not written yet
          up,            \* the program runs
          loaded         \* what the last start loaded: box contents by key
storeVars == <<boxes, file, synced, toWrite, up, loaded>>

(* inv_register_load_store: a key at most once, and only while there is room. *)
RegisterBox(bs, k, size) ==
    IF Len(bs) >= MaxBoxes \/ \E i \in DOMAIN bs : bs[i].key = k THEN bs
    ELSE Append(bs, [key |-> k, size |-> size])
(* The boxes after a start: the data builder's three first, then those of the
   modules enabled, in the order they are enabled. *)
BoxesOf(order, sizes) ==
    LET keys == <<"db", "mpl", "accel">> \o order
        registered[kk \in 0..Len(keys)] ==
            IF kk = 0 THEN <<>> ELSE RegisterBox(registered[kk - 1], keys[kk], sizes[keys[kk]])
    IN  registered[Len(keys)]
Orders == {o \in UNION {[1..n -> OtherKeys] : n \in 0..Cardinality(OtherKeys)} : IsInjective(o)}

(* inv_db_save_func, inv_db_save_mpl_func, inv_db_save_accel_mpl_func *)
Content(k, sv) ==
    IF k = "db" THEN [compassBias |-> sv.compassBias, factoryGyro |-> sv.factoryGyro,
                      factoryAccel |-> sv.factoryAccel, tcSet |-> sv.tcSet, acc |-> sv.acc]
    ELSE IF k = "mpl" THEN [gyroBias |-> sv.gyroBias]
    ELSE IF k = "accel" THEN [accelBias |-> sv.accelBias]
    ELSE [of |-> k]
Pad == [rest |-> "of a box"]
(* inv_save_mpl_states: a header and the content for each box, and an outer
   header over all of them. *)
Cells(b, sv) == LET data == [i \in 1..b.size |-> IF i = 1 THEN Content(b.key, sv) ELSE Pad]
                IN  <<[key |-> b.key, size |-> b.size, sum |-> data]>> \o data
Body(bs, sv) ==
    LET filled[kk \in 0..Len(bs)] ==
            IF kk = 0 THEN <<>> ELSE filled[kk - 1] \o Cells(bs[kk], sv)
    IN  filled[Len(bs)]
Image(bs, sv) ==
    LET body == Body(bs, sv)
    IN  <<[key |-> "DEFAULT", size |-> Len(body) + 1, sum |-> body]>> \o body

(* inv_find_entry, and the loop of inv_load_mpl_states over a body whose
   checksum was right: unknown boxes are skipped; a box whose size changed
   ends the load with what was loaded before it kept. *)
FindEntry(bs, k) == {i \in DOMAIN bs : bs[i].key = k}
NoBox(err) == [got |-> {}, err |-> err]
LoadBox(bs, hd, data, rest) ==
    LET known == FindEntry(bs, hd.key)
    IN  IF known = {} THEN rest
        ELSE IF \E i \in known : bs[i].size # hd.size THEN NoBox("CALIBRATION_LEN")
        ELSE IF data # hd.sum THEN NoBox("CALIBRATION_LOAD")
        ELSE [got |-> rest.got \cup {<<hd.key, data[1]>>}, err |-> rest.err]
LoadBoxes(bs, body) ==
    LET n == Len(body)
        from[p \in 1..(n + 1)] ==
            IF p >= n THEN NoBox("SUCCESS")
            ELSE LET next == p + 1 + body[p].size
                 IN  IF next \notin (p + 1)..(n + 1) THEN NoBox("SUCCESS")
                     ELSE LoadBox(bs, body[p], SubSeq(body, p + 1, next - 1), from[next])
    IN  from[1]
(* inv_read_cal and inv_load_mpl_states: no file, an empty one, a wrong key,
   a wrong checksum (a file shorter than its header says is read beyond its
   end), or the boxes. *)
LoadUnchecked(bs, f) ==
    IF f = NoFile THEN NoBox("FILE_OPEN")
    ELSE IF f = <<>> THEN NoBox("SUCCESS")
    ELSE LoadBoxes(bs, Tail(f))
Load(bs, f) ==
    IF f = NoFile THEN NoBox("FILE_OPEN")
    ELSE IF f = <<>> THEN NoBox("SUCCESS")
    ELSE IF Tail(f) # f[1].sum THEN NoBox("CALIBRATION_LOAD")
    ELSE LoadBoxes(bs, Tail(f))
(* inv_db_load_func and its two siblings: into the structures saved from,
   and the accuracies into the sensors. *)
ContentOf(got, k, default) == IF \E g \in got : g[1] = k
                              THEN (CHOOSE g \in got : g[1] = k)[2] ELSE default
SaveAfterForgetting(got) ==
    LET db == ContentOf(got, "db", Content("db", EmptySave))
    IN  [compassBias |-> db.compassBias, factoryGyro |-> db.factoryGyro,
         factoryAccel |-> db.factoryAccel, tcSet |-> db.tcSet, acc |-> db.acc,
         gyroBias |-> 0, accelBias |-> 0]
SaveAfter(got) ==
    LET db == ContentOf(got, "db", Content("db", EmptySave))
    IN  [compassBias |-> db.compassBias, factoryGyro |-> db.factoryGyro,
         factoryAccel |-> db.factoryAccel, tcSet |-> db.tcSet, acc |-> db.acc,
         gyroBias |-> ContentOf(got, "mpl", Content("mpl", EmptySave)).gyroBias,
         accelBias |-> ContentOf(got, "accel", Content("accel", EmptySave)).accelBias]
-----------------------------------------------------------------------------
StoreInit == /\ boxes = <<>> /\ file = NoFile /\ synced = 0 /\ toWrite = <<>>
             /\ up = FALSE /\ loaded = {}
(* inv_init_mpl, the modules enabled, and inv_load_calibration. *)
Boot == /\ ~up /\ up' = TRUE
        /\ \E order \in Orders, sizes \in Versions : boxes' = BoxesOf(order, sizes)
        /\ LET r == Load(boxes', file)
           IN  /\ loaded' = r.got /\ result' = r.err
               /\ save' = SaveAfter(r.got) /\ accuracy' = save'.acc
        /\ UNCHANGED <<file, synced, toWrite>>
        /\ UNCHANGED <<status, stamp, prev, raw, cal, outVars, confVars, messages, rh, startCbs, dataCbs>>
(* inv_store_calibration up to fopen, which truncates the file or fails. *)
storeRest == <<boxes, up, loaded, builderVars, startCbs, dataCbs>>
StoreBegin == /\ up /\ toWrite = <<>>
              /\ \/ file' = <<>> /\ synced' = 0 /\ toWrite' = Image(boxes, save) /\ UNCHANGED result
                 \/ result' = "FILE_OPEN" /\ UNCHANGED <<file, synced, toWrite>>
              /\ UNCHANGED storeRest
(* The fwrite of inv_write_cal, as far as it gets before something else
   happens; the medium may be full. *)
StoreWrite == /\ up /\ toWrite # <<>>
              /\ \E n \in 1..Len(toWrite) :
                    /\ file' = file \o SubSeq(toWrite, 1, n)
                    /\ toWrite' = SubSeq(toWrite, n + 1, Len(toWrite))
              /\ result' = IF toWrite' = <<>> THEN "SUCCESS" ELSE result
              /\ UNCHANGED <<synced, storeRest>>
StoreFull == /\ up /\ toWrite # <<>>
             /\ toWrite' = <<>> /\ result' = "FILE_WRITE"
             /\ UNCHANGED <<file, synced, storeRest>>
(* The system writes its cache back when it likes. *)
Sync == /\ file # NoFile /\ synced # Len(file) /\ synced' = Len(file)
        /\ UNCHANGED <<file, toWrite, result, storeRest>>
(* The power goes: memory is lost and the file may be cut at any cell not
   known to be on the medium. *)
PowerLoss == /\ up /\ up' = FALSE
             /\ IF file = NoFile THEN UNCHANGED <<file, synced>>
                ELSE \E n \in synced..Len(file) : file' = SubSeq(file, 1, n) /\ synced' = n
             /\ toWrite' = <<>>
             /\ boxes' = <<>> /\ loaded' = {} /\ result' = "SUCCESS"
             /\ startCbs' = <<"results">> /\ dataCbs' = <<>>
             /\ BuilderEnds
(* The biases change only while the program runs and no store is in the
   middle of its write, which happens on the thread that sets them. *)
Learn == up /\ toWrite = <<>> /\ Calibrate /\ UNCHANGED storeVars
StoreNext == Boot \/ StoreBegin \/ StoreWrite \/ StoreFull \/ Sync \/ PowerLoss \/ Learn
StoreSpec == TablesInit /\ BuilderInit /\ StoreInit
             /\ [][StoreNext]_<<tableVars, builderVars, storeVars>>
-----------------------------------------------------------------------------
Complete(f) == f # NoFile /\ f # <<>> /\ Len(f) = f[1].size
Headers(f) == {i \in 2..Len(f) : "sum" \in DOMAIN f[i]}
ContentsOf(f) == {<<f[i].key, f[i + 1]>> : i \in Headers(f)}
SameSizes(bs, f) == \A i \in Headers(f), j \in DOMAIN bs : bs[j].key = f[i].key => bs[j].size = f[i].size

(* Of a file that a crash or a full medium left short nothing is loaded, and
   of a complete one every box that the program still has with its size,
   in whatever order its modules are enabled now (inv_load_mpl_states). *)
LoadsAllOrNothing ==
    [][Boot => /\ ~Complete(file) => loaded' = {}
               /\ Complete(file) /\ SameSizes(boxes', file) =>
                      loaded' = {c \in ContentsOf(file) : FindEntry(boxes', c[1]) # {}}]_storeVars

(* Whatever the power, the medium and the versions do, a start uses a part of
   what one store saved, never a torn box or a mixture of two stores. *)
InUse == {<<boxes[i].key, Content(boxes[i].key, save)>> : i \in DOMAIN boxes}
Nv == INSTANCE NvRegister WITH
        current <- InUse, found <- loaded,
        kept <- IF Complete(file) THEN ContentsOf(file) ELSE {}
KeepsAsRegister == Nv!NvSpec
=============================================================================
