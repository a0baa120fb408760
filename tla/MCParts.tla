------------------------------ MODULE MCParts ------------------------------
(***************************************************************************)
(* Four parts of the server that share nothing, on small instances for     *)
(* TLC: uploads, the calculations, the readers of a stream, and the        *)
(* migration.  In a behaviour one of them moves, and the others stand      *)
(* still, so that their states add up and do not multiply.                 *)
(***************************************************************************)
EXTENDS Upload, Calculations, ByteStreams, HistoryMigration

(* Streams: a first line that, as "--frame" does, begins with a symbol     *)
(* twice; and that overlaps the markers of JPEG.                           *)
MCPartStart == <<"FF", "FF", "D8">>

Interchangeable == Permutations(Uploads)

-----------------------------------------------------------------------------
(* The inputs of the calculations, one a state. *)
Numbers == {None} \union 0..5

RangeInputs == [of : {"range"}, from : Numbers, to : Numbers, size : 0..4]

LayerCounts == {None} \union (-1)..4 \union {199, 200}

ProgressInputs ==
  [of : {"progress"}, layer : LayerCounts, layers : LayerCounts,
   ticks : {None, 0, 3}, allTicks : {None, 0, 7}]

(* Folders on the stick, and one of Windows's. *)
Deep == <<"a", "b", "c", "d">>
Folders == {SubSeq(Deep, 1, n) : n \in 0..4} \union {<<Skipped>>, <<"a", Skipped>>}

SomeFiles ==
  [storage : {"usb"}, folders : Folders, printable : {TRUE}]
  \union [storage : {"local"}, folders : {<<>>, <<"a">>}, printable : BOOLEAN]

(* The printer answers for everything, or not for one folder or another. *)
Unread == {{}, {<<"usb", <<>>>>}, {<<"usb", <<"a">>>>}, {<<"local", <<>>>>, <<"usb", <<"a", "b">>>>}}

ListingInputs == [of : {"listing"}, files : SUBSET SomeFiles, unread : Unread]

Roots == {"", "local", "usb", "media", "mmcblk0p3", "sda1", "etc"}

PathInputs ==
  [of : {"media"}, path : {path \in UNION {[1..n -> Roots \union {"..", "x"}] : n \in 2..4} :
                             path[Len(path)] = "x" /\ ToSet(path) # {""}}]

IndexInputs ==
  [of : {"index"}, sizes : UNION {[1..n -> {0, 3}] : n \in 0..3},
   misplaced : {{}, {1}, {2}, {3}}, offset : {10},
   length : {79, 80, 81, 151, 152, 155, 400}]

(* Pictures of 12 pixels, and of 20 or 30, in which a run crosses rows. *)
Images == {[width |-> 4, height |-> 3], [width |-> 5, height |-> 4], [width |-> 10, height |-> 3]}

SomeRuns == [length : {1, 3, 5, 8, 17}, colour : {0, 100, 110, 255}]

LayerInputs ==
  {[of |-> "layer", runs |-> runs, steps |-> steps, damaged |-> damaged,
    o |-> [width |-> image.width, height |-> image.height, scale |-> scale, mirrorX |-> mirror]] :
     runs \in {runs \in UNION {[1..n -> SomeRuns] : n \in 1..3} :
                 Len(runs) = 1 \/ Len(Pixels(runs)) \in {11, 12, 13, 20, 30}},
     image \in Images, scale \in 2..3, steps \in BOOLEAN, mirror \in BOOLEAN, damaged \in BOOLEAN}

MCInputs == RangeInputs \union ProgressInputs \union ListingInputs \union PathInputs
            \union IndexInputs \union LayerInputs

-----------------------------------------------------------------------------
PartsInit == UploadInit /\ CalculationsInit /\ StreamInit /\ MigrationInit

(* The others move beside one initial state of the uploads only. *)
UploadAsleep == UploadInit /\ listed = {} /\ UNCHANGED uploadVars

CalculationsAsleep == CalculationsInit /\ UNCHANGED input
StreamAsleep == StreamInit /\ UNCHANGED streamVars
MigrationAsleep == MigrationInit /\ UNCHANGED migrationVars

PartsNext ==
  \/ CalculationsAsleep /\ StreamAsleep /\ MigrationAsleep /\ UploadNext
  \/ UploadAsleep /\ StreamAsleep /\ MigrationAsleep /\ Compute
  \/ UploadAsleep /\ CalculationsAsleep /\ MigrationAsleep /\ Chunk
  \/ UploadAsleep /\ CalculationsAsleep /\ StreamAsleep /\ MigrationNext

PartsSpec == PartsInit /\ [][PartsNext]_<<uploadVars, input, streamVars, migrationVars>>

=============================================================================
