----------------------------- MODULE Calculations -----------------------------
(***************************************************************************)
(* The algorithms of cthulhu that keep no state, each beside what it       *)
(* should compute: parseRange (range.ts), progressPercent (status.ts),     *)
(* listPrintableFiles (file-list.ts), the media paths (printer-media.ts),  *)
(* and the layers of GooLayers.                                            *)
(***************************************************************************)
EXTENDS GooLayers, SequencesExt

CONSTANTS
  None,     \* undefined or null
  Invalid,  \* parseRange's "invalid": answered 416
  Inputs    \* what is computed, and of what

-----------------------------------------------------------------------------
(* Faulty variants, used to check that the properties notice them.         *)
(* RangePastEnd: the end that was asked for is not cut to the file's.      *)
(* AnythingIsPrint: a path is a print file wherever it is.                 *)
RangePastEnd(from, to, size) ==
  LET start == IF from # None THEN from ELSE IF to = None THEN 0 ELSE Most(0, size - to)
      end == IF from # None /\ to # None THEN to ELSE size - 1
  IN IF start > end \/ start >= size THEN Invalid
     ELSE [start |-> start, end |-> end, partial |-> TRUE]

AnythingIsPrint(media) == ~Contains(media, "..")

-----------------------------------------------------------------------------
(* parseRange, of a header "bytes=from-to" with either end perhaps left    *)
(* out, or of anything else (from and to None).                            *)
ParseRange(from, to, size) ==
  IF from = None /\ to = None THEN [start |-> 0, end |-> size - 1, partial |-> FALSE]
  ELSE LET start == IF from # None THEN from ELSE Most(0, size - to)
           end == IF from # None /\ to # None THEN Least(to, size - 1) ELSE size - 1
       IN IF start > end \/ start >= size THEN Invalid
          ELSE [start |-> start, end |-> end, partial |-> TRUE]

(* The bytes that were asked for, of those there are. *)
BytesAsked(from, to, size) ==
  {i \in 0..(size - 1) :
     IF from # None THEN i >= from /\ (to # None => i <= to)
     ELSE to # None => i >= size - to}

RangeAgrees(in) ==
  LET result == ParseRange(in.from, in.to, in.size)
      bytes == BytesAsked(in.from, in.to, in.size) IN
  IF result = Invalid THEN bytes = {} ELSE result.start..result.end = bytes

-----------------------------------------------------------------------------
(* ratio, and progressPercent: by layers, or else by ticks.                *)
Ratio(current, total) ==
  IF current = None \/ total = None THEN None
  ELSE IF total <= 0 THEN None
  ELSE Least(100, Most(0, Round(current * 100, total)))

ProgressPercent(layer, layers, ticks, allTicks) ==
  IF Ratio(layer, layers) # None THEN Ratio(layer, layers) ELSE Ratio(ticks, allTicks)

(* It is unknown only when neither is known, and never out of range; it    *)
(* says 100 only within half a percent of the end.                         *)
ProgressAgrees(in) ==
  LET p == ProgressPercent(in.layer, in.layers, in.ticks, in.allTicks) IN
  IF p = None THEN Ratio(in.layer, in.layers) = None /\ Ratio(in.ticks, in.allTicks) = None
  ELSE /\ p \in 0..100
       /\ Ratio(in.layer, in.layers) # None /\ p = 100 => 200 * in.layer >= 199 * in.layers

-----------------------------------------------------------------------------
(* listPrintableFiles.  A file is where it is stored, the folders it is    *)
(* in, and whether its name is printable; Cmd 258 lists a folder.  Nothing *)
(* is found in a folder that is unread: whose listing the printer refuses, *)
(* answers without a list, or answers with what is in the other storage.   *)
UsbDepth == 3
Skipped == "System Volume Information"

FilesIn(files, storage, folders) == {f \in files : f.storage = storage /\ f.folders = folders}

FoldersIn(files, storage, folders) ==
  {SubSeq(f.folders, 1, Len(folders) + 1) :
     f \in {g \in files : g.storage = storage /\ Len(g.folders) > Len(folders)
                          /\ SubSeq(g.folders, 1, Len(folders)) = folders}}

(* The folders so many levels down that are read, and what is printable in *)
(* one of them.                                                            *)
Walk(files, unread, storage, depth) ==
  LET Read(level) == {folders \in level : <<storage, folders>> \notin unread}
      Level[n \in 0..depth] ==
        Read(IF n = 0 THEN {<<>>}
             ELSE UNION {{sub \in FoldersIn(files, storage, folders) : sub[Len(sub)] # Skipped} :
                           folders \in Level[n - 1]})
  IN {f \in files : /\ f.printable
                    /\ \E n \in 0..depth : \E folders \in Level[n] :
                         f \in FilesIn(files, storage, folders)}

ListPrintableFiles(files, unread) ==
  Walk(files, unread, "local", 0) \union Walk(files, unread, "usb", UsbDepth)

ListingAgrees(in) ==
  ListPrintableFiles(in.files, in.unread) =
    {f \in in.files :
       /\ f.printable
       /\ f.storage = "local" => f.folders = <<>>
       /\ f.storage = "usb" => Len(f.folders) <= UsbDepth
       /\ \A i \in DOMAIN f.folders : f.folders[i] # Skipped
       /\ \A n \in 0..Len(f.folders) : <<f.storage, SubSeq(f.folders, 1, n)>> \notin in.unread}

-----------------------------------------------------------------------------
(* mediaPath and sdcpPath, of the parts of a path between its slashes; an  *)
(* absolute path begins with a blank part, and a doubled slash is one more. *)
Blank == ""
LocalRoot == <<Blank, "media", "mmcblk0p3">>
UsbRoot == <<Blank, "media", "sda1">>

(* The parts between the slashes that are not empty. *)
Parts(path) ==
  LET Among[n \in 0..Len(path)] ==
        IF n = 0 THEN <<>>
        ELSE IF path[n] = Blank THEN Among[n - 1] ELSE Append(Among[n - 1], path[n])
  IN Among[Len(path)]

Clean(path) == IF path[1] = Blank THEN <<Blank>> \o Parts(path) ELSE Parts(path)

Under(root, path) == IsPrefix(root, path) /\ Len(path) > Len(root)

MediaPath(path) ==
  LET clean == Clean(path) IN
  CASE Under(<<Blank, "media">>, clean) -> clean
    [] Under(<<Blank, "local">>, clean) -> LocalRoot \o SubSeq(clean, 3, Len(clean))
    [] Under(<<Blank, "usb">>, clean) -> UsbRoot \o SubSeq(clean, 3, Len(clean))
    [] OTHER -> LocalRoot \o IF clean[1] = Blank THEN Tail(clean) ELSE clean

SdcpPath(media) ==
  LET clean == Clean(media) IN
  CASE Under(LocalRoot, clean) -> <<Blank, "local">> \o SubSeq(clean, 4, Len(clean))
    [] Under(UsbRoot, clean) -> <<Blank, "usb">> \o SubSeq(clean, 4, Len(clean))
    [] OTHER -> clean

IsPrintFile(media) ==
  (Under(LocalRoot, media) \/ Under(UsbRoot, media)) /\ ~Contains(media, "..")

(* A file keeps its name on the way to the printer's own path and back,    *)
(* and nothing is read but what is under one of the two storages.          *)
MediaAgrees(in) ==
  LET clean == Clean(in.path)
      stored == clean[1] = Blank /\ Len(clean) > 2 /\ clean[2] \in {"local", "usb"} IN
  /\ stored => SdcpPath(MediaPath(in.path)) = clean
  /\ IsPrintFile(MediaPath(in.path)) =>
       SdcpPath(MediaPath(in.path))[2] \in {"local", "usb"} /\ ~Contains(clean, "..")

-----------------------------------------------------------------------------
(* The offsets of indexLayers, by their sum; a file that ends before the   *)
(* last layer's data, or with a layer that is misplaced, is refused.       *)
IndexAgrees(in) ==
  LET Ahead[n \in 0..Len(in.sizes)] == IF n = 0 THEN 0 ELSE Ahead[n - 1] + in.sizes[n]
      Start(i) == in.offset + i * (DefinitionBytes + 4) + (i - 1) * 2 + Ahead[i - 1]
      n == Len(in.sizes) IN
  Indexed(in.sizes, in.misplaced, in.offset, in.length) =
    IF n > 0 /\ (Start(n) > in.length \/ \E i \in 1..n : i \in in.misplaced) THEN Refused
    ELSE [i \in 1..n |-> Start(i)]

-----------------------------------------------------------------------------
(* A picture as runs of pixels, and how a slicer may write one of them: as *)
(* a step from the colour before where it can, or its length in as many    *)
(* bytes as it needs or in one more.                                       *)
MoreBytes(rest, steps) ==
  CASE rest = 0 -> <<>>
    [] 0 < rest /\ rest < 256 /\ ~steps -> <<rest>>
    [] 0 < rest /\ rest < 65536 /\ (rest > 255 \/ steps) -> <<rest \div 256, rest % 256>>
    [] rest > 65535 -> <<rest \div 65536, (rest \div 256) % 256, rest % 256>>

RunBytes(run, before, steps) ==
  LET more == MoreBytes(run.length \div 16, steps)
      head == 16 * Len(more) + (run.length % 16)
      step == run.colour - before
  IN CASE steps /\ run.length < 256 /\ 0 <= step /\ step < 16 -> <<144 + step, run.length>>
       [] steps /\ run.length < 256 /\ -16 < step /\ step < 0 -> <<176 - step, run.length>>
       [] OTHER ->
            (CASE run.colour = 0 -> <<head>>
               [] run.colour = 255 -> <<192 + head>>
               [] OTHER -> <<64 + head, run.colour>>) \o more

Encoded(runs, steps) ==
  LET Before(i) == IF i = 1 THEN 0 ELSE runs[i - 1].colour
      bytes == <<85>> \o FlattenSeq([i \in DOMAIN runs |-> RunBytes(runs[i], Before(i), steps)])
  IN Append(bytes, Checksum(Append(bytes, 0)))

Pixels(runs) == FlattenSeq([i \in DOMAIN runs |-> [k \in 1..runs[i].length |-> runs[i].colour]])

(* Each cell of the image is the mean of its pixels; a layer of too many   *)
(* pixels or too few, or one byte of which has changed, is refused.        *)
CellOf(p, o) == <<(p \div o.width) \div o.scale, (p % o.width) \div o.scale>>

Total(pixels, cell, o) ==
  LET Sum[p \in 0..Len(pixels)] ==
        IF p = 0 THEN 0 ELSE Sum[p - 1] + (IF CellOf(p - 1, o) = cell THEN pixels[p] ELSE 0)
  IN Sum[Len(pixels)]

Mean(pixels, cell, o) ==
  Round(Total(pixels, cell, o), Total([p \in DOMAIN pixels |-> 1], cell, o))

LayerAgrees(in) ==
  LET pixels == Pixels(in.runs)
      o == in.o
      data == Encoded(in.runs, in.steps)
  IN DecodeLayer(IF in.damaged THEN [data EXCEPT ![2] = (@ + 1) % 256] ELSE data, o) =
       IF in.damaged \/ Len(pixels) # o.width * o.height THEN Refused
       ELSE [cell \in Cells(o) |-> Mean(pixels, Source(cell, o), o)]

-----------------------------------------------------------------------------
(* What may be asked, of any size.                                         *)
RangeInput == [of : {"range"}, from : Nat \union {None}, to : Nat \union {None}, size : Nat]

Count == Int \union {None}
ProgressInput ==
  [of : {"progress"}, layer : Count, layers : Count, ticks : Count, allTicks : Count]

File == [storage : {"local", "usb"}, folders : Seq(STRING), printable : BOOLEAN]
Folder == {"local", "usb"} \X Seq(STRING)
ListingInput == [of : {"listing"}, files : SUBSET File, unread : SUBSET Folder]

MediaInput == [of : {"media"}, path : {p \in Seq(STRING) : p # <<>> /\ p[Len(p)] # Blank}]

IndexInput ==
  [of : {"index"}, sizes : Seq(Nat), misplaced : SUBSET Nat, offset : Nat, length : Nat]

(* The length of a run has four bits, and up to three bytes. *)
Longest == 16 * 256 * 256 * 256 - 1
Run == [length : 0..Longest, colour : 0..255]
Size == Nat \ {0}
MaxScale == 20   \* what parseScale lets through
LayerInput ==
  [of : {"layer"}, runs : Seq(Run), steps : BOOLEAN, damaged : BOOLEAN,
   o : [width : Size, height : Size, scale : 1..MaxScale, mirrorX : BOOLEAN]]

ASSUME NoneAssumption == None \notin Int
ASSUME InvalidAssumption == Invalid \notin [start : Int, end : Int, partial : BOOLEAN]
ASSUME InputsAssumption ==
  Inputs \subseteq RangeInput \union ProgressInput \union ListingInput
                   \union MediaInput \union IndexInput \union LayerInput

VARIABLE input   \* what is computed

CalculationsInit == input = [of |-> "nothing"]
Compute == input.of = "nothing" /\ input' \in Inputs
CalculationsSpec == CalculationsInit /\ [][Compute]_input

(* Numbers are computed as they should be: a range answers with the bytes  *)
(* that were asked for, progress stays in range, and layers are found.     *)
NumbersAgree ==
  /\ input.of = "range" => RangeAgrees(input)
  /\ input.of = "progress" => ProgressAgrees(input)
  /\ input.of = "index" => IndexAgrees(input)

(* A listing has every printable file within reach and nothing else, and a *)
(* path means the same file on the way to the printer's own and back.      *)
FilesAgree ==
  /\ input.of = "listing" => ListingAgrees(input)
  /\ input.of = "media" => MediaAgrees(input)

(* What is computed without any state is as it should be. *)
CalculationsAgree == NumbersAgree /\ FilesAgree

(* A layer decodes to the mean of the pixels of each of its cells, in runs *)
(* that cross cells and rows anywhere, or is refused (layers.ts:46-70).    *)
LayersDecode == input.of = "layer" => LayerAgrees(input)

=============================================================================
