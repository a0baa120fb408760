------------------------------ MODULE FilesPage ------------------------------
(***************************************************************************)
(* apps/web/src/Files.tsx: the list of the printer's files, with its       *)
(* buttons to upload, print and delete, and the routes behind them:        *)
(* GET /api/files, POST /api/files/delete and POST /api/print of app.ts.   *)
(* What is between POST /api/upload and the printer is Upload's; here an   *)
(* upload ends in one of its ways.                                         *)
(*                                                                         *)
(* A page runs one operation at a time.  Other hands use the printer, too, *)
(* at its touchscreen and from other pages; a file whose upload was given  *)
(* up too soon, and appears later, counts as theirs.                       *)
(***************************************************************************)
EXTENDS FileCache

VARIABLES
  shown,        \* the page's files
  mount,        \* the list asked for when the page was opened
  op,           \* the operation under way; Idle: working is false
  message,
  confirming,   \* the path whose Delete was pressed once
  cancel,       \* POST /api/upload/cancel
  missed        \* history: what each list has missed since it was read

pageVars == <<shown, mount, op, message, confirming, cancel>>
filesVars == <<cacheVars, pageVars, missed>>

Idle == [kind |-> "none", at |-> "over"]
Op(kind, p) == [kind |-> kind, path |-> p, at |-> "sent"]
Working == op # Idle
Uploading == op.kind = "upload"

(* The list that is shown, and those the page has read and not shown yet.  *)
(* A list misses what this page changes at the printer after it was read   *)
(* ("own"), and what others change, which the page cannot know ("others"), *)
(* as it does everything that could not be had or was never read.  What    *)
(* the mount's list has missed, and is shown without, is "late".           *)
Lists == {"shown", "mount", "op"}
Misses == {"nothing", "own", "late", "others"}

HasRead(list, ok) == missed' = [missed EXCEPT ![list] = IF ok THEN "nothing" ELSE "others"]

ChangesOwn == missed' = [l \in Lists |-> IF missed[l] = "nothing" THEN "own" ELSE missed[l]]
ChangesOthers == missed' = [l \in Lists |-> "others"]

(* The messages that say something is going on. *)
InProgress == {"uploading", "deleting", "cancelling"}

(* What listPrintableFiles returns. *)
Held == {p \in Paths : storage[p] # NoFile}

FilesInit ==
  /\ CacheInit
  /\ shown = {}
  /\ mount = [at |-> "asked", files |-> {}]
  /\ op = Idle
  /\ message = "none"
  /\ confirming = NoFile
  /\ cancel = "none"
  /\ missed = [l \in Lists |-> "others"]

-----------------------------------------------------------------------------
(* Faulty variants, used to check that the properties notice them.         *)
(* ReadsIfDone: the list is read again after a success only.               *)
ReadsIfDone(result) == result = "done"

(* SilentRefusal: a cancellation that is refused says nothing.             *)
SilentRefusal(how) == IF how = "accepted" THEN "cancelled" ELSE message

-----------------------------------------------------------------------------
(* A request for the list: a printer that is off has none. *)
MountReads ==
  /\ mount.at = "asked"
  /\ \E ok \in BOOLEAN :
       /\ mount' = [at |-> "read", files |-> IF ok THEN Held ELSE {}]
       /\ HasRead("mount", ok)
  /\ UNCHANGED <<cacheVars, shown, op, message, confirming, cancel>>

(* It is shown whenever it comes, in the place of one that was read later. *)
MountShows ==
  /\ mount.at = "read"
  /\ mount' = [at |-> "shown", files |-> {}]
  /\ shown' = mount.files
  /\ missed' = [missed EXCEPT !["shown"] = IF missed["mount"] = "own" THEN "late"
                                           ELSE missed["mount"],
                              !["mount"] = "others"]
  /\ UNCHANGED <<cacheVars, op, message, confirming, cancel>>

Reads ==
  /\ op.at = "listing"
  /\ \E ok \in BOOLEAN :
       /\ op' = [kind |-> op.kind, at |-> "listed", files |-> IF ok THEN Held ELSE {}]
       /\ HasRead("op", ok)
  /\ UNCHANGED <<cacheVars, shown, mount, message, confirming, cancel>>

(* The end of refresh, and the finally clause. *)
Shows ==
  /\ op.at = "listed"
  /\ shown' = op.files
  /\ op' = Idle
  /\ missed' = [missed EXCEPT !["shown"] = missed["op"], !["op"] = "others"]
  /\ UNCHANGED <<cacheVars, mount, message, confirming, cancel>>

-----------------------------------------------------------------------------
Begins(new, text) ==
  /\ ~Working /\ Counts
  /\ op' = new
  /\ message' = text
  /\ UNCHANGED <<storage, cacheFileVars, load, pastSizes, shown, mount, cancel, missed>>

StartsUpload(p) == Begins(Op("upload", p), "uploading") /\ UNCHANGED confirming

(* busy, another print that is running, disables the button at any time.   *)
Prints(p) ==
  /\ p \in shown /\ confirming # p
  /\ Begins(Op("print", p), "none")
  /\ UNCHANGED confirming

Arms(p) ==
  /\ p \in shown /\ ~Working
  /\ confirming' = p
  /\ UNCHANGED <<cacheVars, shown, mount, op, message, cancel, missed>>

Disarms ==
  /\ confirming \in shown
  /\ confirming' = NoFile
  /\ UNCHANGED <<cacheVars, shown, mount, op, message, cancel, missed>>

DeletesForGood(p) ==
  /\ p \in shown /\ confirming = p
  /\ Begins(Op("delete", p), "deleting")
  /\ confirming' = NoFile

(* Cancel is offered for as long as uploading is set (bound: one           *)
(* cancellation at a time); the route asks whether there is an upload.     *)
ClicksCancel ==
  /\ Uploading /\ cancel = "none"
  /\ message' = "cancelling"
  /\ cancel' = "asked"
  /\ UNCHANGED <<cacheVars, shown, mount, op, confirming, missed>>

CancelRoute ==
  /\ cancel = "asked"
  /\ cancel' = IF op.kind = "upload" /\ op.at = "sent" THEN "accepted" ELSE "refused"
  /\ UNCHANGED <<cacheVars, shown, mount, op, message, confirming, missed>>

CancelMessage(how) == IF how = "accepted" THEN "cancelled" ELSE "failed"

CancelAnswered ==
  /\ cancel \in {"accepted", "refused"}
  /\ message' = CancelMessage(cancel)
  /\ cancel' = "none"
  /\ UNCHANGED <<cacheVars, shown, mount, op, confirming, missed>>

-----------------------------------------------------------------------------
UnchangedButOp ==
  UNCHANGED <<cacheFileVars, events, shown, mount, message, confirming, cancel>>

Ends(result) == op' = [kind |-> op.kind, at |-> "answered", result |-> result]

(* The upload succeeds; or it is refused, cut off or cancelled, whether or *)
(* not the printer has the file by then.                                   *)
UploadEnds ==
  /\ Uploading /\ op.at = "sent"
  /\ \/ /\ \E c \in Contents, result \in {"done", "failed"} : Puts(op.path, c) /\ Ends(result)
        /\ ChangesOwn
     \/ Ends("failed") /\ UNCHANGED <<storage, pastSizes, load, missed>>
  /\ UnchangedButOp

(* POST /api/print: the printer begins, or has a reason not to. *)
PrintEnds ==
  /\ op.kind = "print" /\ op.at = "sent"
  /\ \E result \in {"done", "failed"} : Ends(result)
  /\ UNCHANGED <<storage, pastSizes, load, missed>>
  /\ UnchangedButOp

(* POST /api/files/delete: what the store knows to be printed, which may   *)
(* be anything, is not deleted.                                            *)
Clash(p, current) == p = current

DeleteRoute ==
  /\ op.kind = "delete" /\ op.at = "sent"
  /\ \E current \in Paths \union {NoFile} :
       IF Clash(op.path, current) THEN Ends("failed") ELSE op' = [op EXCEPT !.at = "deleting"]
  /\ UNCHANGED <<storage, pastSizes, load, missed>>
  /\ UnchangedButOp

(* Cmd 259 is obeyed, refused, or obeyed without an answer. *)
DeleteEnds ==
  /\ op.kind = "delete" /\ op.at = "deleting"
  /\ \/ Puts(op.path, NoFile) /\ Ends("done") /\ ChangesOwn
     \/ Puts(op.path, NoFile) /\ Ends("failed") /\ ChangesOthers
     \/ Ends("failed") /\ UNCHANGED <<storage, pastSizes, load, missed>>
  /\ UnchangedButOp

(* Whether the page goes on to read the list. *)
RereadsAfterUpload(result) == result \in {"done", "failed"}

Rereads(result) ==
  \/ op.kind = "upload" /\ RereadsAfterUpload(result)
  \/ op.kind = "delete" /\ result = "done"

(* The page has the answer.  A cancellation has its message already. *)
OpAnswered ==
  /\ op.at = "answered"
  /\ message' = IF Uploading /\ op.result = "failed" /\ message = "cancelled"
                THEN message ELSE op.result
  /\ op' = IF Rereads(op.result) THEN [kind |-> op.kind, at |-> "listing"] ELSE Idle
  /\ UNCHANGED <<cacheVars, shown, mount, confirming, cancel, missed>>

-----------------------------------------------------------------------------
OthersPut(p, c) ==
  /\ Counts
  /\ Puts(p, c)
  /\ ChangesOthers
  /\ UNCHANGED <<cacheFileVars, pageVars>>

(* Whatever the page is waiting for fails; a delete that was sent and is   *)
(* obeyed later counts as another's.                                       *)
ServerKilled ==
  /\ Killed
  /\ op' = IF op.at \in {"sent", "deleting"}
           THEN [kind |-> op.kind, at |-> "answered", result |-> "failed"] ELSE op
  /\ cancel' = IF cancel = "asked" THEN "refused" ELSE cancel
  /\ UNCHANGED <<shown, mount, message, confirming, missed>>

FilesNext ==
  \/ CacheStep /\ UNCHANGED <<pageVars, missed>>
  \/ MountReads \/ MountShows \/ Reads \/ Shows
  \/ \E p \in Paths : StartsUpload(p) \/ Prints(p) \/ Arms(p) \/ DeletesForGood(p)
  \/ Disarms
  \/ ClicksCancel \/ CancelRoute \/ CancelAnswered
  \/ UploadEnds \/ PrintEnds \/ DeleteRoute \/ DeleteEnds \/ OpAnswered
  \/ \E p \in Paths, c \in Contents \union {NoFile} : OthersPut(p, c)
  \/ ServerKilled

FilesSpec == FilesInit /\ [][FilesNext]_filesVars

-----------------------------------------------------------------------------
(* Whenever the page is idle it shows what the printer holds, after its    *)
(* own operations and their failures too ("The printer is the authority on *)
(* what it holds, not our verdict", Files.tsx:133-134).  Four exceptions:  *)
(* others have changed it since; a delete was obeyed and not answered; the *)
(* list could not be had; or the list asked for on opening the page came   *)
(* late, and took the place of one read after an upload or a deletion.     *)
ListIsRight ==
  ~Working /\ missed["shown"] \notin {"others", "late"} => shown = Held

(* The same without the last exception, as Files.tsx:131-135 has it: the   *)
(* list is read again because it may not stay stale.  The list asked for   *)
(* on opening may come after the other one (79-90), and stays.             *)
OwnChangesAreShown ==
  ~Working /\ missed["shown"] # "others" => shown = Held

(* No message goes on saying that something goes on (Files.tsx:96-128),    *)
(* whichever of an upload's and its cancellation's answers comes first.    *)
MessageEnds == message \in InProgress => Working \/ cancel # "none"

=============================================================================
