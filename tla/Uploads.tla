-------------------------------- MODULE Uploads --------------------------------
(***************************************************************************)
(* Files on their way to and from the library of a room (DropFiles.vue,     *)
(* fileUpload.ts, useFileDownload.ts).  The user drops files in a list,      *)
(* takes some out, and has the list uploaded, one file after another; the    *)
(* media server may ask to wait.  Each upload walks through the array that   *)
(* the list was when it began.  Downloads are kept from being repeated.      *)
(***************************************************************************)
EXTENDS Integers, Sequences, FiniteSets, SequencesExt

CONSTANTS Entries,   \* files of the user's disk, each time they are dropped
          MaxFiles,  \* maxNumberToUpload
          MaxRetries,\* of one upload
          MaxFaults, MaxRuns, MaxDownloads \* bounds

NoEntry == "none"
Empty == "empty"
Loading == "loading"
Done == "done"

VARIABLES
  files,     \* the list
  status,    \* of each file
  dropped,   \* history: files that were ever dropped
  taken,     \* history: files the user took out, or that there was no room for
  walk,      \* uploadFiles: its array, whether that is the list still, the position and the file
  step,      \* where the upload of the present file is
  attempt,
  uploadIsActive, uploadError,
  posted,    \* history: how often each file was added to the library
  busy,      \* files that are being downloaded, or were a moment ago
  fetching, settling,  \* requests for them, and timers
  faults, runs, downloads

listVars == <<files, status, dropped, taken>>
uploadVars == <<walk, step, attempt, uploadIsActive, uploadError, posted, runs>>
downloadVars == <<busy, fetching, settling, downloads>>
uploadsVars == <<listVars, uploadVars, downloadVars, faults>>

NoWalk == [array |-> <<>>, own |-> FALSE, i |-> 0, file |-> NoEntry]
InList(e) == e \in ToSet(files)

UploadsTypeOK ==
  /\ ToSet(files) \subseteq dropped /\ dropped \subseteq Entries /\ taken \subseteq dropped /\ Len(files) <= MaxFiles
  /\ status \in [Entries -> {Empty, Loading, Done}] /\ step \in {"none", "send", "wait", "add"}
  /\ walk.i \in 0 .. Len(walk.array) + Cardinality(Entries) /\ attempt \in 0 .. MaxRetries
  /\ (uploadIsActive <=> step # "none") /\ uploadError \in BOOLEAN
  /\ posted \in [Entries -> Nat] /\ fetching \subseteq Entries /\ settling \subseteq Entries

UploadsInit ==
  /\ files = <<>> /\ status = [e \in Entries |-> Empty] /\ dropped = {} /\ taken = {}
  /\ walk = NoWalk /\ step = "none" /\ attempt = 0 /\ uploadIsActive = FALSE /\ uploadError = FALSE
  /\ posted = [e \in Entries |-> 0]
  /\ busy = {} /\ fetching = {} /\ settling = {} /\ faults = 0 /\ runs = 0 /\ downloads = 0

-----------------------------------------------------------------------------
(* The list.                                                               *)

\* The array of the list changes in place, also for an upload that walks it.
InPlace(array) == files' = array /\ walk' = IF walk.own THEN [walk EXCEPT !.array = array] ELSE walk
\* The list gets a new array; an upload goes on with the one it has.
Replace(array) == files' = array /\ walk' = [walk EXCEPT !.own = FALSE]

AddFiles(e) ==
  /\ e \notin dropped /\ dropped' = dropped \cup {e} /\ uploadError' = FALSE
  /\ IF Len(files) < MaxFiles THEN InPlace(Append(files, e)) /\ UNCHANGED taken
     ELSE taken' = taken \cup {e} /\ UNCHANGED <<files, walk>>
  /\ UNCHANGED <<status, step, attempt, uploadIsActive, posted, runs, downloadVars, faults>>

RemoveFileFromList(e) ==
  /\ status[e] # Done /\ taken' = taken \cup {e}
  /\ \E index \in DOMAIN files : files[index] = e /\ InPlace(RemoveAt(files, index))
  /\ UNCHANGED <<status, dropped, step, attempt, uploadIsActive, uploadError, posted, runs, downloadVars, faults>>

CancelFiles ==
  /\ files # <<>> /\ taken' = taken \cup ToSet(files) /\ Replace(<<>>) /\ uploadError' = FALSE
  /\ UNCHANGED <<status, dropped, step, attempt, uploadIsActive, posted, runs, downloadVars, faults>>

-----------------------------------------------------------------------------
(* Uploading.                                                              *)

\* The button is disabled while an upload runs.
UploadFiles ==
  /\ files # <<>> /\ ~uploadIsActive /\ runs < MaxRuns /\ runs' = runs + 1
  /\ uploadError' = FALSE /\ uploadIsActive' = TRUE
  /\ status' = [status EXCEPT ![files[1]] = Loading] /\ step' = "send" /\ attempt' = 0
  /\ walk' = [array |-> files, own |-> TRUE, i |-> 1, file |-> files[1]]
  /\ UNCHANGED <<files, dropped, taken, posted, downloadVars, faults>>

Fault == faults < MaxFaults /\ faults' = faults + 1

\* Progress is shown by a new array of the same files.
Progress ==
  /\ step = "send" /\ walk.own /\ InList(walk.file) /\ Replace(files)
  /\ UNCHANGED <<status, dropped, taken, step, attempt, uploadIsActive, uploadError, posted, runs, downloadVars, faults>>

\* The media are on the server.
Stored ==
  /\ step = "send" /\ step' = "add"
  /\ UNCHANGED <<listVars, walk, attempt, uploadIsActive, uploadError, posted, runs, downloadVars, faults>>
RateLimited ==
  /\ step = "send" /\ attempt < MaxRetries /\ Fault /\ step' = "wait"
  /\ UNCHANGED <<listVars, walk, attempt, uploadIsActive, uploadError, posted, runs, downloadVars>>
Retry ==
  /\ step = "wait" /\ step' = "send" /\ attempt' = attempt + 1
  /\ UNCHANGED <<listVars, walk, uploadIsActive, uploadError, posted, runs, downloadVars, faults>>

\* What an array has at the places S, in the order of the array.
ElementsAt(array, S) ==
  [n \in 1 .. Cardinality(S) |-> array[CHOOSE i \in S : Cardinality({j \in S : j <= i}) = n]]

\* slip: what is done stays in the list
KeepsDone(array, s) == array
WithoutDone(array, s) == ElementsAt(array, {i \in DOMAIN array : s[array[i]] # Done})

\* The upload of a file ends; what is done leaves the list, in a new array.
Settle(s, array) ==
  /\ files' = WithoutDone(files, s)
  /\ LET i == walk.i + 1 IN
     IF i <= Len(array)
     THEN /\ status' = [s EXCEPT ![array[i]] = Loading] /\ step' = "send" /\ attempt' = 0
          /\ walk' = [array |-> array, own |-> FALSE, i |-> i, file |-> array[i]] /\ UNCHANGED uploadIsActive
     ELSE status' = s /\ step' = "none" /\ attempt' = 0 /\ uploadIsActive' = FALSE /\ walk' = NoWalk

AddFile ==
  /\ step = "add" /\ posted' = [posted EXCEPT ![walk.file] = @ + 1]
  /\ Settle([status EXCEPT ![walk.file] = Done], walk.array)
  /\ UNCHANGED <<dropped, taken, uploadError, runs, downloadVars, faults>>

\* The upload, or the message about it, fails.
UploadFails ==
  /\ step \in {"send", "add"} /\ Fault /\ Settle([status EXCEPT ![walk.file] = Empty], walk.array)
  /\ uploadError' = TRUE
  /\ UNCHANGED <<dropped, taken, posted, runs, downloadVars>>

-----------------------------------------------------------------------------
(* Downloading.                                                            *)

DownloadFile(e) ==
  /\ e \notin busy /\ downloads < MaxDownloads /\ downloads' = downloads + 1
  /\ busy' = busy \cup {e} /\ fetching' = fetching \cup {e}
  /\ UNCHANGED <<listVars, uploadVars, settling, faults>>
DownloadEnds(e) ==
  /\ e \in fetching /\ fetching' = fetching \ {e} /\ settling' = settling \cup {e}
  /\ UNCHANGED <<listVars, uploadVars, busy, downloads, faults>>
DownloadFails(e) ==
  /\ e \in fetching /\ Fault /\ fetching' = fetching \ {e} /\ busy' = busy \ {e}
  /\ UNCHANGED <<listVars, uploadVars, settling, downloads>>
DownloadAgain(e) ==
  /\ e \in settling /\ settling' = settling \ {e} /\ busy' = busy \ {e}
  /\ UNCHANGED <<listVars, uploadVars, fetching, downloads, faults>>

UploadsNext ==
  \/ \E e \in Entries : AddFiles(e) \/ RemoveFileFromList(e)
  \/ CancelFiles \/ UploadFiles \/ Progress \/ Stored \/ RateLimited \/ Retry \/ AddFile \/ UploadFails
  \/ \E e \in Entries : DownloadFile(e) \/ DownloadEnds(e) \/ DownloadFails(e) \/ DownloadAgain(e)

UploadsSpec == UploadsInit /\ [][UploadsNext]_uploadsVars

-----------------------------------------------------------------------------
\* A file that was dropped in the list is added to the library once at most, and
\* until it is, it stays in the list or was taken out, however the list changes while
\* an upload walks through it and whatever fails.  A file can be downloaded again
\* when the last download of it is over: busy has no other files.
TransfersEnd ==
  /\ \A e \in Entries : posted[e] <= 1 /\ (posted[e] = 1 => ~InList(e))
  /\ \A e \in dropped : InList(e) \/ e \in taken \/ posted[e] = 1
  /\ busy = fetching \cup settling
=============================================================================
