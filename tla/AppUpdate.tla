------------------------------ MODULE AppUpdate ------------------------------
(***************************************************************************)
(* In-app updates: AppUpdateController (src/main/app/app-update-           *)
(* controller.ts) over the release check and the verified download of      *)
(* src/core/update/github-app-update.ts, as main.ts asks for them.         *)
(*                                                                         *)
(* One check and one download may be asked for at any moment.  A check     *)
(* waits for the download in progress, because it may withdraw the asset   *)
(* being downloaded; a download waits for the check in progress, because   *)
(* it takes the asset that check selects.  What was downloaded and the     *)
(* validator (ETag) of the last answer outlive the process; the selected   *)
(* asset does not.                                                         *)
(***************************************************************************)
EXTENDS Naturals, FiniteSets

CONSTANTS
  None,          \* no release, no asset
  Releases,      \* what the server may publish: [version, archs, build]; version 0 is the running one
  Builds,        \* installations: [platform, kind, arch, translated]
  MaxPublished,  \* times the latest release changes
  MaxAsked,      \* checks and downloads asked for
  MaxFaults,     \* requests, transfers, settings writes and file operations that fail
  MaxCrashes

VARIABLES
  build,         \* this installation
  latest,        \* the server's latest release
  eTag,          \* saved: the release whose validator the settings keep
  info,          \* updateInfo: the release last selected from
  updateDownload,\* [state, asset]
  check,         \* performCheck: where it stands
  answer,        \* the answer it holds
  download,      \* performDownload: where it stands
  asset,         \* the asset it took
  content,       \* what its .part file holds
  waiting,       \* downloadSelected calls that await the check
  files,         \* the release files in the download directory: [asset, content]
  parts,         \* .part files there
  seen,          \* the releases that were latest since the check began
  told,          \* the asset the last "downloaded" notice was about
  unkept,        \* history: the release selected whose validator the settings could not keep
  published, asked, faults, crashes

vars == <<build, latest, eTag, info, updateDownload, check, answer, download, asset, content, waiting, files, parts, seen,
          told, unkept, published, asked, faults, crashes>>
disk == <<files, parts>>
budget == <<published, asked, faults, crashes>>
checking == <<check, answer, seen>>
transfer == <<download, asset, content>>

Idle == [state |-> "idle", asset |-> None]
Archs == {"x64", "arm64"}
Assets == [version: Nat, arch: Archs, build: Nat]
Name(a) == <<a.version, a.arch>>
-----------------------------------------------------------------------------
(* The installation and what replaces it *)

\* What a Linux build finds in its environment: AppRun beside it, APPIMAGE, APPDIR, itself inside APPDIR.
LinuxEnvironment(kind) ==
  [appRun   |-> kind = "extracted",
   appImage |-> kind \in {"mounted", "undirected", "child"},
   appDir   |-> kind \in {"mounted", "child"},
   inside   |-> kind = "mounted"]

resolveUpdateFormat(platform, kind) ==
  LET e == LinuxEnvironment(kind)
  IN CASE platform \in {"windows", "macos"} -> platform
       [] platform = "linux" /\ e.appRun -> "linux-appimage"
       [] platform = "linux" /\ ~e.appRun /\ ~e.appImage -> "linux-deb"
       [] platform = "linux" /\ ~e.appRun /\ e.appImage /\ ~e.appDir -> "linux-appimage"
       [] platform = "linux" /\ ~e.appRun /\ e.appImage /\ e.appDir -> IF e.inside THEN "linux-appimage" ELSE "linux-deb"
       [] OTHER -> "none"

format == resolveUpdateFormat(build.platform, build.kind)

\* The architecture to offer, and the one to fall back on.
arch == IF build.translated THEN "arm64" ELSE build.arch

selectUpdateAsset(r, a) ==
  IF a \in r.archs \cap Archs THEN [version |-> r.version, arch |-> a, build |-> r.build] ELSE None

\* The asset readGitHubAppUpdate selects from a release.
offer(r) ==
  LET own == selectUpdateAsset(r, arch)
  IN IF r = None \/ r.version = 0 THEN None
     ELSE IF own # None THEN own ELSE selectUpdateAsset(r, build.arch)
-----------------------------------------------------------------------------
Init ==
  /\ build \in Builds
  /\ latest \in Releases
  /\ eTag = None /\ info = None /\ updateDownload = Idle
  /\ check = "idle" /\ answer = None /\ download = "idle" /\ asset = None /\ content = "none"
  /\ waiting = 0 /\ files = {} /\ parts = 0 /\ seen = {} /\ told = None /\ unkept = None
  /\ published = 0 /\ asked = 0 /\ faults = 0 /\ crashes = 0

\* The project publishes a release, or withdraws one.
Publish ==
  /\ published < MaxPublished
  /\ latest' \in Releases \ {latest}
  /\ seen' = seen \cup {latest'}
  /\ published' = published + 1
  /\ UNCHANGED <<unkept, build, eTag, info, updateDownload, check, answer, transfer, waiting, disk, told, asked, faults, crashes>>

\* setDownload, and handleUpdateDownloadChanged of main.ts.
setDownload(d) ==
  /\ updateDownload' = d
  /\ told' = IF d.state = "downloaded" /\ updateDownload.state # "downloaded" THEN offer(info) ELSE told

\* A check asked for while one is in progress is that one's.
Check ==
  /\ check = "idle" /\ asked < MaxAsked
  /\ asked' = asked + 1
  /\ seen' = {latest}
  /\ check' = IF download # "idle" THEN "awaits" ELSE IF format = "none" THEN "unoffered" ELSE "asking"
  /\ UNCHANGED <<unkept, build, latest, eTag, info, updateDownload, answer, transfer, waiting, disk, told, published, faults, crashes>>

\* The download it waited for has ended well.
AfterDownload ==
  /\ check = "awaits" /\ download = "idle"
  /\ check' = IF format = "none" THEN "unoffered" ELSE "asking"
  /\ UNCHANGED <<unkept, build, latest, eTag, info, updateDownload, answer, seen, transfer, waiting, disk, told, budget>>

\* In-app updates are not offered on this system.
Unoffered ==
  /\ check = "unoffered"
  /\ info' = None /\ unkept' = None
  /\ check' = "ended"
  /\ UNCHANGED <<build, latest, eTag, updateDownload, answer, seen, transfer, waiting, disk, told, budget>>

\* checkGitHubAppUpdate: the server answers "not modified" to the validator of its latest release; a forced check sends none.
Ask ==
  /\ check = "asking"
  /\ \E force \in BOOLEAN :
       IF ~force /\ eTag # None /\ eTag = latest
       THEN /\ check' = IF info = None THEN "asking again" ELSE "unmodified"
            /\ answer' = None
       ELSE check' = "answered" /\ answer' = latest
  /\ UNCHANGED <<unkept, build, latest, eTag, info, updateDownload, seen, transfer, waiting, disk, told, budget>>

\* Nothing is selected in this process: ask again without the validator.
AskAgain ==
  /\ check = "asking again"
  /\ check' = "answered" /\ answer' = latest
  /\ UNCHANGED <<unkept, build, latest, eTag, info, updateDownload, seen, transfer, waiting, disk, told, budget>>

\* The answer is kept, and a download of another asset is forgotten.
selected(r) ==
  /\ info' = r
  /\ IF offer(info) # offer(r) /\ updateDownload.state # "idle"
     THEN setDownload(Idle) ELSE UNCHANGED <<updateDownload, told>>

Answered ==
  /\ check \in {"answered", "unmodified"}
  /\ selected(IF check = "answered" THEN answer ELSE info)
  /\ check' = IF check = "answered" THEN "saving" ELSE "stamping"
  /\ unkept' = IF check = "answered" THEN None ELSE unkept
  /\ UNCHANGED <<build, latest, eTag, answer, seen, transfer, waiting, disk, budget>>

\* The settings keep the answer's validator; "not modified" carries the same one.
Save ==
  /\ check \in {"saving", "stamping"}
  /\ eTag' = IF check = "saving" THEN answer ELSE eTag
  /\ check' = "ended"
  /\ unkept' = IF eTag' = info THEN None ELSE unkept
  /\ UNCHANGED <<build, latest, info, updateDownload, answer, seen, transfer, waiting, disk, told, budget>>

\* The request, or the settings write, fails.
CheckFails ==
  /\ check \in {"asking", "asking again", "saving", "stamping"} /\ faults < MaxFaults
  /\ faults' = faults + 1
  /\ check' = "idle" /\ answer' = None /\ seen' = {}
  /\ waiting' = 0
  /\ unkept' = IF check = "saving" /\ eTag # info THEN info ELSE unkept
  /\ UNCHANGED <<build, latest, eTag, info, updateDownload, transfer, disk, told, published, asked, crashes>>
-----------------------------------------------------------------------------
(* The download *)

\* performDownload begins.
begun ==
  IF offer(info) = None THEN UNCHANGED <<transfer, updateDownload, told>>
  ELSE /\ asset' = offer(info) /\ download' = "clean" /\ content' = "none"
       /\ setDownload([state |-> "downloading", asset |-> asset'])

\* downloadSelected, up to its first await.
askedFor ==
  IF check # "idle" THEN waiting' = 1 /\ UNCHANGED <<transfer, updateDownload, told>>
  ELSE IF download # "idle" THEN UNCHANGED <<transfer, updateDownload, told, waiting>>
  ELSE begun /\ UNCHANGED waiting

DownloadSelected ==
  /\ asked < MaxAsked
  /\ asked' = asked + 1
  /\ askedFor
  /\ UNCHANGED <<unkept, build, latest, eTag, info, checking, disk, published, faults, crashes>>

\* The check ends well; what waited for it starts the download, or joins the one started.
CheckEnds ==
  /\ check = "ended"
  /\ check' = "idle" /\ answer' = None /\ seen' = {}
  /\ waiting' = 0
  /\ IF waiting > 0 /\ download = "idle" THEN begun ELSE UNCHANGED <<transfer, updateDownload, told>>
  /\ UNCHANGED <<unkept, build, latest, eTag, info, disk, budget>>

\* removeMatchingFiles: the partial files here are abandoned ones; a failure is not minded.
Clean ==
  /\ download = "clean"
  /\ download' = "transfer"
  /\ \/ parts' = 0 /\ UNCHANGED faults
     \/ faults < MaxFaults /\ faults' = faults + 1 /\ UNCHANGED parts
  /\ UNCHANGED <<unkept, build, latest, eTag, info, updateDownload, checking, asset, content, waiting, files, told, published, asked, crashes>>

\* The transfer into a .part file of its own ends: all of it, or less, or as much of another file.
Transfer ==
  /\ download = "transfer"
  /\ download' = "verify"
  /\ parts' = parts + 1
  /\ \/ content' = "whole" /\ UNCHANGED faults
     \/ faults < MaxFaults /\ faults' = faults + 1 /\ content' \in {"short", "other"}
  /\ UNCHANGED <<unkept, build, latest, eTag, info, updateDownload, checking, asset, waiting, files, told, published, asked, crashes>>

\* Mutant: only the size is compared.
verifiedBySize == content # "short"

\* The size and the digest of the release's metadata.
verified == content # "short" /\ content # "other"

Verify ==
  /\ download = "verify" /\ verified
  /\ download' = "remove"
  /\ UNCHANGED <<unkept, build, latest, eTag, info, updateDownload, checking, asset, content, waiting, disk, told, budget>>

\* The file of that name goes, the verified one takes its name, then the files of other releases go.
Remove ==
  /\ download = "remove"
  /\ files' = {f \in files : Name(f.asset) # Name(asset)}
  /\ download' = "rename"
  /\ UNCHANGED <<unkept, build, latest, eTag, info, updateDownload, checking, asset, content, waiting, parts, told, budget>>

Rename ==
  /\ download = "rename"
  /\ files' = files \cup {[asset |-> asset, content |-> content]}
  /\ parts' = parts - 1
  /\ download' = "prune"
  /\ UNCHANGED <<unkept, build, latest, eTag, info, updateDownload, checking, asset, content, waiting, told, budget>>

pruned == {f \in files : Name(f.asset) = Name(asset)}

\* performDownload ends well; a failed removal is not minded.
Prune ==
  /\ download = "prune"
  /\ \/ files' = pruned /\ UNCHANGED faults
     \/ faults < MaxFaults /\ faults' = faults + 1 /\ UNCHANGED files
  /\ setDownload([state |-> "downloaded", asset |-> asset])
  /\ download' = "idle" /\ asset' = None /\ content' = "none"
  /\ UNCHANGED <<unkept, build, latest, eTag, info, checking, waiting, parts, published, asked, crashes>>

\* Anything up to the rename fails or times out: the partial file goes, and the check that waited fails too.
DownloadFails ==
  /\ \/ download = "verify" /\ ~verified /\ UNCHANGED faults
     \/ download \in {"clean", "transfer", "remove", "rename"} /\ faults < MaxFaults /\ faults' = faults + 1
  /\ parts' = IF download \in {"verify", "remove", "rename"} THEN parts - 1 ELSE parts
  /\ setDownload([state |-> "error", asset |-> asset])
  /\ download' = "idle" /\ asset' = None /\ content' = "none"
  /\ IF check = "awaits"
     THEN check' = "idle" /\ answer' = None /\ seen' = {} /\ waiting' = 0
     ELSE UNCHANGED <<checking, waiting>>
  /\ UNCHANGED <<unkept, build, latest, eTag, info, files, published, asked, crashes>>

\* The process ends anywhere; the settings and the download directory stay, and the next process may be the release installed.
Crash ==
  /\ crashes < MaxCrashes
  /\ crashes' = crashes + 1
  /\ info' = None /\ unkept' = None /\ updateDownload' = Idle /\ told' = None
  /\ check' = "idle" /\ answer' = None /\ seen' = {} /\ waiting' = 0
  /\ download' = "idle" /\ asset' = None /\ content' = "none"
  /\ UNCHANGED <<build, latest, eTag, disk, published, asked, faults>>

Next ==
  \/ Publish \/ Check \/ AfterDownload \/ Unoffered \/ Ask \/ AskAgain \/ Answered \/ Save \/ CheckFails
  \/ DownloadSelected \/ CheckEnds \/ Clean \/ Transfer \/ Verify \/ Remove \/ Rename \/ Prune \/ DownloadFails \/ Crash

Spec == Init /\ [][Next]_vars
-----------------------------------------------------------------------------
(* What has to hold *)

\* The controller's fields, the files and the budgets have the shapes the code gives them.
TypeOK ==
  /\ build \in Builds /\ latest \in Releases
  /\ {eTag, info, answer, unkept} \subseteq Releases \cup {None} /\ seen \subseteq Releases
  /\ updateDownload.state \in {"idle", "downloading", "downloaded", "error"}
  /\ check \in {"idle", "awaits", "unoffered", "asking", "asking again", "answered", "unmodified", "saving", "stamping", "ended"}
  /\ download \in {"idle", "clean", "transfer", "verify", "remove", "rename", "prune"}
  /\ asset \in Assets \cup {None} /\ content \in {"none", "whole", "short", "other"}
  /\ waiting \in 0..1 /\ parts \in Nat
  /\ published \in 0..MaxPublished /\ asked \in 0..MaxAsked /\ faults \in 0..MaxFaults /\ crashes \in 0..MaxCrashes

\* No file bears a release's name unless its bytes are those of that release's file, whatever failed or crashed on the way.
ReleaseFilesAreVerified == \A f \in files : f.content = "whole"

\* What is shown as downloading or downloaded is the asset now offered, and a finished download's file is there with its bytes.
DownloadedIsTheOffer ==
  /\ updateDownload.state \in {"downloading", "downloaded"} => updateDownload.asset = offer(info)
  /\ updateDownload.state = "downloaded" => [asset |-> updateDownload.asset, content |-> "whole"] \in files

\* The notice of a finished download names the version that was downloaded.
NoticeIsTrue == updateDownload.state = "downloaded" => told = updateDownload.asset

\* A check that ends well has selected from a release that was the latest while it ran: a validator kept across a restart, or
\* across a failed check, never stands for an answer this process does not have.  The exception is exact: a release that was
\* selected while the write of its validator failed stays selected, although it was withdrawn since, for as long as "not
\* modified" answers the older validator the settings still have.
AnswerIsCurrent == (check = "ended" /\ format # "none") => info \in seen \/ (info = unkept /\ eTag \in seen)

\* Nobody waits for somebody who waits for them: a download that waits has a check to wait for, a check that waits a download
\* that runs by itself.
WaitsEnd == (waiting > 0 => check # "idle") /\ (check = "awaits" => download # "idle" \/ updateDownload.state = "downloaded")

\* A build that can be translated, or finds itself in another program's environment, is offered a file that replaces it: of its
\* own kind, and for the machine's architecture, or its own when there is none.
OfferReplacesBuild ==
  /\ build.platform = "linux" => (format = "linux-deb" <=> build.kind \in {"package", "child"})
  /\ \A r \in Releases : (r.version > 0 /\ {arch, build.arch} \cap r.archs # {}) => offer(r) # None

\* The group a run checks: what is offered, shown and kept as an update is what the project published.
UpdatesAreTrue ==
  /\ ReleaseFilesAreVerified /\ DownloadedIsTheOffer /\ NoticeIsTrue
  /\ AnswerIsCurrent /\ WaitsEnd /\ OfferReplacesBuild
=============================================================================
