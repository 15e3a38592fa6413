----------------------------- MODULE VoicePack -------------------------------
(***************************************************************************)
(* Voice packs: request 0x34 of TuyaHandleExtentedFuction. A pack that     *)
(* /data/voice/<lang>/ver.txt says is there is used at once; otherwise it  *)
(* is downloaded, its MD5 sum compared, unpacked over the language's       *)
(* directory, its version written, and the link /data/voice/now pointed at *)
(* it. The steps are shell commands on a flash file system: each may fail  *)
(* (and the handler goes on, adding up exit codes), and the power may go   *)
(* between any two, or while an archive is being unpacked. The files       *)
(* survive; the handler starts over with the next request.                 *)
(*                                                                         *)
(* The phone, the server and the shell's commands are external.            *)
(***************************************************************************)
EXTENDS Naturals

CONSTANTS Langs, Versions,
          None,            \* no file, no link, no version
          Torn,            \* the content of a partly unpacked archive
          MaxRequests,     \* bound: requests of the phone
          MaxFaults,       \* bound: failing commands
          MaxCrashes       \* bound: power cuts

\* Archives the handler can unpack (gz, tar, zip), and any other file.
Exts == {"archive", "other"}
Idle == "idle"

ASSUME VoiceAssumption ==
    /\ {None, Torn} \cap (Langs \cup Versions) = {} /\ None # Torn
    /\ None \notin {0, 1, 3}
    /\ MaxRequests \in Nat /\ MaxFaults \in Nat /\ MaxCrashes \in Nat

VARIABLES pc,         \* the handler's next step
          lang, version, ext,   \* the request
          err,        \* 0, or 1 when some exit code was not 0
          content,    \* lang -> None, a version's files, or Torn
          verTxt,     \* lang -> what ver.txt says
          now,        \* the language /data/voice/now links to
          report,     \* the last status sent for this request: None, 0, 1 or 3
          verified,   \* history: <<lang, version>> whose download matched its sum
          unpacked,   \* history: <<lang, version>> whose unpacking was begun
          requests, faults, crashes

vars == <<pc, lang, version, ext, err, content, verTxt, now, report, verified,
          unpacked, requests, faults, crashes>>
request == <<lang, version, ext, requests>>
disk == <<content, verTxt, now>>
history == <<verified, unpacked>>

Init ==
    /\ pc = Idle /\ lang \in Langs /\ version \in Versions /\ ext = "archive"
    /\ err = 0 /\ report = None
    /\ content = [l \in Langs |-> None] /\ verTxt = [l \in Langs |-> None]
    /\ now = None
    /\ verified = {} /\ unpacked = {}
    /\ requests = 0 /\ faults = 0 /\ crashes = 0

\* A request: the pack whose version file says so is only linked again.
Request(l, v, e) ==
    /\ pc = Idle /\ requests < MaxRequests
    /\ lang' = l /\ version' = v /\ ext' = e
    /\ requests' = requests + 1
    /\ err' = 0 /\ report' = None
    /\ pc' = IF verTxt[l] = v THEN "unlink" ELSE "download"
    /\ UNCHANGED <<disk, history, faults, crashes>>

\* A command that fails, if one still may, counts in err.
Ok == UNCHANGED <<err, faults>>
Fails == faults < MaxFaults /\ faults' = faults + 1 /\ err' = 1

\* The pack that is already there: rm and ln, whose codes nobody looks at.
Unlink ==
    /\ pc = "unlink" /\ pc' = "relink"
    /\ \/ Ok /\ now' = None
       \/ Fails /\ UNCHANGED now
    /\ UNCHANGED <<request, content, verTxt, report, history, crashes>>

Relink ==
    /\ pc = "relink" /\ pc' = Idle
    /\ \/ Ok /\ now' = lang
       \/ Fails /\ UNCHANGED now
    /\ report' = 3
    /\ UNCHANGED <<request, content, verTxt, history, crashes>>

\* download_file: without a file nothing is reported; with one, 100 percent.
Download ==
    /\ pc = "download"
    /\ \/ pc' = "md5" /\ report' = 1
       \/ pc' = Idle /\ report' \in {report, 1}
    /\ UNCHANGED <<request, disk, err, history, faults, crashes>>

\* Mutant: the sum is not compared.
CheckSumSkipped ==
    /\ pc = "md5"
    /\ pc' = IF ext = "other" THEN "result" ELSE "unpack"
    /\ UNCHANGED <<request, disk, err, report, history, faults, crashes>>

\* Mutant: the version is written as soon as the sum matches.
CheckSumWritesVersion ==
    /\ pc = "md5"
    /\ verified' = verified \cup {<<lang, version>>}
    /\ verTxt' = [verTxt EXCEPT ![lang] = version]
    /\ pc' = IF ext = "other" THEN "result" ELSE "unpack"
    /\ UNCHANGED <<request, content, now, err, report, unpacked, faults, crashes>>

\* The file's sum matches the one in the request, or the download is refused.
\* An unknown extension is not installed.
CheckSum ==
    /\ pc = "md5"
    /\ \/ /\ verified' = verified \cup {<<lang, version>>}
          /\ pc' = IF ext = "other" THEN "result" ELSE "unpack"
          /\ UNCHANGED report
       \/ pc' = Idle /\ report' = 0 /\ UNCHANGED verified
    /\ UNCHANGED <<request, disk, err, unpacked, faults, crashes>>

\* tar or unzip begins to overwrite the files of the language ...
Unpack ==
    /\ pc = "unpack" /\ pc' = "unpacking"
    /\ content' = [content EXCEPT ![lang] = Torn]
    /\ unpacked' = unpacked \cup {<<lang, version>>}
    /\ UNCHANGED <<request, verTxt, now, err, report, verified, faults, crashes>>

\* Mutant: the exit code of the archiver is lost.
UnpackedUnchecked ==
    /\ pc = "unpacking" /\ pc' = "version"
    /\ \/ Ok /\ content' = [content EXCEPT ![lang] = version]
       \/ faults < MaxFaults /\ faults' = faults + 1 /\ UNCHANGED <<content, err>>
    /\ UNCHANGED <<request, verTxt, now, report, history, crashes>>

\* ... and has written them all, or fails. (The archive is then removed, and
\* the files of a zip are moved up from its directory: part of this step.)
Unpacked ==
    /\ pc = "unpacking" /\ pc' = "version"
    /\ \/ Ok /\ content' = [content EXCEPT ![lang] = version]
       \/ Fails /\ UNCHANGED content
    /\ UNCHANGED <<request, verTxt, now, report, history, crashes>>

\* ver.txt is rewritten: the new version, or on a full disk nothing.
WriteVersion ==
    /\ pc = "version" /\ pc' = "unnow"
    /\ \/ Ok /\ verTxt' = [verTxt EXCEPT ![lang] = version]
       \/ Fails /\ verTxt' = [verTxt EXCEPT ![lang] = None]
    /\ UNCHANGED <<request, content, now, report, history, crashes>>

RemoveNow ==
    /\ pc = "unnow" /\ pc' = "now"
    /\ \/ Ok /\ now' = None
       \/ Fails /\ UNCHANGED now
    /\ UNCHANGED <<request, content, verTxt, report, history, crashes>>

\* ln -sf, and now.txt, which nothing reads.
LinkNow ==
    /\ pc = "now" /\ pc' = "result"
    /\ \/ Ok /\ now' = lang
       \/ Fails /\ now' \in {now, lang}
    /\ UNCHANGED <<request, content, verTxt, report, history, crashes>>

\* Mutant: a failed installation is only logged.
ResultOnlySuccess ==
    /\ pc = "result" /\ pc' = Idle
    /\ report' = IF err = 0 THEN 3 ELSE report
    /\ UNCHANGED <<request, disk, err, history, faults, crashes>>

\* 0x03 when all commands succeeded, 0x00 otherwise.
Result ==
    /\ pc = "result" /\ pc' = Idle
    /\ report' = IF err = 0 THEN 3 ELSE 0
    /\ UNCHANGED <<request, disk, err, history, faults, crashes>>

\* The power goes: ver.txt is truncated when it was being written.
Crash ==
    /\ pc # Idle /\ crashes < MaxCrashes
    /\ crashes' = crashes + 1
    /\ pc' = Idle /\ report' = None
    /\ verTxt' \in {verTxt} \cup
                   (IF pc = "version" THEN {[verTxt EXCEPT ![lang] = None]} ELSE {})
    /\ UNCHANGED <<request, content, now, err, history, faults>>

Handler ==
    \/ Unlink \/ Relink \/ Download \/ CheckSum \/ Unpack \/ Unpacked
    \/ WriteVersion \/ RemoveNow \/ LinkNow \/ Result

Next ==
    \/ \E l \in Langs, v \in Versions, e \in Exts : Request(l, v, e)
    \/ Handler
    \/ Crash

Spec == Init /\ [][Next]_vars

\* The handler's thread runs on; the commands and the download end.
FairSpec == Spec /\ WF_vars(Handler)

----------------------------------------------------------------------------
(* Properties.                                                              *)

\* Type invariant.
TypeOK ==
    /\ pc \in {Idle, "unlink", "relink", "download", "md5", "unpack", "unpacking",
               "version", "unnow", "now", "result"}
    /\ lang \in Langs /\ version \in Versions /\ ext \in Exts
    /\ err \in {0, 1}
    /\ content \in [Langs -> Versions \cup {None, Torn}]
    /\ verTxt \in [Langs -> Versions \cup {None}]
    /\ now \in Langs \cup {None}
    /\ report \in {None, 0, 1, 3}
    /\ verified \subseteq Langs \X Versions /\ unpacked \subseteq Langs \X Versions
    /\ requests \in 0..MaxRequests /\ faults \in 0..MaxFaults
    /\ crashes \in 0..MaxCrashes

\* A version file never names a pack whose download did not match its sum,
\* whatever commands failed and wherever the power went: what ver.txt says is
\* what lets a later request skip the download.
VersionEarned ==
    \A l \in Langs : verTxt[l] # None => <<l, verTxt[l]>> \in verified

\* A pack reported in use (0x03) after it was downloaded and installed is whole,
\* its version file says so, and the link names it: every command on the way
\* counted in err. (An archive of unknown kind is reported without a trace of
\* it on the disk; a pack found by its version file is not looked into.)
InstalledIsInUse ==
    [][(pc = "result" /\ report' = 3 /\ ext # "other") =>
         /\ content[lang] = version /\ verTxt[lang] = version /\ now = lang]_vars

\* Only one version of language l was ever unpacked.
OneVersion(l) == \A p, q \in unpacked : (p[1] = l /\ q[1] = l) => p = q

\* As long as no command fails, a power cut while a language is installed for
\* the first time leaves no version file for a torn pack: ver.txt is written
\* after the archive is unpacked, so the next request downloads it again. (With
\* an older version in place its ver.txt survives the torn files.)
FirstInstallCrashSafe ==
    faults = 0 =>
        \A l \in Langs :
            (verTxt[l] # None /\ OneVersion(l)) => content[l] = verTxt[l]

\* A finished download is answered, in use or failed, unless the power goes.
DownloadAnswered ==
    \A n \in 1..MaxRequests :
        (pc = "md5" /\ requests = n)
            ~> (requests > n \/ report \in {0, 3} \/ (pc = Idle /\ report = None))
============================================================================
