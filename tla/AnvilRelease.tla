---------------------------- MODULE AnvilRelease ----------------------------
(***************************************************************************)
(* CheckAnvilAndInstall where anvil is not on the PATH: the release to use *)
(* is remembered in a file of the temporary directory, which the process   *)
(* leaves behind, and its archive is extracted next to it.  Both files are *)
(* written in place and taken for good by the next process that finds      *)
(* them; a write can fail, or the process stop, in its middle.             *)
(***************************************************************************)

VARIABLES
  step,    \* where the installation is
  config,  \* the file that names the release
  exec,    \* the executable
  torn     \* history: whether a write ended in its middle

releaseVars == <<step, config, exec, torn>>

Files == {"none", "cut", "whole"}

Init ==
  /\ step = "check"
  /\ config = "none" /\ exec = "none"
  /\ torn = FALSE

(* GetLatestReleaseCompatible: the file decides; without it GitHub does, *)
(* and the file is written.                                              *)
LoadConfig ==
  /\ step = "check" /\ config # "none"
  /\ step' = IF config = "whole" THEN "asset" ELSE "failed"
  /\ UNCHANGED <<config, exec, torn>>

ListReleases ==
  /\ step = "check" /\ config = "none"
  /\ step' = "saving" /\ config' = "cut"
  /\ UNCHANGED <<exec, torn>>

SaveConfig ==
  /\ step = "saving"
  /\ step' = "asset" /\ config' = "whole"
  /\ UNCHANGED <<exec, torn>>

(* Mutant of FindAsset: without the file it goes on as with it. *)
FindAssetAnyway ==
  /\ step = "asset"
  /\ step' = "ready"
  /\ UNCHANGED <<config, exec, torn>>

(* DownloadAsset: a file that is there is not downloaded again. *)
FindAsset ==
  /\ step = "asset" /\ exec # "none"
  /\ step' = "ready"
  /\ UNCHANGED <<config, exec, torn>>

Download ==
  /\ step = "asset" /\ exec = "none"
  /\ step' = "extracting" /\ exec' = "cut"
  /\ UNCHANGED <<config, torn>>

ExtractAsset ==
  /\ step = "extracting"
  /\ step' = "ready" /\ exec' = "whole"
  /\ UNCHANGED <<config, torn>>

Torn == torn' = (torn \/ step \in {"saving", "extracting"})

(* A request or a write fails: the process panics. *)
Fails ==
  /\ step \in {"check", "saving", "asset", "extracting"}
  /\ step = "check" => config = "none"
  /\ step = "asset" => exec = "none"
  /\ step' = "failed"
  /\ Torn
  /\ UNCHANGED <<config, exec>>

(* The process starts again with what it left in the directory. *)
Restart ==
  /\ step' = "check"
  /\ Torn
  /\ UNCHANGED <<config, exec>>

Install ==
  \/ LoadConfig \/ ListReleases \/ SaveConfig
  \/ FindAsset \/ Download \/ ExtractAsset

Next == Install \/ Fails \/ Restart

Spec == Init /\ [][Next]_releaseVars

-----------------------------------------------------------------------------
TypeOK ==
  /\ step \in {"check", "saving", "asset", "extracting", "ready", "failed"}
  /\ config \in Files /\ exec \in Files
  /\ torn \in BOOLEAN

(***************************************************************************)
(* What CheckAnvilAndInstall returns is a whole executable, and a start    *)
(* finds a readable configuration, unless an earlier process stopped or    *)
(* failed in the middle of writing: from then on, until somebody clears    *)
(* the directory, every start may fail, and this is what torn records.     *)
(***************************************************************************)
WholeUnlessTorn ==
  /\ step = "ready" => exec = "whole" \/ torn
  /\ step = "check" /\ config = "cut" => torn
  /\ exec = "cut" => step = "extracting" \/ torn
=============================================================================
