------------------------------ MODULE ConfigFile ------------------------------
(***************************************************************************)
(* internal/config: the configuration file, how Save replaces it and what  *)
(* Load makes of it.  Save holds saveMu, writes a temporary file whose name *)
(* is always the same, and renames it.  Module Store has the writers and   *)
(* the kills.                                                              *)
(*                                                                         *)
(* A file written before a rename is taken to be whole after a kill of the *)
(* process; what a power failure does to data not yet on the disk is left  *)
(* out.                                                                    *)
(***************************************************************************)
EXTENDS Naturals

CONSTANTS Names,      \* entity names a user may choose
          Writers     \* who saves

ASSUME FileAssumption == {"unset", "default"} \cap Names = {}

VARIABLES
  file,       \* config.json
  tmp,        \* config.json.tmp
  saveMu,     \* who holds saveMu, or "free"
  save,       \* how far the Save of each writer is
  content     \* what it saves

files == <<file, tmp, saveMu, save, content>>

-----------------------------------------------------------------------------
\* URL, refresh token and client id are set and cleared together; the names of the
\* two helpers count as one here.
Config == [account : BOOLEAN, name : Names \cup {"unset", "default"}, startup : BOOLEAN]
Empty == [account |-> FALSE, name |-> "unset", startup |-> FALSE]

\* A file has a configuration, or there is none to have; "partial": created, or
\* written in part.
OnDisk == [is : {"whole", "missing", "garbage", "partial"}, of : Config]
Whole(c) == [is |-> "whole", of |-> c]
Bad(s) == [is |-> s, of |-> Empty]

\* A missing file is an empty configuration; main takes one that cannot be read or
\* parsed for empty as well.
Load == IF file.is = "whole" THEN file.of ELSE Empty

FileTypeOK ==
  /\ file \in OnDisk /\ tmp \in OnDisk /\ saveMu \in Writers \cup {"free"}
  /\ save \in [Writers -> {"idle", "asked", "locked", "opened", "written", "ok", "error"}]
  /\ content \in [Writers -> Config]

FileInit ==
  /\ file \in {Whole(c) : c \in Config} \cup {Bad("missing"), Bad("garbage")}
  /\ tmp = Bad("missing")
  /\ saveMu = "free" /\ save = [w \in Writers |-> "idle"]
  /\ content = [w \in Writers |-> Empty]

-----------------------------------------------------------------------------
Save(w, c) ==
  /\ save[w] = "idle" /\ save' = [save EXCEPT ![w] = "asked"]
  /\ content' = [content EXCEPT ![w] = c]
  /\ UNCHANGED <<file, tmp, saveMu>>

\* Mutant of Lock: no saveMu.
LockNothing(w) ==
  /\ save[w] = "asked" /\ save' = [save EXCEPT ![w] = "locked"]
  /\ UNCHANGED <<file, tmp, saveMu, content>>

Lock(w) ==
  /\ save[w] = "asked" /\ saveMu = "free" /\ saveMu' = w
  /\ save' = [save EXCEPT ![w] = "locked"]
  /\ UNCHANGED <<file, tmp, content>>

\* Mutant of Open: the file itself is written.
OpenInPlace(w) ==
  /\ save[w] = "locked" /\ save' = [save EXCEPT ![w] = "opened"]
  /\ file' = Bad("partial")
  /\ UNCHANGED <<tmp, saveMu, content>>

\* os.WriteFile truncates ...
Open(w) ==
  /\ save[w] = "locked" /\ save' = [save EXCEPT ![w] = "opened"]
  /\ tmp' = Bad("partial")
  /\ UNCHANGED <<file, saveMu, content>>

\* ... and writes.
Write(w) ==
  /\ save[w] = "opened" /\ save' = [save EXCEPT ![w] = "written"]
  /\ tmp' = Whole(content[w])
  /\ UNCHANGED <<file, saveMu, content>>

Rename(w) ==
  /\ save[w] = "written" /\ tmp.is # "missing" /\ save' = [save EXCEPT ![w] = "ok"]
  /\ file' = tmp /\ tmp' = Bad("missing") /\ saveMu' = "free"
  /\ UNCHANGED content

\* No directory, no room, a file that somebody holds open.
SaveFails(w) ==
  /\ save[w] \in {"locked", "opened", "written"}
  /\ save' = [save EXCEPT ![w] = "error"] /\ saveMu' = "free"
  /\ UNCHANGED <<file, tmp, content>>

\* The caller has the result.
Returned(w) ==
  /\ save[w] \in {"ok", "error"} /\ save' = [save EXCEPT ![w] = "idle"]
  /\ content' = [content EXCEPT ![w] = Empty]
  /\ UNCHANGED <<file, tmp, saveMu>>

FileKilled ==
  /\ saveMu' = "free" /\ save' = [w \in Writers |-> "idle"]
  /\ content' = [w \in Writers |-> Empty]
  /\ UNCHANGED <<file, tmp>>

\* Save goes on by itself; it fails only when the disk does.
SaveStep(w) == Lock(w) \/ Open(w) \/ Write(w) \/ Rename(w)
=============================================================================
