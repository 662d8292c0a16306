------------------------------ MODULE FlashFiles ------------------------------
(***************************************************************************)
(* The LittleFS flash file system as the firmware uses it (external: the   *)
(* library is not in this repository).  A file system is a function from   *)
(* paths to contents.  Every operation below is atomic under power loss,   *)
(* which is LittleFS's own contract; a SEQUENCE of them is not, and the    *)
(* modules that use this one let the power fail between any two.           *)
(*                                                                         *)
(* Opening a file for writing creates (or truncates) the entry; what is    *)
(* written reaches the flash when the file is closed.  A power loss in     *)
(* between, or a full flash, leaves an entry whose content is no document: *)
(* the firmware calls it a truncated or zero-byte file, here Torn.         *)
(***************************************************************************)
CONSTANTS Absent,  \* there is no entry under the path
          Torn     \* an entry that is empty or does not parse

Exists(fs, path) == fs[path] # Absent

\* A document that loads: neither missing, nor empty, nor truncated.
Readable(fs, path) == fs[path] \notin {Absent, Torn}

\* LittleFS.open(path, "w"), before the close.
Opened(fs, path) == [fs EXCEPT ![path] = Torn]

\* file.close() after content was written.
Closed(fs, path, content) == [fs EXCEPT ![path] = content]

\* LittleFS.remove(path): nothing happens to a path without entry.
Removed(fs, path) == [fs EXCEPT ![path] = Absent]

\* LittleFS.rename(from, to): replaces the target, fails without a source.
Renamed(fs, from, to) ==
    IF Exists(fs, from)
    THEN [fs EXCEPT ![to] = fs[from], ![from] = Absent]
    ELSE fs
===============================================================================
