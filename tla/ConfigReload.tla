---------------------------- MODULE ConfigReload ----------------------------
(***************************************************************************)
(* The configuration file and the watcher that reloads it                  *)
(* (internal/config/watcher.go, cmd/luner/main.go:43-53).                  *)
(*                                                                         *)
(* A content stands for the whole file; Partial(c) is what a reader sees   *)
(* while c is being written.  The watch is on the file's inode: fsnotify   *)
(* reports each write, and a rename onto the path ends it.  Any number of  *)
(* unread Write events amounts to one: each is followed by a read.         *)
(***************************************************************************)
EXTENDS Integers

CONSTANTS
    Content,     \* contents of the file, complete or not
    Valid,       \* those Load parses and Validate accepts
    Partial(_),  \* what is in the file while a content is being written
    MaxEdits     \* bound: how often the file is edited

ASSUME ContentAssumption ==
    /\ Valid \subseteq Content /\ Valid # {}
    /\ \A c \in Content : Partial(c) \in Content
    /\ MaxEdits \in Nat

VARIABLES
    file,        \* what the file holds
    writing,     \* the content an editor is writing in place, or file
    watch,       \* none, active, lost
    event,       \* a Write event is unread
    watcher,     \* of Watch: starting, waiting, reload, loaded
    newCfg,      \* what Load has returned to Watch
    cfg,         \* Loader.cfg
    reported,    \* history: the file's last edit was reported to the watcher
    edits        \* bound counter

reloadVars == <<file, writing, watch, event, watcher, newCfg, cfg, reported, edits>>

loader == <<watcher, newCfg, cfg>>

\* NewLoader and Validate succeed.
ReloadInit ==
    /\ file \in Valid
    /\ writing = file
    /\ watch = "none"
    /\ event = FALSE
    /\ watcher = "starting"
    /\ newCfg = file
    /\ cfg = file
    /\ reported = TRUE
    /\ edits = 0

-----------------------------------------------------------------------------

\* An editor truncates the file and writes part of it...
BeginWrite ==
    /\ writing = file
    /\ edits < MaxEdits
    /\ \E c \in Valid \ {file} : file' = Partial(c) /\ writing' = c
    /\ event' = (event \/ watch = "active")
    /\ reported' = (watch = "active")
    /\ edits' = edits + 1
    /\ UNCHANGED <<watch, loader>>

\* ... and the rest of it.
EndWrite ==
    /\ writing # file
    /\ file' = writing
    /\ event' = (event \/ watch = "active")
    /\ reported' = (watch = "active")
    /\ UNCHANGED <<writing, watch, loader, edits>>

\* An editor, or a mounted volume, renames a new file onto the path.
Replace ==
    /\ writing = file
    /\ edits < MaxEdits
    /\ \E c \in Valid \ {file} : file' = c /\ writing' = c
    /\ watch' = IF watch = "active" THEN "lost" ELSE watch
    /\ reported' = FALSE
    /\ edits' = edits + 1
    /\ UNCHANGED <<event, loader>>

-----------------------------------------------------------------------------

\* watcher.Add(path), some time after NewLoader has read the file.
AddWatch ==
    /\ watcher = "starting"
    /\ watch' = "active"
    /\ watcher' = "waiting"
    /\ UNCHANGED <<file, writing, event, newCfg, cfg, reported, edits>>

\* A Write event is received; other events are ignored.
Receive ==
    /\ watcher = "waiting"
    /\ event
    /\ event' = FALSE
    /\ watcher' = "reload"
    /\ UNCHANGED <<file, writing, watch, newCfg, cfg, reported, edits>>

\* Load(path)
LoadFile ==
    /\ watcher = "reload"
    /\ newCfg' = file
    /\ watcher' = "loaded"
    /\ UNCHANGED <<file, writing, watch, event, cfg, reported, edits>>

\* Not the code: Watch returns on an error instead of going on.
SwapOrStop ==
    /\ watcher = "loaded"
    /\ cfg' = IF newCfg \in Valid THEN newCfg ELSE cfg
    /\ watcher' = IF newCfg \in Valid THEN "waiting" ELSE "stopped"
    /\ UNCHANGED <<file, writing, watch, event, newCfg, reported, edits>>

\* Not the code: events that came during the reload count as handled by it.
SwapAndDrain ==
    /\ watcher = "loaded"
    /\ cfg' = IF newCfg \in Valid THEN newCfg ELSE cfg
    /\ watcher' = "waiting"
    /\ event' = FALSE
    /\ UNCHANGED <<file, writing, watch, newCfg, reported, edits>>

\* Load or Validate refuses it and the old configuration stays, or the pointer
\* is swapped.
Swap ==
    /\ watcher = "loaded"
    /\ cfg' = IF newCfg \in Valid THEN newCfg ELSE cfg
    /\ watcher' = "waiting"
    /\ UNCHANGED <<file, writing, watch, event, newCfg, reported, edits>>

Loader == AddWatch \/ Receive \/ LoadFile \/ Swap

ReloadNext == BeginWrite \/ EndWrite \/ Replace \/ Loader

\* The watcher goroutine runs on, and an editor that began to write ends.
ReloadSpec ==
    /\ ReloadInit /\ [][ReloadNext]_reloadVars
    /\ WF_reloadVars(Loader) /\ WF_reloadVars(EndWrite)

-----------------------------------------------------------------------------

\* Types of the variables.
ReloadTypeOK ==
    /\ file \in Content /\ writing \in Content
    /\ watch \in {"none", "active", "lost"}
    /\ event \in BOOLEAN /\ reported \in BOOLEAN
    /\ watcher \in {"starting", "waiting", "reload", "loaded"}
    /\ newCfg \in Content
    /\ cfg \in Valid
    /\ edits \in 0..MaxEdits

\* An edit that the watcher was told of is never overlooked, however reads and
\* writes overlap: while the file holds something else than the configuration
\* in force and would be accepted, a read of it is still to come or under way
\* (watcher.go:55-73).
NoReloadOverlooked ==
    reported /\ file \in Valid /\ file # cfg =>
        \/ event
        \/ watcher = "reload"
        \/ watcher = "loaded" /\ newCfg = file

\* A file saved in place while it is watched takes effect, also when a reload
\* in between met half of it (watcher.go:64-73).
SavedInPlaceTakesEffect ==
    \A c \in Valid :
        file = c /\ writing = c /\ reported ~> cfg = c \/ file # c

=============================================================================
