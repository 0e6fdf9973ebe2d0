----------------------------- MODULE FallbackLog -----------------------------
(***************************************************************************)
(* The local fallback files of the gateway: FallbackLog in                 *)
(* gateway/src/obs_gateway/stack.py.  Rotation is left out: a file is the  *)
(* sequence of all the records that reached it.                            *)
(***************************************************************************)
EXTENDS Naturals, Sequences

CONSTANTS
    DirConfigured,      \* settings.fallback_log_dir is not empty
    DirMayChange        \* the directory may become usable or unusable

ASSUME FallbackAssumption == {DirConfigured, DirMayChange} \subseteq BOOLEAN

VARIABLES
    dirUsable,      \* the directory can be created and written to
    openFiles,      \* the keys of _handlers
    files,          \* the contents of events.jsonl and stack-health.jsonl
    eventsCounted   \* FALLBACK_EVENTS

fallbackVars == <<dirUsable, openFiles, files, eventsCounted>>

Files == {"events", "health"}

\* _handler(file) returns a handler: it is open already, or can be opened.
Handler(file) == DirConfigured /\ (file \in openFiles \/ dirUsable)

\* _write, once for each of the records.  Without a handler it does nothing; the
\* next write tries to open the file again.  A file once open takes every record:
\* what the disk refuses later, the handler of logging reports and swallows.
Write(file, rs) ==
    /\ IF Handler(file) /\ rs # <<>>
       THEN files' = [files EXCEPT ![file] = @ \o rs] /\ openFiles' = openFiles \cup {file}
       ELSE UNCHANGED <<files, openFiles>>
    /\ UNCHANGED dirUsable

\* write_event counts the event whether or not it could be written.
WriteEvent(r) == Write("events", <<r>>) /\ eventsCounted' = eventsCounted + 1

WriteHealth(rs) == Write("health", rs) /\ UNCHANGED eventsCounted

FallbackInit ==
    /\ dirUsable \in (IF DirMayChange THEN BOOLEAN ELSE {TRUE})
    /\ openFiles = {} /\ files = [file \in Files |-> <<>>]
    /\ eventsCounted = 0

\* The process ends: handlers and counters go, the files stay.
FallbackEnds ==
    /\ openFiles' = {} /\ eventsCounted' = 0
    /\ UNCHANGED <<dirUsable, files>>

DirChanges ==
    /\ DirMayChange /\ dirUsable' = ~dirUsable
    /\ UNCHANGED <<openFiles, files, eventsCounted>>
=============================================================================
