----------------------------- MODULE VersionSync -----------------------------
(***************************************************************************)
(* scripts/generate_version.py: library.json holds the version, and          *)
(* Version.h, Doxyfile and idf_component.yml must carry it.  A command is a  *)
(* list of steps, a file is written by truncating it first, and a command    *)
(* may be killed at any step, or end with an exception because a file cannot *)
(* be read or written.  Between commands people edit the files and commit.   *)
(***************************************************************************)
EXTENDS Integers, Sequences

CONSTANTS
    Settable,     \* versions given to "set" or typed into library.json, <<major, minor, patch>>
    MaxPart,      \* bound: a part is not bumped beyond it
    Identities    \* commits with their tree states

ASSUME VersionAssumption ==
    /\ Settable \subseteq Nat \X Nat \X Nat /\ Settable # {}
    /\ MaxPart \in Nat

Parts == {"major", "minor", "patch"}
Outputs == {"header", "doxyfile", "component"}
Torn == <<"torn">>        \* no longer what any command writes, or not there
Invalid == <<"invalid">>  \* a version that is not X.Y.Z
NoIdentity == "unknown"
NoStamp == "torn"

VARIABLES
    library,      \* the version in library.json
    header,       \* the version of Version.h, which is generated as a whole
    doxyfile,     \* its PROJECT_NUMBER fields, their version, whether its end is cut off
    component,    \* the same of the version fields of idf_component.yml
    identity,     \* what Git says of the checkout
    stamp,        \* the identity in the example's build header
    command,      \* the last command
    todo,         \* its steps still to take
    writing,      \* the first of them has truncated its file
    wanted,       \* the version, or identity, to be written
    clean,        \* no output was out of date
    exit,         \* RUNNING, the exit code, or NONE once killed or something was edited
    before,       \* the files when the command started
    failed        \* history: the command met an I/O error

files == <<library, header, doxyfile, component>>
vars == <<files, identity, stamp, command, todo, writing, wanted, clean, exit, before, failed>>

Whole(v) == v \notin {Torn, Invalid}

-----------------------------------------------------------------------------
WithinBound(v) == v \in (0 .. MaxPart) \X (0 .. MaxPart) \X (0 .. MaxPart)
Bumped(v, part) ==
    CASE part = "major" -> <<v[1] + 1, 0, 0>>
      [] part = "minor" -> <<v[1], v[2] + 1, 0>>
      [] part = "patch" -> <<v[1], v[2], v[3] + 1>>

VersionCode(v) == v[1] * 10000 + v[2] * 100 + v[3]

Commands ==
    [name : {"sync", "check", "identity-header"}]
    \cup [name : {"bump"}, part : Parts] \cup [name : {"set"}, version : Settable]

\* Fault: each file is examined when its turn comes.
SyncOneByOne == <<"header", "expect", "doxyfile", "component">>
\* The files are examined before the first of them is written.
Sync == <<"expect", "header", "doxyfile", "component">>

\* Fault: library.json is written when the outputs are.
SetVersionLast == Sync \o <<"library">>
SetVersion == <<"library">> \o Sync

Plan(name) ==
    CASE name \in {"sync", "check"} -> Sync
      [] name \in {"bump", "set"} -> SetVersion
      [] name = "identity-header" -> <<"stamp">>

Doing(step) == todo # <<>> /\ Head(todo) = step
OneField(file) == file.fields = 1
UpToDate(step) ==
    CASE step = "header" -> header = wanted
      [] step = "doxyfile" -> doxyfile.version = wanted
      [] step = "component" -> component.version = wanted

-----------------------------------------------------------------------------
Init ==
    /\ library \in Settable
    /\ header = library
    /\ doxyfile = [fields |-> 1, version |-> library, cut |-> FALSE]
    /\ component = [fields |-> 1, version |-> library, cut |-> FALSE]
    /\ identity \in Identities /\ stamp = NoStamp
    /\ command = [name |-> "sync"] /\ todo = <<>> /\ writing = FALSE
    /\ wanted = library /\ clean = TRUE
    /\ exit = "NONE" /\ before = files /\ failed = FALSE

Stop(code) ==
    /\ exit' = code /\ todo' = <<>> /\ writing' = FALSE

Requested(c) ==
    CASE c.name = "set" -> c.version
      [] c.name = "bump" /\ Whole(library) -> Bumped(library, c.part)
      [] OTHER -> library

\* main(), without arguments (a PlatformIO build) the same as sync.
Begin ==
    /\ exit # "RUNNING"
    /\ \E c \in Commands :
        /\ c.name = "bump" /\ Whole(library) => WithinBound(Bumped(library, c.part))
        /\ command' = c
        /\ todo' = Plan(c.name)
        /\ wanted' = Requested(c)
    /\ clean' = TRUE /\ exit' = "RUNNING" /\ before' = files /\ failed' = FALSE
    /\ UNCHANGED <<files, identity, stamp, writing>>

\* Neither command can read a torn library.json, and bump needs a version.
OpenLibrary ==
    /\ Doing("library") /\ ~writing
    /\ IF library = Torn \/ (command.name = "bump" /\ library = Invalid)
       THEN Stop("1") /\ UNCHANGED library
       ELSE library' = Torn /\ writing' = TRUE /\ UNCHANGED <<todo, exit>>
    /\ UNCHANGED <<header, doxyfile, component, identity, stamp, command, wanted, clean, before, failed>>

WriteLibrary ==
    /\ Doing("library") /\ writing
    /\ library' = wanted
    /\ todo' = Tail(todo) /\ writing' = FALSE
    /\ UNCHANGED <<header, doxyfile, component, identity, stamp, command, wanted, clean, exit, before, failed>>

\* _expected_outputs() raises where it cannot say what a file should be.
Expect ==
    /\ Doing("expect")
    /\ IF Whole(library) /\ OneField(doxyfile) /\ OneField(component)
       THEN /\ todo' = Tail(todo) /\ wanted' = library
            /\ UNCHANGED <<writing, exit>>
       ELSE Stop("1") /\ UNCHANGED wanted
    /\ UNCHANGED <<files, identity, stamp, command, clean, before, failed>>

SkipOutput ==
    /\ \E step \in Outputs :
        /\ Doing(step) /\ ~writing
        /\ UpToDate(step) \/ command.name = "check"
        /\ clean' = (clean /\ UpToDate(step))
    /\ todo' = Tail(todo)
    /\ UNCHANGED <<files, identity, stamp, command, writing, wanted, exit, before, failed>>

Empty == [fields |-> 0, version |-> Torn, cut |-> TRUE]
OpenOutput ==
    /\ \E step \in Outputs :
        /\ Doing(step) /\ ~writing
        /\ ~UpToDate(step) /\ command.name # "check"
        /\ header' = IF step = "header" THEN Torn ELSE header
        /\ doxyfile' = IF step = "doxyfile" THEN Empty ELSE doxyfile
        /\ component' = IF step = "component" THEN Empty ELSE component
    /\ clean' = FALSE /\ writing' = TRUE
    /\ UNCHANGED <<library, identity, stamp, command, todo, wanted, exit, before, failed>>

\* The text that was read, with its field set: an end that was cut off stays so.
Rewritten(old) == [fields |-> 1, version |-> wanted, cut |-> old.cut]
WriteOutput ==
    /\ \E step \in Outputs :
        /\ Doing(step) /\ writing
        /\ header' = IF step = "header" THEN wanted ELSE header
        /\ doxyfile' = IF step = "doxyfile" THEN Rewritten(before[3]) ELSE doxyfile
        /\ component' = IF step = "component" THEN Rewritten(before[4]) ELSE component
    /\ todo' = Tail(todo) /\ writing' = FALSE
    /\ UNCHANGED <<library, identity, stamp, command, wanted, clean, exit, before, failed>>

\* identity-header: Git may not answer, and a header that says so already is left alone.
OpenStamp ==
    /\ Doing("stamp") /\ ~writing
    /\ wanted' \in {identity, NoIdentity}
    /\ IF stamp = wanted'
       THEN todo' = Tail(todo) /\ UNCHANGED <<stamp, writing>>
       ELSE stamp' = NoStamp /\ writing' = TRUE /\ UNCHANGED todo
    /\ UNCHANGED <<files, identity, command, clean, exit, before, failed>>

WriteStamp ==
    /\ Doing("stamp") /\ writing
    /\ stamp' = wanted
    /\ todo' = Tail(todo) /\ writing' = FALSE
    /\ UNCHANGED <<files, identity, command, wanted, clean, exit, before, failed>>

Return ==
    /\ exit = "RUNNING" /\ todo = <<>>
    /\ exit' = IF command.name = "check" /\ ~clean THEN "1" ELSE "0"
    /\ UNCHANGED <<files, identity, stamp, command, todo, writing, wanted, clean, before, failed>>

\* What a command knew goes with its process.
Forgotten ==
    /\ exit' = "NONE" /\ command' = [name |-> "sync"] /\ failed' = FALSE
    /\ todo' = <<>> /\ writing' = FALSE /\ clean' = TRUE
    /\ wanted' = library' /\ before' = files'

\* What a truncated file may have got of its text: too little for its field, the
\* field in part, or the field without all of what follows.
Beginnings == {Empty} \cup [fields : {1}, version : {Torn, wanted}, cut : {TRUE}]

\* The command ends before its time, in the middle of a write, too.
Aborted ==
    /\ exit = "RUNNING"
    /\ doxyfile' \in IF writing /\ Doing("doxyfile") THEN Beginnings ELSE {doxyfile}
    /\ component' \in IF writing /\ Doing("component") THEN Beginnings ELSE {component}
    /\ UNCHANGED <<library, header, identity, stamp>>

Kill == Aborted /\ Forgotten

\* An OSError nobody catches, of a file or of the terminal.
IoError ==
    /\ Aborted
    /\ Stop("1") /\ failed' = TRUE
    /\ UNCHANGED <<command, wanted, clean, before>>

Edit ==
    /\ exit # "RUNNING"
    /\ \/ /\ library' \in Settable \cup {Invalid}
          /\ UNCHANGED <<header, doxyfile, component>>
       \/ /\ header' = Torn
          /\ UNCHANGED <<library, doxyfile, component>>
       \/ /\ \E n \in 0 .. 2 : doxyfile' = [doxyfile EXCEPT !.fields = n, !.cut = FALSE]
          /\ UNCHANGED <<library, header, component>>
       \/ /\ \E n \in 0 .. 2 : component' = [component EXCEPT !.fields = n, !.cut = FALSE]
          /\ UNCHANGED <<library, header, doxyfile>>
    /\ UNCHANGED <<identity, stamp>>
    /\ Forgotten

Commit ==
    /\ identity' \in Identities \ {identity}
    /\ UNCHANGED <<files, stamp, command, todo, writing, wanted, clean, exit, before, failed>>

Next ==
    \/ Begin \/ OpenLibrary \/ WriteLibrary \/ Expect
    \/ SkipOutput \/ OpenOutput \/ WriteOutput
    \/ OpenStamp \/ WriteStamp \/ Return
    \/ Kill \/ IoError \/ Edit \/ Commit

Spec == Init /\ [][Next]_vars

-----------------------------------------------------------------------------
(* Properties                                                              *)

\* A command that exits with 0 leaves every output with the version of
\* library.json, which is the one that was asked for, whatever an earlier
\* command left half done, and has cut no file off itself: one that was cut off
\* before passes as up to date.  identity-header leaves what it read from Git.
SuccessMeansSynced ==
    exit = "0" =>
      IF command.name = "identity-header" THEN stamp = wanted
      ELSE /\ library = wanted /\ Whole(library)
           /\ header = library
           /\ doxyfile = Rewritten(before[3]) /\ component = Rewritten(before[4])
           /\ command.name = "set" => library = command.version
           /\ command.name = "bump" => library = Bumped(before[1], command.part)
           /\ command.name \in {"sync", "check"} => library = before[1]

Now == <<header, doxyfile, component>>
Old == <<before[2], before[3], before[4]>>
Right == <<wanted, Rewritten(before[3]), Rewritten(before[4])>>

\* A command that exits with 1 has changed none of the outputs, unless it met an I/O
\* error.  Then it has brought the ones before some output to the version asked for,
\* which is in library.json, and has not touched the ones behind it.
FailureIsContained ==
    exit = "1" =>
      \/ Now = Old
      \/ /\ failed
         /\ library = wanted /\ Whole(library)
         /\ \E k \in 1 .. 3 : \A i \in 1 .. 3 : /\ i < k => Now[i] = Right[i]
                                              /\ i > k => Now[i] = Old[i]

\* The comment on VERSION_CODE: it is there for numeric comparison.  Wherever
\* Version.h is of an earlier version than library.json, its code is smaller.
Earlier(u, v) ==
    \/ u[1] < v[1]
    \/ u[1] = v[1] /\ u[2] < v[2]
    \/ u[1] = v[1] /\ u[2] = v[2] /\ u[3] < v[3]

CodeOrdersVersions ==
    Whole(header) /\ Whole(library) /\ Earlier(header, library) =>
      VersionCode(header) < VersionCode(library)
=============================================================================
